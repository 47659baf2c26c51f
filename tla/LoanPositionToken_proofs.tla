---------------------- MODULE LoanPositionToken_proofs ----------------------
(***************************************************************************)
(* LoanPositionToken, proved for every number of loans, positions and      *)
(* users, and for all amounts, fees and deadlines, in three parts:         *)
(*                                                                         *)
(*   Control.  A loan and its market agree, a loan is settled as its       *)
(*   deadline requires, and the calls of the loan contract keep the        *)
(*   markets covered.  The inductive invariant (ControlInv) says of each   *)
(*   loan what stage it can be in; what a position holds need only be an   *)
(*   integer for it.  The contract with its markets implements             *)
(*   LoanLifecycle's safety.                                               *)
(*                                                                         *)
(*   Ledgers.  The USDC of the contract is accounted for, the funded       *)
(*   amount of a loan is the stake of its positions, the collateral stays  *)
(*   behind the lenders, and no amount is ever negative.                   *)
(*                                                                         *)
(*   Payouts.  The entitlement of a position never shrinks, the platform   *)
(*   gets no more than its fee, and the lenders no more than the rest of   *)
(*   what was paid, but for less than a unit for every split of a position *)
(*   that had claimed.                                                     *)
(***************************************************************************)
EXTENDS LoanRefinement, Totals_proofs

(* The facts proved of OutcomeToken, about the markets of the loans. *)
MarketProofs == INSTANCE OutcomeToken_proofs
                  WITH Markets <- Loans, Amounts <- MarketAmounts, Collaterals <- Nat

-----------------------------------------------------------------------------
(* The markets: what OutcomeToken_proofs says of a loan contract that calls    *)
(* when it likes holds of this one.  The lemmas first carry the facts about    *)
(* finite sets, and the names, from one instance to the other.                 *)

LEMMA FiniteInMarket ==
  ASSUME NEW S, IsFiniteSet(S)
  PROVE  MarketProofs!IsFiniteSet(S)
BY DEF IsFiniteSet, MarketProofs!IsFiniteSet

LEMMA TotalInMarket ==
  ASSUME NEW f, NEW S
  PROVE  MarketProofs!Total(f, S) = Market!Total(f, S)
<1>1. \A T : MarketProofs!Cardinality(T) = Market!Cardinality(T)
  BY DEF MarketProofs!Cardinality, Market!Cardinality
<1>2. QED
  BY <1>1 DEF MarketProofs!Total, Market!Total, MarketProofs!Units, Market!Units

LEMMA ProductNat ==
  ASSUME NEW a \in Nat, NEW b \in Nat
  PROVE  a * b \in Nat
OBVIOUS

LEMMA CollateralNat ==
  ASSUME NEW a \in Nat, NEW b \in Nat
  PROVE  BorrowerCollateralAmount(a, b) \in Nat
BY ProductNat DEF BorrowerCollateralAmount, BasisPoints

LEMMA MarketAssumptions ==
  /\ MarketProofs!IsFiniteSet(Loans)
  /\ MarketProofs!IsFiniteSet(Users)
  /\ LoanContract \notin Users /\ NoAddress \notin MarketProofs!Holders
  /\ MarketAmounts \subseteq Nat /\ Nat \subseteq Nat
  /\ MaxCustody \in Nat /\ MaxPending \in Nat
<1>1. IsFiniteSet(Loans)
  BY LoanBoundsAssumption, FS_Interval DEF Loans
<1>2. MarketProofs!IsFiniteSet(Loans) /\ MarketProofs!IsFiniteSet(Users)
  BY <1>1, AccountsAssumption, FiniteInMarket
<1>3. LoanContract \notin Users /\ NoAddress \notin MarketProofs!Holders
  BY AccountsAssumption DEF MarketProofs!Holders, Holders
<1>4. MarketAmounts \subseteq Nat /\ Nat \subseteq Nat /\ MaxCustody \in Nat /\ MaxPending \in Nat
  BY InputsAssumption, LoanBoundsAssumption
<1>5. QED
  BY <1>2, <1>3, <1>4

LEMMA MarketUserNext ==
  ASSUME Market!UserNext
  PROVE  MarketProofs!Next
<1>1. MarketProofs!UserNext
  BY DEF Market!UserNext, MarketProofs!UserNext,
         Market!DepositBorrowerCollateral, MarketProofs!DepositBorrowerCollateral,
         Market!DepositPairCollateral, MarketProofs!DepositPairCollateral,
         Market!WithdrawPairDeposit, MarketProofs!WithdrawPairDeposit,
         Market!MergePositions, MarketProofs!MergePositions,
         Market!Redeem, MarketProofs!Redeem,
         Market!TransferOutcome, MarketProofs!TransferOutcome,
         Market!RefundBorrowerCollateral, MarketProofs!RefundBorrowerCollateral,
         Market!RefundPairCollateral, MarketProofs!RefundPairCollateral,
         Market!MintActivatedPair, MarketProofs!MintActivatedPair,
         Market!UnmintedPairDeposit, MarketProofs!UnmintedPairDeposit,
         Market!Receive, MarketProofs!Receive, Market!Pay, MarketProofs!Pay,
         Market!Credit, MarketProofs!Credit, Market!Debit, MarketProofs!Debit,
         Market!CreditPair, MarketProofs!CreditPair, Market!DebitPair, MarketProofs!DebitPair,
         Market!YesTokenId, MarketProofs!YesTokenId, Market!NoTokenId, MarketProofs!NoTokenId,
         Market!Outcome, MarketProofs!Outcome, Market!Holders, MarketProofs!Holders
<1>2. QED
  BY <1>1 DEF MarketProofs!Next

(* A step of the loan contract is a step of its markets, or leaves them alone. *)
LEMMA LoanStepInMarket ==
  ASSUME [Next]_vars
  PROVE  [MarketProofs!Next]_(MarketProofs!vars)
<1> USE DEF Market!Outcome, MarketProofs!Outcome
<1>1. ASSUME NEW l \in Loans, NEW u \in Users, NEW c \in Nat, Market!CreateProtoMarket(l, u, c)
      PROVE  MarketProofs!LoanContractNext
  BY <1>1 DEF Market!CreateProtoMarket, MarketProofs!CreateProtoMarket,
              MarketProofs!LoanContractNext
<1>2. ASSUME NEW l \in Loans, Market!ActivateMarket(l)
      PROVE  MarketProofs!LoanContractNext
  <2>1. MarketProofs!ActivateMarket(l)
    BY <1>2 DEF Market!ActivateMarket, MarketProofs!ActivateMarket,
                Market!Credit, MarketProofs!Credit, Market!YesTokenId, MarketProofs!YesTokenId,
                Market!NoTokenId, MarketProofs!NoTokenId
  <2>2. QED
    BY <2>1 DEF MarketProofs!LoanContractNext
<1>3. ASSUME NEW l \in Loans, Market!CancelMarket(l)
      PROVE  MarketProofs!LoanContractNext
  BY <1>3 DEF Market!CancelMarket, MarketProofs!CancelMarket, MarketProofs!LoanContractNext
<1>4. ASSUME NEW l \in Loans, NEW o \in {"Yes", "No"}, Market!ResolveMarket(l, o)
      PROVE  MarketProofs!LoanContractNext
  BY <1>4 DEF Market!ResolveMarket, MarketProofs!ResolveMarket, MarketProofs!LoanContractNext
<1>5. ASSUME NEW l \in Loans,
             Market!Redeem(l, LoanContract, "No", balanceOf[Market!NoTokenId(l)][LoanContract])
      PROVE  MarketProofs!LoanContractNext
  <2>1. MarketProofs!Redeem(l, LoanContract, "No",
                            balanceOf[MarketProofs!NoTokenId(l)][LoanContract])
    BY <1>5 DEF Market!Redeem, MarketProofs!Redeem, Market!Debit, MarketProofs!Debit,
                Market!Pay, MarketProofs!Pay, Market!NoTokenId, MarketProofs!NoTokenId
  <2>2. QED
    BY <2>1 DEF MarketProofs!LoanContractNext
<1>6. ASSUME UNCHANGED marketVars
      PROVE  UNCHANGED MarketProofs!vars
  BY <1>6 DEF marketVars, MarketProofs!vars
<1>7. CASE Tick \/ AdminNext
  BY <1>6, <1>7
  DEF Tick, AdminNext, SetOutcomeToken, SetPlatformFeeBps, SetPlatformFeeRecipient,
      TransferOwnership, AcceptOwnership, ClaimPlatformFee
<1>8. CASE MarketUserStep
  BY <1>8, MarketUserNext DEF MarketUserStep
<1>9. CASE LifecycleNext
  BY <1>2, <1>3, <1>4, <1>5, <1>9
  DEF LifecycleNext, Activate, SettleRepaid, CancelExpiredLoan, MarkDefaulted,
      RedeemDefaultCollateral, MarketProofs!Next
<1>10. CASE LoanNext
  <2>1. CASE \E u \in Users, r \in LoanRequests : CreateLoan(u, r)
    <3>1. PICK u \in Users, r \in LoanRequests : CreateLoan(u, r)
      BY <2>1
    <3>2. BorrowerCollateralAmount(r.principal, r.collateralBps) \in Nat
      BY InputsAssumption, CollateralNat
    <3>3. QED
      BY <1>1, <3>1, <3>2 DEF CreateLoan, MarketProofs!Next
  <2>2. CASE \/ \E u \in Users, l \in Loans, a \in FundAmounts : Fund(l, u, a)
             \/ \E l \in Loans, a \in PayAmounts : DepositToLoan(l, a)
    BY <1>6, <2>2 DEF Fund, DepositToLoan
  <2>3. QED
    BY <1>10, <2>1, <2>2 DEF LoanNext
<1>11. CASE PositionNext
  <2>1. \A q, u : ClaimFundingPrincipal(q, u) => UNCHANGED marketVars
    BY DEF ClaimFundingPrincipal
  <2>2. \A q, u : ClaimSettled(q, u) => UNCHANGED marketVars
    BY DEF ClaimSettled
  <2>3. \A q, u, a : SplitPosition(q, u, a) => UNCHANGED marketVars
    BY DEF SplitPosition
  <2>4. \A q, u, to : TransferPosition(q, u, to) => UNCHANGED marketVars
    BY DEF TransferPosition
  <2>5. UNCHANGED marketVars
    BY <1>11, <2>1, <2>2, <2>3, <2>4 DEF PositionNext, Claim
  <2>6. QED
    BY <1>6, <2>5
<1>12. CASE UNCHANGED vars
  BY <1>6, <1>12 DEF vars
<1>13. QED
  BY <1>7, <1>8, <1>9, <1>10, <1>11, <1>12 DEF Next

THEOREM MarketInvariantHolds == Spec => []MarketProofs!IInv
<1>1. Init => MarketProofs!IInv
  <2>1. Market!Init => MarketProofs!Init
    BY DEF Market!Init, MarketProofs!Init, Market!UnsetMarket, MarketProofs!UnsetMarket,
           Market!TokenIds, MarketProofs!TokenIds, Market!Outcome, MarketProofs!Outcome,
           Market!Holders, MarketProofs!Holders
  <2>2. QED
    BY <2>1, MarketAssumptions, MarketProofs!InitInv DEF Init
<1>2. MarketProofs!IInv /\ [Next]_vars => MarketProofs!IInv'
  BY MarketAssumptions, LoanStepInMarket, MarketProofs!NextInv
<1>3. QED
  BY <1>1, <1>2, PTL DEF Spec

(* The USDC of OutcomeToken.sol covers the markets of all loans when the loan *)
(* contract decides their fate: activate, cancelExpiredLoan, settleRepaid,    *)
(* markDefaulted and redeemDefaultCollateral interleaved with every trader.   *)
THEOREM LoanMarketsCovered == Spec => []MarketsCovered
<1>1. MarketProofs!IInv => MarketsCovered
  <2>1. \A m \in Loans, u \in Users :
          MarketProofs!UnmintedPairDeposit(m, u) = Market!UnmintedPairDeposit(m, u)
    BY DEF MarketProofs!UnmintedPairDeposit, Market!UnmintedPairDeposit
  <2>2. \A m \in Loans : MarketProofs!Unminted(m) = Market!Unminted(m)
    BY <2>1, TotalInMarket DEF MarketProofs!Unminted, Market!Unminted
  <2>3. \A t : MarketProofs!Supply(t) = Market!Supply(t)
    BY TotalInMarket
    DEF MarketProofs!Supply, Market!Supply, MarketProofs!Holders, Market!Holders
  <2>4. \A m \in Loans : MarketProofs!Owed(m) = Market!Owed(m)
    BY <2>2, <2>3
    DEF MarketProofs!Owed, Market!Owed, MarketProofs!Backing, Market!Backing,
        MarketProofs!YesTokenId, Market!YesTokenId
  <2>5. [m \in Loans |-> MarketProofs!Owed(m)] = [m \in Loans |-> Market!Owed(m)]
    BY <2>4
  <2>6. QED
    BY <2>5, TotalInMarket
    DEF MarketProofs!IInv, MarketProofs!CustodyCoversClaims, MarketsCovered,
        Market!CustodyCoversClaims
<1>2. QED
  BY <1>1, MarketInvariantHolds, PTL

-----------------------------------------------------------------------------
(* What is so of a loan. *)

LoanRecords ==
  [borrower : Users \cup {NoAddress}, principal : Nat, repaymentAmount : Nat,
   loanWithdrawFreezeDeadline : Nat, activationDeadline : Nat, repaymentDeadline : Nat,
   fundedAmount : Int, creditedAmount : Nat, repaymentSatisfiedAt : Nat,
   feeClaimedAmount : Int, state : LoanState,
   feeBps : 0 .. BasisPoints, feeRecipient : FeeRecipients \cup {NoAddress},
   collateralBps : Nat]

LoanShape == loans \in [Loans -> LoanRecords]

PositionRecords ==
  [loanId : Loans \cup {0}, principalAmount : Int, claimedAmount : Int, split : BOOLEAN,
   splitAfterClaim : BOOLEAN]

PositionShape ==
  /\ positions \in [PositionIds -> PositionRecords]
  /\ positionOwner \in [PositionIds -> Holders \cup {NoAddress}]
  /\ \A p \in PositionIds : positionOwner[p] # NoAddress => positions[p].loanId \in Loans

MarketRecords ==
  [borrower : Users \cup {NoAddress}, borrowerCollateralAmount : Nat,
   winningOutcome : {"Yes", "No", "None"},
   state : {"Proto", "Active", "Cancelled", "Resolved"}]

MarketShape == markets \in [Loans -> MarketRecords]

AdminShape ==
  /\ platformFeeBps \in 0 .. BasisPoints /\ platformFeeRecipient \in FeeRecipients
  /\ now \in Nat /\ now >= 1 /\ nextLoanId \in Nat

Shape == LoanShape /\ PositionShape /\ MarketShape /\ AdminShape

(* What is so of a loan before it is opened, once it is, and by its stage. *)
StageInv(l) ==
  LET loan == loans[l] IN
  /\ loan.borrower = NoAddress =>
       /\ loan.state \in {"Funding", "Cancelled"}
       /\ loan.activationDeadline = 0
  /\ loan.borrower # NoAddress =>
       /\ loan.principal > 0 /\ loan.principal <= loan.repaymentAmount
       /\ loan.activationDeadline < loan.repaymentDeadline
  /\ loan.state \in {"Funding", "Funded", "Cancelled"} =>
       loan.creditedAmount = 0 /\ loan.repaymentSatisfiedAt = 0
  /\ loan.state \in {"Funded", "Active", "Repaid", "Defaulted"} =>
       loan.fundedAmount = loan.principal

DeadlineInv(l) ==
  LET loan == loans[l]
      satisfied == loan.repaymentSatisfiedAt # 0
  IN
  /\ satisfied => /\ loan.repaymentSatisfiedAt <= loan.repaymentDeadline
                  /\ loan.repaymentAmount <= loan.creditedAmount
  /\ loan.state = "Active" /\ loan.repaymentAmount <= loan.creditedAmount => satisfied
  /\ loan.state = "Repaid" => satisfied
  /\ loan.state = "Defaulted" => ~satisfied /\ now > loan.repaymentDeadline

AgreeInv(l) ==
  LET stage == <<markets[l].state, markets[l].winningOutcome>> IN
  /\ markets[l].borrower = loans[l].borrower
  /\ markets[l].borrowerCollateralAmount =
       BorrowerCollateralAmount(loans[l].principal, loans[l].collateralBps)
  /\ loans[l].state \in {"Funding", "Funded"} => stage = <<"Proto", "None">>
  /\ loans[l].state = "Active" => stage = <<"Active", "None">>
  /\ loans[l].state = "Cancelled" => stage = <<"Cancelled", "None">>
  /\ loans[l].state = "Repaid" => stage = <<"Resolved", "Yes">>
  /\ loans[l].state = "Defaulted" => stage = <<"Resolved", "No">>

LoanInv(l) == StageInv(l) /\ DeadlineInv(l) /\ AgreeInv(l)

ControlInv == Shape /\ \A l \in Loans : LoanInv(l)

-----------------------------------------------------------------------------
(* Arithmetic of the handlers. *)

LEMMA ProductInt ==
  ASSUME NEW a \in Int, NEW b \in Int
  PROVE  a * b \in Int
OBVIOUS

LEMMA FeeInt ==
  ASSUME Shape, NEW l \in Loans
  PROVE  TotalProtocolFee(l) \in Int
<1> DEFINE surplus == loans[l].creditedAmount - loans[l].fundedAmount
           bps == loans[l].feeBps
<1>1. surplus \in Int /\ bps \in Int
  <2>1. loans[l] \in LoanRecords
    BY DEF Shape, LoanShape
  <2>2. /\ loans[l].creditedAmount \in Nat /\ loans[l].fundedAmount \in Int
        /\ loans[l].feeBps \in 0 .. BasisPoints
    BY <2>1 DEF LoanRecords
  <2>3. surplus \in Int
    BY <2>2
  <2>4. \A x \in 0 .. BasisPoints : x \in Int
    OBVIOUS
  <2>5. QED
    BY <2>2, <2>3, <2>4
<1>2. surplus * bps \in Int
  <2> HIDE DEF surplus, bps
  <2>1. QED
    BY <1>1, ProductInt
<1>3. (surplus * bps) \div BasisPoints \in Int
  BY <1>2 DEF BasisPoints
<1>4. QED
  BY <1>3 DEF TotalProtocolFee

-----------------------------------------------------------------------------
(* Frames. *)

LEMMA SameLoan ==
  ASSUME Shape, Shape', NEW l \in Loans, LoanInv(l),
         loans'[l] = loans[l], markets'[l] = markets[l], now <= now'
  PROVE  LoanInv(l)'
<1>1. StageInv(l)'
  BY DEF LoanInv, StageInv
<1>2. DeadlineInv(l)'
  BY DEF Shape, LoanShape, LoanRecords, AdminShape, LoanInv, DeadlineInv
<1>3. AgreeInv(l)'
  BY DEF LoanInv, AgreeInv
<1>4. QED
  BY <1>1, <1>2, <1>3 DEF LoanInv

(* A step that concerns one loan and takes no time. *)
LEMMA OneLoanStep ==
  ASSUME ControlInv, Shape', NEW l \in Loans, now' = now,
         \A k \in Loans \ {l} : loans'[k] = loans[k] /\ markets'[k] = markets[k],
         LoanInv(l)'
  PROVE  ControlInv'
<1>1. now <= now'
  BY DEF ControlInv, Shape, AdminShape
<1>2. \A k \in Loans \ {l} : LoanInv(k)'
  BY <1>1, SameLoan DEF ControlInv
<1>3. QED
  BY <1>2 DEF ControlInv

(* A step that changes no loan and no market. *)
LEMMA NoLoanStep ==
  ASSUME ControlInv, Shape', loans' = loans, markets' = markets, now <= now'
  PROVE  ControlInv'
<1>1. \A k \in Loans : LoanInv(k)'
  BY SameLoan DEF ControlInv
<1>2. QED
  BY <1>1 DEF ControlInv

LEMMA LoanUpdate ==
  ASSUME LoanShape, NEW l \in Loans, NEW rec \in LoanRecords, loans' = [loans EXCEPT ![l] = rec]
  PROVE  /\ LoanShape' /\ loans'[l] = rec
         /\ \A k \in Loans \ {l} : loans'[k] = loans[k]
BY DEF LoanShape

LEMMA MarketUpdate ==
  ASSUME MarketShape, NEW l \in Loans, NEW rec \in MarketRecords,
         markets' = [markets EXCEPT ![l] = rec]
  PROVE  /\ MarketShape' /\ markets'[l] = rec
         /\ \A k \in Loans \ {l} : markets'[k] = markets[k]
BY DEF MarketShape

-----------------------------------------------------------------------------
(* The life of a loan. *)

LEMMA CreateLoanStep ==
  ASSUME ControlInv, NEW u \in Users, NEW r \in LoanRequests, CreateLoan(u, r)
  PROVE  ControlInv'
<1>1. PICK l \in Loans : l = nextLoanId
  BY DEF CreateLoan
<1> DEFINE c == BorrowerCollateralAmount(r.principal, r.collateralBps)
           interest == (r.principal * r.interestBps) \div BasisPoints
           rec == [loans[l] EXCEPT
                     !.borrower = u, !.principal = r.principal,
                     !.repaymentAmount = r.principal + interest,
                     !.loanWithdrawFreezeDeadline = r.loanWithdrawFreezeDeadline,
                     !.activationDeadline = r.activationDeadline,
                     !.repaymentDeadline = r.repaymentDeadline,
                     !.state = "Funding", !.feeBps = platformFeeBps,
                     !.feeRecipient = platformFeeRecipient, !.collateralBps = r.collateralBps]
           mrec == [borrower |-> u, borrowerCollateralAmount |-> c,
                    winningOutcome |-> "None", state |-> "Proto"]
<1>2. r \in [principal : Nat, interestBps : Nat, collateralBps : Nat,
             loanWithdrawFreezeDeadline : Nat, activationDeadline : Nat,
             repaymentDeadline : Nat]
  BY InputsAssumption
<1>3. c \in Nat /\ interest \in Nat
  <2>1. c \in Nat
    BY <1>2, CollateralNat
  <2>2. r.principal * r.interestBps \in Nat
    BY <1>2, ProductNat
  <2>3. QED
    BY <2>1, <2>2 DEF BasisPoints
<1>4. Shape /\ LoanInv(l) /\ loans[l] \in LoanRecords
  BY DEF ControlInv, Shape, LoanShape
<1>5. loans' = [loans EXCEPT ![l] = rec]
  <2> HIDE DEF interest
  <2>1. loans' = [loans EXCEPT
          ![l].borrower = u, ![l].principal = r.principal,
          ![l].repaymentAmount = r.principal + interest,
          ![l].loanWithdrawFreezeDeadline = r.loanWithdrawFreezeDeadline,
          ![l].activationDeadline = r.activationDeadline,
          ![l].repaymentDeadline = r.repaymentDeadline,
          ![l].state = "Funding", ![l].feeBps = platformFeeBps,
          ![l].feeRecipient = platformFeeRecipient, ![l].collateralBps = r.collateralBps]
    BY <1>1 DEF CreateLoan, interest
  <2>2. QED
    BY <1>4, <2>1, ZenonT(40) DEF Shape, LoanShape
<1>6. markets[l].borrower = NoAddress /\ markets' = [markets EXCEPT ![l] = mrec]
  BY <1>1 DEF CreateLoan, Market!CreateProtoMarket
<1>7. /\ r.principal > 0 /\ nextLoanId' = nextLoanId + 1
      /\ r.activationDeadline < r.repaymentDeadline
      /\ UNCHANGED <<adminVars, positionVars, now>>
  BY DEF CreateLoan
<1> HIDE DEF c, interest
<1>8. rec \in LoanRecords /\ mrec \in MarketRecords
  <2>1. platformFeeBps \in 0 .. BasisPoints /\ platformFeeRecipient \in FeeRecipients
    BY <1>4 DEF Shape, AdminShape
  <2>2. r.principal + interest \in Nat
    BY <1>2, <1>3
  <2>3. rec \in LoanRecords
    BY <1>2, <1>4, <2>1, <2>2 DEF LoanRecords, LoanState
  <2>4. QED
    BY <1>3, <2>3 DEF MarketRecords
<1>9. /\ rec.borrower = u /\ rec.principal = r.principal
      /\ rec.repaymentAmount = r.principal + interest
      /\ rec.activationDeadline = r.activationDeadline
      /\ rec.repaymentDeadline = r.repaymentDeadline
      /\ rec.state = "Funding" /\ rec.collateralBps = r.collateralBps
      /\ rec.creditedAmount = loans[l].creditedAmount
      /\ rec.repaymentSatisfiedAt = loans[l].repaymentSatisfiedAt
  BY <1>4 DEF LoanRecords
<1> HIDE DEF rec
<1>10. /\ LoanShape' /\ loans'[l] = rec /\ MarketShape' /\ markets'[l] = mrec
       /\ \A k \in Loans \ {l} : loans'[k] = loans[k] /\ markets'[k] = markets[k]
  <2> HIDE DEF mrec
  <2>1. QED
    BY <1>4, <1>5, <1>6, <1>8, LoanUpdate, MarketUpdate DEF Shape
<1>11. Shape'
  BY <1>4, <1>7, <1>10 DEF Shape, PositionShape, AdminShape, adminVars, positionVars
<1>12. loans[l].creditedAmount = 0 /\ loans[l].repaymentSatisfiedAt = 0 /\ u # NoAddress
  BY <1>4, <1>6, AccountsAssumption DEF LoanInv, AgreeInv, StageInv, Holders
<1>13. StageInv(l)'
  BY <1>2, <1>3, <1>7, <1>9, <1>10, <1>12 DEF StageInv
<1>14. DeadlineInv(l)'
  BY <1>9, <1>10, <1>12 DEF DeadlineInv
<1>15. AgreeInv(l)'
  BY <1>9, <1>10 DEF AgreeInv, c
<1>16. QED
  BY <1>7, <1>10, <1>11, <1>13, <1>14, <1>15, OneLoanStep DEF LoanInv

LEMMA FundStep ==
  ASSUME ControlInv, NEW l \in Loans, NEW u \in Users, NEW a \in FundAmounts, Fund(l, u, a)
  PROVE  ControlInv'
<1> DEFINE remaining == loans[l].principal - loans[l].fundedAmount
           accepted == IF a > remaining THEN remaining ELSE a
           p == nextPositionId
           filled == loans[l].fundedAmount + accepted = loans[l].principal
           stage == IF filled THEN "Funded" ELSE loans[l].state
           rec == [loans[l] EXCEPT
                     !.fundedAmount = @ + accepted, !.state = stage]
<1>1. Shape /\ LoanInv(l) /\ loans[l] \in LoanRecords /\ a \in Nat /\ p \in PositionIds
  BY InputsAssumption DEF ControlInv, Fund, Shape, LoanShape
<1>2. loans' = [loans EXCEPT ![l] = rec]
  <2> HIDE DEF accepted
  <2>1. loans' = [loans EXCEPT
          ![l].fundedAmount = @ + accepted, ![l].state = IF filled THEN "Funded" ELSE @]
    BY DEF Fund, accepted
  <2>2. QED
    BY <1>1, <2>1 DEF Shape, LoanShape
<1>3. /\ positions' = [positions EXCEPT ![p] =
            [loanId |-> l, principalAmount |-> accepted, claimedAmount |-> 0, split |-> FALSE,
             splitAfterClaim |-> FALSE]]
      /\ positionOwner' = [positionOwner EXCEPT ![p] = u]
      /\ UNCHANGED <<adminVars, nextLoanId, now, markets>>
      /\ loans[l].state = "Funding" /\ now < loans[l].activationDeadline
  BY DEF Fund, marketVars
<1>4. accepted \in Int /\ loans[l].fundedAmount + accepted \in Int
  BY <1>1 DEF LoanRecords
<1> HIDE DEF accepted, p
<1>5. stage \in {"Funding", "Funded"} /\ (stage = "Funded" => filled)
  BY <1>3
<1> HIDE DEF stage
<1>6. rec \in LoanRecords
  BY <1>1, <1>4, <1>5 DEF LoanRecords, LoanState
<1>7. /\ rec.fundedAmount = loans[l].fundedAmount + accepted
      /\ rec.state \in {"Funding", "Funded"}
      /\ rec.state = "Funded" => filled
      /\ rec.activationDeadline = loans[l].activationDeadline
      /\ rec.repaymentDeadline = loans[l].repaymentDeadline
      /\ rec.borrower = loans[l].borrower /\ rec.principal = loans[l].principal
      /\ rec.repaymentAmount = loans[l].repaymentAmount
      /\ rec.creditedAmount = loans[l].creditedAmount
      /\ rec.repaymentSatisfiedAt = loans[l].repaymentSatisfiedAt
      /\ rec.collateralBps = loans[l].collateralBps
  BY <1>1, <1>5 DEF LoanRecords
<1> HIDE DEF rec
<1>8. /\ LoanShape' /\ loans'[l] = rec /\ \A k \in Loans \ {l} : loans'[k] = loans[k]
  BY <1>1, <1>2, <1>6, LoanUpdate DEF Shape
<1>9. PositionShape'
  BY <1>1, <1>3, <1>4 DEF Shape, PositionShape, PositionRecords, Holders
<1>10. Shape'
  BY <1>1, <1>3, <1>8, <1>9 DEF Shape, MarketShape, AdminShape, adminVars
<1>11. loans[l].borrower # NoAddress
  <2>1. loans[l].activationDeadline # 0
    BY <1>1, <1>3 DEF Shape, LoanRecords, AdminShape
  <2>2. QED
    BY <1>1, <2>1 DEF LoanInv, StageInv
<1>12. StageInv(l)'
  BY <1>1, <1>3, <1>7, <1>8, <1>11 DEF LoanInv, StageInv
<1>13. DeadlineInv(l)'
  BY <1>1, <1>3, <1>7, <1>8 DEF LoanInv, StageInv, DeadlineInv
<1>14. AgreeInv(l)'
  BY <1>1, <1>3, <1>7, <1>8 DEF LoanInv, AgreeInv
<1>15. QED
  BY <1>3, <1>8, <1>10, <1>12, <1>13, <1>14, OneLoanStep DEF LoanInv

LEMMA ActivateStep ==
  ASSUME ControlInv, NEW l \in Loans, Activate(l)
  PROVE  ControlInv'
<1> DEFINE rec == [loans[l] EXCEPT !.state = "Active"]
           mrec == [markets[l] EXCEPT !.state = "Active"]
<1>1. /\ Shape /\ LoanInv(l) /\ loans[l] \in LoanRecords /\ markets[l] \in MarketRecords
  BY DEF ControlInv, Shape, LoanShape, MarketShape
<1>2. loans' = [loans EXCEPT ![l] = rec]
  <2>1. loans' = [loans EXCEPT ![l].state = "Active"]
    BY DEF Activate
  <2>2. QED
    BY <1>1, <2>1 DEF Shape, LoanShape
<1>3. markets' = [markets EXCEPT ![l] = mrec]
  <2>1. markets' = [markets EXCEPT ![l].state = "Active"]
    BY DEF Activate, Market!ActivateMarket
  <2>2. QED
    BY <1>1, <2>1 DEF Shape, MarketShape
<1>4. UNCHANGED <<adminVars, nextLoanId, positionVars, now>>
  BY DEF Activate
<1>5. loans[l].state = "Funded"
  BY DEF Activate
<1>6. rec \in LoanRecords /\ mrec \in MarketRecords
  BY <1>1 DEF LoanRecords, LoanState, MarketRecords
<1>7. /\ rec.state = "Active"
      /\ rec.borrower = loans[l].borrower /\ rec.principal = loans[l].principal
      /\ rec.fundedAmount = loans[l].fundedAmount
      /\ rec.activationDeadline = loans[l].activationDeadline
      /\ rec.repaymentDeadline = loans[l].repaymentDeadline
      /\ rec.repaymentAmount = loans[l].repaymentAmount
      /\ rec.creditedAmount = loans[l].creditedAmount
      /\ rec.repaymentSatisfiedAt = loans[l].repaymentSatisfiedAt
      /\ rec.collateralBps = loans[l].collateralBps
  BY <1>1 DEF LoanRecords
<1>8. /\ mrec.borrower = markets[l].borrower
      /\ mrec.borrowerCollateralAmount = markets[l].borrowerCollateralAmount
      /\ <<mrec.state, mrec.winningOutcome>> = <<"Active", "None">>
  BY <1>1, <1>5 DEF MarketRecords, LoanInv, AgreeInv
<1> HIDE DEF rec, mrec
<1>9. /\ LoanShape' /\ loans'[l] = rec /\ MarketShape' /\ markets'[l] = mrec
      /\ \A k \in Loans \ {l} : loans'[k] = loans[k] /\ markets'[k] = markets[k]
  BY <1>1, <1>2, <1>3, <1>6, LoanUpdate, MarketUpdate DEF Shape
<1>10. Shape'
  BY <1>1, <1>4, <1>9 DEF Shape, PositionShape, AdminShape, adminVars, positionVars
<1>11. StageInv(l)'
  BY <1>1, <1>5, <1>7, <1>9 DEF LoanInv, StageInv
<1>12. DeadlineInv(l)'
  <2>1. loans[l].borrower # NoAddress
    BY <1>1, <1>5 DEF LoanInv, StageInv
  <2>2. /\ loans[l].principal > 0 /\ loans[l].principal <= loans[l].repaymentAmount
        /\ loans[l].creditedAmount = 0 /\ loans[l].repaymentSatisfiedAt = 0
    BY <1>1, <1>5, <2>1 DEF LoanInv, StageInv
  <2>3. loans[l].principal \in Nat /\ loans[l].repaymentAmount \in Nat
    BY <1>1 DEF LoanRecords
  <2>4. QED
    BY <1>7, <1>9, <2>2, <2>3 DEF DeadlineInv
<1>13. AgreeInv(l)'
  BY <1>1, <1>7, <1>8, <1>9 DEF LoanInv, AgreeInv
<1>14. QED
  BY <1>4, <1>9, <1>10, <1>11, <1>12, <1>13, OneLoanStep DEF LoanInv

LEMMA SettleRepaidStep ==
  ASSUME ControlInv, NEW l \in Loans, SettleRepaid(l)
  PROVE  ControlInv'
<1> DEFINE rec == [loans[l] EXCEPT !.state = "Repaid"]
           mrec == [markets[l] EXCEPT !.winningOutcome = "Yes", !.state = "Resolved"]
<1>1. /\ Shape /\ LoanInv(l) /\ loans[l] \in LoanRecords /\ markets[l] \in MarketRecords
  BY DEF ControlInv, Shape, LoanShape, MarketShape
<1>2. loans' = [loans EXCEPT ![l] = rec]
  <2>1. loans' = [loans EXCEPT ![l].state = "Repaid"]
    BY DEF SettleRepaid
  <2>2. QED
    BY <1>1, <2>1 DEF Shape, LoanShape
<1>3. markets' = [markets EXCEPT ![l] = mrec]
  <2>1. markets' = [markets EXCEPT ![l].winningOutcome = "Yes", ![l].state = "Resolved"]
    BY DEF SettleRepaid, Market!ResolveMarket
  <2>2. QED
    BY <1>1, <2>1 DEF Shape, MarketShape
<1>4. UNCHANGED <<adminVars, nextLoanId, positionVars, now>>
  BY DEF SettleRepaid
<1>5. loans[l].state = "Active" /\ loans[l].repaymentSatisfiedAt # 0
  BY DEF SettleRepaid
<1>6. rec \in LoanRecords /\ mrec \in MarketRecords
  BY <1>1 DEF LoanRecords, LoanState, MarketRecords
<1>7. /\ rec.state = "Repaid"
      /\ rec.borrower = loans[l].borrower /\ rec.principal = loans[l].principal
      /\ rec.fundedAmount = loans[l].fundedAmount
      /\ rec.activationDeadline = loans[l].activationDeadline
      /\ rec.repaymentDeadline = loans[l].repaymentDeadline
      /\ rec.repaymentAmount = loans[l].repaymentAmount
      /\ rec.creditedAmount = loans[l].creditedAmount
      /\ rec.repaymentSatisfiedAt = loans[l].repaymentSatisfiedAt
      /\ rec.collateralBps = loans[l].collateralBps
  BY <1>1 DEF LoanRecords
<1>8. /\ mrec.borrower = markets[l].borrower
      /\ mrec.borrowerCollateralAmount = markets[l].borrowerCollateralAmount
      /\ <<mrec.state, mrec.winningOutcome>> = <<"Resolved", "Yes">>
  BY <1>1, <1>5 DEF MarketRecords, LoanInv, AgreeInv
<1> HIDE DEF rec, mrec
<1>9. /\ LoanShape' /\ loans'[l] = rec /\ MarketShape' /\ markets'[l] = mrec
      /\ \A k \in Loans \ {l} : loans'[k] = loans[k] /\ markets'[k] = markets[k]
  BY <1>1, <1>2, <1>3, <1>6, LoanUpdate, MarketUpdate DEF Shape
<1>10. Shape'
  BY <1>1, <1>4, <1>9 DEF Shape, PositionShape, AdminShape, adminVars, positionVars
<1>11. StageInv(l)'
  BY <1>1, <1>5, <1>7, <1>9 DEF LoanInv, StageInv
<1>12. DeadlineInv(l)'
  BY <1>1, <1>4, <1>5, <1>7, <1>9 DEF LoanInv, DeadlineInv
<1>13. AgreeInv(l)'
  BY <1>1, <1>7, <1>8, <1>9 DEF LoanInv, AgreeInv
<1>14. QED
  BY <1>4, <1>9, <1>10, <1>11, <1>12, <1>13, OneLoanStep DEF LoanInv

LEMMA CancelExpiredLoanStep ==
  ASSUME ControlInv, NEW l \in Loans, CancelExpiredLoan(l)
  PROVE  ControlInv'
<1> DEFINE rec == [loans[l] EXCEPT !.state = "Cancelled"]
           mrec == [markets[l] EXCEPT !.state = "Cancelled"]
<1>1. /\ Shape /\ LoanInv(l) /\ loans[l] \in LoanRecords /\ markets[l] \in MarketRecords
  BY DEF ControlInv, Shape, LoanShape, MarketShape
<1>2. loans' = [loans EXCEPT ![l] = rec]
  <2>1. loans' = [loans EXCEPT ![l].state = "Cancelled"]
    BY DEF CancelExpiredLoan
  <2>2. QED
    BY <1>1, <2>1 DEF Shape, LoanShape
<1>3. markets' = [markets EXCEPT ![l] = mrec]
  <2>1. markets' = [markets EXCEPT ![l].state = "Cancelled"]
    BY DEF CancelExpiredLoan, Market!CancelMarket
  <2>2. QED
    BY <1>1, <2>1 DEF Shape, MarketShape
<1>4. UNCHANGED <<adminVars, nextLoanId, positionVars, now>>
  BY DEF CancelExpiredLoan
<1>5. loans[l].state \in {"Funding", "Funded"}
  BY DEF CancelExpiredLoan
<1>6. rec \in LoanRecords /\ mrec \in MarketRecords
  BY <1>1 DEF LoanRecords, LoanState, MarketRecords
<1>7. /\ rec.state = "Cancelled"
      /\ rec.borrower = loans[l].borrower /\ rec.principal = loans[l].principal
      /\ rec.fundedAmount = loans[l].fundedAmount
      /\ rec.activationDeadline = loans[l].activationDeadline
      /\ rec.repaymentDeadline = loans[l].repaymentDeadline
      /\ rec.repaymentAmount = loans[l].repaymentAmount
      /\ rec.creditedAmount = loans[l].creditedAmount
      /\ rec.repaymentSatisfiedAt = loans[l].repaymentSatisfiedAt
      /\ rec.collateralBps = loans[l].collateralBps
  BY <1>1 DEF LoanRecords
<1>8. /\ mrec.borrower = markets[l].borrower
      /\ mrec.borrowerCollateralAmount = markets[l].borrowerCollateralAmount
      /\ <<mrec.state, mrec.winningOutcome>> = <<"Cancelled", "None">>
  BY <1>1, <1>5 DEF MarketRecords, LoanInv, AgreeInv
<1> HIDE DEF rec, mrec
<1>9. /\ LoanShape' /\ loans'[l] = rec /\ MarketShape' /\ markets'[l] = mrec
      /\ \A k \in Loans \ {l} : loans'[k] = loans[k] /\ markets'[k] = markets[k]
  BY <1>1, <1>2, <1>3, <1>6, LoanUpdate, MarketUpdate DEF Shape
<1>10. Shape'
  BY <1>1, <1>4, <1>9 DEF Shape, PositionShape, AdminShape, adminVars, positionVars
<1>11. StageInv(l)'
  BY <1>1, <1>5, <1>7, <1>9 DEF LoanInv, StageInv
<1>12. DeadlineInv(l)'
  BY <1>1, <1>5, <1>7, <1>9 DEF LoanInv, StageInv, DeadlineInv
<1>13. AgreeInv(l)'
  BY <1>1, <1>7, <1>8, <1>9 DEF LoanInv, AgreeInv
<1>14. QED
  BY <1>4, <1>9, <1>10, <1>11, <1>12, <1>13, OneLoanStep DEF LoanInv

LEMMA MarkDefaultedStep ==
  ASSUME ControlInv, NEW l \in Loans, MarkDefaulted(l)
  PROVE  ControlInv'
<1> DEFINE rec == [loans[l] EXCEPT !.state = "Defaulted"]
           mrec == [markets[l] EXCEPT !.winningOutcome = "No", !.state = "Resolved"]
<1>1. /\ Shape /\ LoanInv(l) /\ loans[l] \in LoanRecords /\ markets[l] \in MarketRecords
  BY DEF ControlInv, Shape, LoanShape, MarketShape
<1>2. loans' = [loans EXCEPT ![l] = rec]
  <2>1. loans' = [loans EXCEPT ![l].state = "Defaulted"]
    BY DEF MarkDefaulted
  <2>2. QED
    BY <1>1, <2>1 DEF Shape, LoanShape
<1>3. markets' = [markets EXCEPT ![l] = mrec]
  <2>1. markets' = [markets EXCEPT ![l].winningOutcome = "No", ![l].state = "Resolved"]
    BY DEF MarkDefaulted, Market!ResolveMarket
  <2>2. QED
    BY <1>1, <2>1 DEF Shape, MarketShape
<1>4. UNCHANGED <<adminVars, nextLoanId, positionVars, now>>
  BY DEF MarkDefaulted
<1>5. /\ loans[l].state = "Active" /\ now > loans[l].repaymentDeadline
      /\ loans[l].repaymentSatisfiedAt = 0
  BY <1>1 DEF MarkDefaulted, LoanInv, DeadlineInv
<1>6. rec \in LoanRecords /\ mrec \in MarketRecords
  BY <1>1 DEF LoanRecords, LoanState, MarketRecords
<1>7. /\ rec.state = "Defaulted"
      /\ rec.borrower = loans[l].borrower /\ rec.principal = loans[l].principal
      /\ rec.fundedAmount = loans[l].fundedAmount
      /\ rec.activationDeadline = loans[l].activationDeadline
      /\ rec.repaymentDeadline = loans[l].repaymentDeadline
      /\ rec.repaymentAmount = loans[l].repaymentAmount
      /\ rec.creditedAmount = loans[l].creditedAmount
      /\ rec.repaymentSatisfiedAt = loans[l].repaymentSatisfiedAt
      /\ rec.collateralBps = loans[l].collateralBps
  BY <1>1 DEF LoanRecords
<1>8. /\ mrec.borrower = markets[l].borrower
      /\ mrec.borrowerCollateralAmount = markets[l].borrowerCollateralAmount
      /\ <<mrec.state, mrec.winningOutcome>> = <<"Resolved", "No">>
  BY <1>1, <1>5 DEF MarketRecords, LoanInv, AgreeInv
<1> HIDE DEF rec, mrec
<1>9. /\ LoanShape' /\ loans'[l] = rec /\ MarketShape' /\ markets'[l] = mrec
      /\ \A k \in Loans \ {l} : loans'[k] = loans[k] /\ markets'[k] = markets[k]
  BY <1>1, <1>2, <1>3, <1>6, LoanUpdate, MarketUpdate DEF Shape
<1>10. Shape'
  BY <1>1, <1>4, <1>9 DEF Shape, PositionShape, AdminShape, adminVars, positionVars
<1>11. StageInv(l)'
  BY <1>1, <1>5, <1>7, <1>9 DEF LoanInv, StageInv
<1>12. DeadlineInv(l)'
  BY <1>1, <1>4, <1>5, <1>7, <1>9 DEF LoanInv, DeadlineInv
<1>13. AgreeInv(l)'
  BY <1>1, <1>7, <1>8, <1>9 DEF LoanInv, AgreeInv
<1>14. QED
  BY <1>4, <1>9, <1>10, <1>11, <1>12, <1>13, OneLoanStep DEF LoanInv

LEMMA DepositToLoanStep ==
  ASSUME ControlInv, NEW l \in Loans, NEW a \in PayAmounts, DepositToLoan(l, a)
  PROVE  ControlInv'
<1> DEFINE credited == loans[l].creditedAmount + a
           satisfies == /\ loans[l].state = "Active"
                        /\ loans[l].repaymentSatisfiedAt = 0
                        /\ credited >= loans[l].repaymentAmount
           at == IF satisfies THEN now ELSE loans[l].repaymentSatisfiedAt
           rec == [loans[l] EXCEPT !.creditedAmount = credited, !.repaymentSatisfiedAt = at]
<1>1. Shape /\ LoanInv(l) /\ loans[l] \in LoanRecords /\ a \in Nat
  BY InputsAssumption DEF ControlInv, Shape, LoanShape
<1>2. loans' = [loans EXCEPT ![l] = rec]
  <2>1. loans' = [loans EXCEPT ![l].creditedAmount = credited, ![l].repaymentSatisfiedAt = at]
    BY DEF DepositToLoan
  <2> HIDE DEF at, credited
  <2>2. QED
    BY <1>1, <2>1 DEF Shape, LoanShape
<1>3. /\ UNCHANGED <<adminVars, nextLoanId, positionVars, now, markets>>
      /\ loans[l].state \in {"Active", "Repaid", "Defaulted"}
      /\ loans[l].state = "Active" => now <= loans[l].repaymentDeadline
  BY DEF DepositToLoan, marketVars
<1>4. /\ credited \in Nat /\ at \in Nat /\ loans[l].creditedAmount <= credited
      /\ now \in Nat /\ now # 0 /\ loans[l].repaymentAmount \in Nat
      /\ loans[l].creditedAmount \in Nat /\ loans[l].repaymentSatisfiedAt \in Nat
  <2>1. /\ loans[l].repaymentAmount \in Nat
        /\ loans[l].creditedAmount \in Nat /\ loans[l].repaymentSatisfiedAt \in Nat
    BY <1>1 DEF LoanRecords
  <2>2. now \in Nat /\ now # 0
    BY <1>1 DEF Shape, AdminShape
  <2>3. QED
    BY <1>1, <2>1, <2>2
<1>5. \/ /\ at # 0 /\ loans[l].repaymentSatisfiedAt = 0 /\ loans[l].state = "Active"
         /\ at <= loans[l].repaymentDeadline /\ loans[l].repaymentAmount <= credited
      \/ /\ at = loans[l].repaymentSatisfiedAt
         /\ loans[l].state = "Active" /\ loans[l].repaymentAmount <= credited => at # 0
  BY <1>3, <1>4
<1> HIDE DEF credited, at
<1>6. rec \in LoanRecords
  BY <1>1, <1>4 DEF LoanRecords
<1>7. /\ rec.state = loans[l].state
      /\ rec.borrower = loans[l].borrower /\ rec.principal = loans[l].principal
      /\ rec.fundedAmount = loans[l].fundedAmount
      /\ rec.activationDeadline = loans[l].activationDeadline
      /\ rec.repaymentDeadline = loans[l].repaymentDeadline
      /\ rec.repaymentAmount = loans[l].repaymentAmount
      /\ rec.creditedAmount = credited
      /\ rec.repaymentSatisfiedAt = at
      /\ rec.collateralBps = loans[l].collateralBps
  BY <1>1 DEF LoanRecords
<1> HIDE DEF rec
<1>8. /\ LoanShape' /\ loans'[l] = rec /\ \A k \in Loans \ {l} : loans'[k] = loans[k]
  BY <1>1, <1>2, <1>6, LoanUpdate DEF Shape
<1>9. Shape'
  BY <1>1, <1>3, <1>8 DEF Shape, PositionShape, MarketShape, AdminShape, adminVars, positionVars
<1>10. StageInv(l)'
  BY <1>1, <1>3, <1>7, <1>8 DEF LoanInv, StageInv
<1>11. DeadlineInv(l)'
  <2>1. /\ at # 0 => at <= loans[l].repaymentDeadline /\ loans[l].repaymentAmount <= credited
        /\ loans[l].state = "Active" /\ loans[l].repaymentAmount <= credited => at # 0
        /\ loans[l].state = "Repaid" => at # 0
        /\ loans[l].state = "Defaulted" => at = 0 /\ now > loans[l].repaymentDeadline
    BY <1>1, <1>4, <1>5 DEF LoanInv, DeadlineInv
  <2>2. QED
    BY <1>3, <1>7, <1>8, <2>1 DEF DeadlineInv
<1>12. AgreeInv(l)'
  BY <1>1, <1>3, <1>7, <1>8 DEF LoanInv, AgreeInv
<1>13. QED
  BY <1>3, <1>8, <1>9, <1>10, <1>11, <1>12, OneLoanStep DEF LoanInv

LEMMA RedeemDefaultCollateralStep ==
  ASSUME ControlInv, MarketProofs!TypeOK, NEW l \in Loans, RedeemDefaultCollateral(l)
  PROVE  ControlInv'
<1> DEFINE amount == balanceOf[Market!NoTokenId(l)][LoanContract]
           rec == [loans[l] EXCEPT !.creditedAmount = @ + amount]
<1>1. Shape /\ LoanInv(l) /\ loans[l] \in LoanRecords
  BY DEF ControlInv, Shape, LoanShape
<1>2. amount \in Nat
  BY DEF MarketProofs!TypeOK, MarketProofs!TokenIds, MarketProofs!Outcome,
         MarketProofs!Holders, Market!NoTokenId
<1>3. /\ UNCHANGED <<adminVars, nextLoanId, positionVars, now, markets>>
      /\ loans[l].state = "Defaulted"
  BY DEF RedeemDefaultCollateral, Market!Redeem
<1>4. loans' = [loans EXCEPT ![l] = rec]
  <2>1. loans' = [loans EXCEPT ![l].creditedAmount = @ + amount]
    BY DEF RedeemDefaultCollateral
  <2> HIDE DEF amount
  <2>2. QED
    BY <1>1, <2>1 DEF Shape, LoanShape
<1> HIDE DEF amount
<1>5. rec \in LoanRecords
  BY <1>1, <1>2 DEF LoanRecords
<1>6. /\ rec.state = "Defaulted"
      /\ rec.borrower = loans[l].borrower /\ rec.principal = loans[l].principal
      /\ rec.fundedAmount = loans[l].fundedAmount
      /\ rec.activationDeadline = loans[l].activationDeadline
      /\ rec.repaymentDeadline = loans[l].repaymentDeadline
      /\ rec.repaymentAmount = loans[l].repaymentAmount
      /\ rec.repaymentSatisfiedAt = loans[l].repaymentSatisfiedAt
      /\ rec.collateralBps = loans[l].collateralBps
  BY <1>1, <1>3 DEF LoanRecords
<1> HIDE DEF rec
<1>7. /\ LoanShape' /\ loans'[l] = rec /\ \A k \in Loans \ {l} : loans'[k] = loans[k]
  BY <1>1, <1>4, <1>5, LoanUpdate DEF Shape
<1>8. Shape'
  BY <1>1, <1>3, <1>7 DEF Shape, PositionShape, MarketShape, AdminShape, adminVars, positionVars
<1>9. StageInv(l)'
  BY <1>1, <1>3, <1>6, <1>7 DEF LoanInv, StageInv
<1>10. DeadlineInv(l)'
  BY <1>1, <1>3, <1>6, <1>7 DEF LoanInv, DeadlineInv
<1>11. AgreeInv(l)'
  BY <1>1, <1>3, <1>6, <1>7 DEF LoanInv, AgreeInv
<1>12. QED
  BY <1>3, <1>7, <1>8, <1>9, <1>10, <1>11, OneLoanStep DEF LoanInv

-----------------------------------------------------------------------------
(* Positions and fees. *)

LEMMA PositionUpdate ==
  ASSUME PositionShape, NEW p \in PositionIds, NEW claimed \in Int,
         positions' = [positions EXCEPT ![p].claimedAmount = claimed],
         \A q \in PositionIds \ {p} : positionOwner'[q] = positionOwner[q],
         positionOwner' \in [PositionIds -> Holders \cup {NoAddress}],
         positionOwner[p] # NoAddress
  PROVE  PositionShape'
<1>1. positions' \in [PositionIds -> PositionRecords]
  BY DEF PositionShape, PositionRecords
<1>2. \A q \in PositionIds : positions'[q].loanId = positions[q].loanId
  BY DEF PositionShape, PositionRecords
<1>3. QED
  BY <1>1, <1>2 DEF PositionShape

LEMMA ClaimFundingPrincipalStep ==
  ASSUME ControlInv, NEW p \in PositionIds, NEW u \in Users, ClaimFundingPrincipal(p, u)
  PROVE  ControlInv'
<1>1. PICK l \in Loans : l = positions[p].loanId
  BY AccountsAssumption
  DEF ControlInv, Shape, PositionShape, ClaimFundingPrincipal, Holders
<1> DEFINE amount == positions[p].principalAmount - positions[p].claimedAmount
           rec == [loans[l] EXCEPT !.fundedAmount = @ - amount, !.state = "Funding"]
<1>2. Shape /\ LoanInv(l) /\ loans[l] \in LoanRecords
  BY DEF ControlInv, Shape, LoanShape
<1>3. /\ UNCHANGED <<adminVars, nextLoanId, now, markets>>
      /\ loans[l].state \in {"Funding", "Funded"}
      /\ positions' = [positions EXCEPT ![p].claimedAmount = @ + amount]
      /\ positionOwner' = [positionOwner EXCEPT ![p] = NoAddress]
      /\ positionOwner[p] = u
      /\ amount > 0
  BY <1>1 DEF ClaimFundingPrincipal, marketVars
<1>4. loans' = [loans EXCEPT ![l] = rec]
  <2>1. loans' = [loans EXCEPT ![l].fundedAmount = @ - amount, ![l].state = "Funding"]
    BY <1>1 DEF ClaimFundingPrincipal
  <2> HIDE DEF amount
  <2>2. QED
    BY <1>2, <2>1 DEF Shape, LoanShape
<1>5. amount \in Int /\ positions[p].claimedAmount + amount \in Int
      /\ loans[l].fundedAmount - amount \in Int
  BY <1>2 DEF Shape, PositionShape, PositionRecords, LoanRecords
<1> HIDE DEF amount
<1>6. rec \in LoanRecords
  BY <1>2, <1>5 DEF LoanRecords, LoanState
<1>7. /\ rec.state = "Funding"
      /\ rec.borrower = loans[l].borrower /\ rec.principal = loans[l].principal
      /\ rec.activationDeadline = loans[l].activationDeadline
      /\ rec.repaymentDeadline = loans[l].repaymentDeadline
      /\ rec.fundedAmount = loans[l].fundedAmount - amount
      /\ rec.repaymentAmount = loans[l].repaymentAmount
      /\ rec.creditedAmount = loans[l].creditedAmount
      /\ rec.repaymentSatisfiedAt = loans[l].repaymentSatisfiedAt
      /\ rec.collateralBps = loans[l].collateralBps
  BY <1>2 DEF LoanRecords
<1> HIDE DEF rec
<1>8. /\ LoanShape' /\ loans'[l] = rec /\ \A k \in Loans \ {l} : loans'[k] = loans[k]
  BY <1>2, <1>4, <1>6, LoanUpdate DEF Shape
<1>9. PositionShape'
  <2>1. /\ positionOwner' \in [PositionIds -> Holders \cup {NoAddress}]
        /\ \A q \in PositionIds \ {p} : positionOwner'[q] = positionOwner[q]
    BY <1>2, <1>3 DEF Shape, PositionShape
  <2>2. positionOwner[p] # NoAddress
    BY <1>3, AccountsAssumption DEF Holders
  <2>3. QED
    BY <1>2, <1>3, <1>5, <2>1, <2>2, PositionUpdate DEF Shape
<1>10. Shape'
  BY <1>2, <1>3, <1>8, <1>9 DEF Shape, MarketShape, AdminShape, adminVars
<1>11. StageInv(l)'
  BY <1>2, <1>3, <1>7, <1>8 DEF LoanInv, StageInv
<1>12. DeadlineInv(l)'
  BY <1>2, <1>3, <1>7, <1>8 DEF LoanInv, StageInv, DeadlineInv
<1>13. AgreeInv(l)'
  BY <1>2, <1>3, <1>7, <1>8 DEF LoanInv, AgreeInv
<1>14. QED
  BY <1>3, <1>8, <1>10, <1>11, <1>12, <1>13, OneLoanStep DEF LoanInv

LEMMA ClaimSettledStep ==
  ASSUME ControlInv, NEW p \in PositionIds, NEW u \in Users, ClaimSettled(p, u)
  PROVE  ControlInv'
<1>1. PICK l \in Loans : l = positions[p].loanId
  BY AccountsAssumption DEF ControlInv, Shape, PositionShape, ClaimSettled, Holders
<1> DEFINE pr == positions[p].principalAmount
           pool == LenderPayoutPool(l)
           amount == TotalEntitlement(p) - positions[p].claimedAmount
<1>2. Shape /\ LoanInv(l) /\ loans[l] \in LoanRecords
  BY DEF ControlInv, Shape, LoanShape
<1>3. /\ UNCHANGED <<adminVars, nextLoanId, loans, now, markets>>
      /\ loans[l].state \in {"Cancelled", "Repaid", "Defaulted"}
      /\ positions' = [positions EXCEPT ![p].claimedAmount = @ + amount]
      /\ positionOwner' = [positionOwner EXCEPT
            ![p] = IF loans[l].state = "Cancelled" THEN NoAddress ELSE @]
      /\ positionOwner[p] = u
  BY <1>1 DEF ClaimSettled, marketVars
<1>4. pr \in Int /\ positions[p].claimedAmount \in Int
  BY <1>2 DEF Shape, PositionShape, PositionRecords
<1>5. pool * pr \in Int
  <2>1. pool \in Int
    BY <1>2, FeeInt DEF LenderPayoutPool, LoanRecords
  <2> HIDE DEF pool, pr
  <2>2. QED
    BY <1>4, <2>1, ProductInt
<1>6. TotalEntitlement(p) \in Int
  <2>1. CASE loans[l].state = "Cancelled"
    BY <1>1, <1>4, <2>1 DEF TotalEntitlement
  <2>2. CASE loans[l].state \in {"Repaid", "Defaulted"}
    <3>1. loans[l].fundedAmount \in Int /\ loans[l].fundedAmount > 0
      BY <1>2, <2>2 DEF LoanInv, StageInv, LoanRecords
    <3>2. TotalEntitlement(p) = (pool * pr) \div loans[l].fundedAmount
      BY <1>1, <2>2 DEF TotalEntitlement
    <3> HIDE DEF pool, pr
    <3>3. QED
      BY <1>5, <3>1, <3>2
  <2>3. QED
    BY <1>3, <2>1, <2>2
<1>7. positions[p].claimedAmount + amount \in Int
  <2>1. \A t, c \in Int : c + (t - c) \in Int
    OBVIOUS
  <2>2. QED
    BY <1>4, <1>6, <2>1
<1> HIDE DEF amount
<1>8. PositionShape'
  <2>1. /\ positionOwner' \in [PositionIds -> Holders \cup {NoAddress}]
        /\ \A q \in PositionIds \ {p} : positionOwner'[q] = positionOwner[q]
    BY <1>2, <1>3 DEF Shape, PositionShape
  <2>2. positionOwner[p] # NoAddress
    BY <1>3, AccountsAssumption DEF Holders
  <2>3. positions' = [positions EXCEPT ![p].claimedAmount = positions[p].claimedAmount + amount]
    BY <1>3
  <2>4. QED
    BY <1>2, <1>7, <2>1, <2>2, <2>3, PositionUpdate DEF Shape
<1>9. Shape'
  BY <1>2, <1>3, <1>8 DEF Shape, LoanShape, MarketShape, AdminShape, adminVars
<1>10. now <= now'
  BY <1>2, <1>3 DEF Shape, AdminShape
<1>11. QED
  BY <1>3, <1>9, <1>10, NoLoanStep

LEMMA SplitPositionStep ==
  ASSUME ControlInv, NEW p \in PositionIds, NEW u \in Users, NEW s \in SplitAmounts,
         SplitPosition(p, u, s)
  PROVE  ControlInv'
<1> DEFINE q == nextPositionId
           splitClaimed == SplitClaimedAmount(p, s)
           part == [loanId |-> positions[p].loanId, principalAmount |-> s,
                    claimedAmount |-> splitClaimed, split |-> TRUE,
                    splitAfterClaim |-> positions[p].claimedAmount > 0]
           rest == [positions[p] EXCEPT !.principalAmount = @ - s,
                                        !.claimedAmount = @ - splitClaimed,
                                        !.split = TRUE]
<1>1. /\ Shape /\ s \in Nat /\ q \in PositionIds /\ positions[p] \in PositionRecords
      /\ positions[p].loanId \in Loans
  BY InputsAssumption, AccountsAssumption
  DEF ControlInv, Shape, PositionShape, SplitPosition, Holders
<1>2. /\ UNCHANGED <<adminVars, nextLoanId, loans, now, markets>>
      /\ s > 0 /\ s < positions[p].principalAmount
      /\ positionOwner[p] = u
      /\ positionOwner' = [positionOwner EXCEPT ![q] = u]
      /\ positions' = [positions EXCEPT
           ![p].principalAmount = @ - s,
           ![p].claimedAmount = @ - splitClaimed,
           ![p].split = TRUE,
           ![q] = part]
  BY DEF SplitPosition, marketVars
<1>3. splitClaimed \in Int
  <2> DEFINE c == positions[p].claimedAmount
             pr == positions[p].principalAmount
  <2>1. c \in Int /\ pr \in Int /\ pr > 0 /\ splitClaimed = (c * s) \div pr
    BY <1>1, <1>2 DEF PositionRecords, SplitClaimedAmount
  <2> HIDE DEF c, pr, splitClaimed
  <2>2. c * s \in Int
    BY <1>1, <2>1, ProductInt
  <2>3. QED
    BY <2>1, <2>2
<1> HIDE DEF splitClaimed
<1>4. part \in PositionRecords /\ part.loanId = positions[p].loanId
  BY <1>1, <1>3 DEF PositionRecords
<1>5. rest \in PositionRecords /\ rest.loanId = positions[p].loanId
  <2>1. /\ positions[p].principalAmount - s \in Int
        /\ positions[p].claimedAmount - splitClaimed \in Int
    BY <1>1, <1>3 DEF PositionRecords
  <2>2. QED
    BY <1>1, <2>1 DEF PositionRecords
<1>6. positions' = [[positions EXCEPT ![p] = rest] EXCEPT ![q] = part]
  BY <1>1, <1>2 DEF Shape, PositionShape
<1> HIDE DEF part, rest, q
<1>7. PositionShape'
  BY <1>1, <1>2, <1>4, <1>5, <1>6 DEF Shape, PositionShape, Holders
<1>8. Shape'
  BY <1>1, <1>2, <1>7 DEF Shape, LoanShape, MarketShape, AdminShape, adminVars
<1>9. now <= now'
  BY <1>1, <1>2 DEF Shape, AdminShape
<1>10. QED
  BY <1>2, <1>8, <1>9, NoLoanStep

LEMMA TransferPositionStep ==
  ASSUME ControlInv, NEW p \in PositionIds, NEW u \in Users, NEW to \in Holders,
         TransferPosition(p, u, to)
  PROVE  ControlInv'
<1>1. /\ UNCHANGED <<adminVars, nextLoanId, loans, positions, now, markets>>
      /\ positionOwner[p] = u /\ positionOwner' = [positionOwner EXCEPT ![p] = to]
  BY DEF TransferPosition, marketVars
<1>2. Shape
  BY DEF ControlInv
<1>3. PositionShape'
  BY <1>1, <1>2, AccountsAssumption DEF Shape, PositionShape, Holders
<1>4. Shape'
  BY <1>1, <1>2, <1>3 DEF Shape, LoanShape, MarketShape, AdminShape, adminVars
<1>5. now <= now'
  BY <1>1, <1>2 DEF Shape, AdminShape
<1>6. QED
  BY <1>1, <1>4, <1>5, NoLoanStep

LEMMA ClaimPlatformFeeStep ==
  ASSUME ControlInv, NEW l \in Loans, NEW c, ClaimPlatformFee(l, c)
  PROVE  ControlInv'
<1> DEFINE amount == TotalProtocolFee(l) - loans[l].feeClaimedAmount
           rec == [loans[l] EXCEPT !.feeClaimedAmount = @ + amount]
<1>1. Shape /\ LoanInv(l) /\ loans[l] \in LoanRecords
  BY DEF ControlInv, Shape, LoanShape
<1>2. UNCHANGED <<adminVars, nextLoanId, positionVars, now, markets>>
  BY DEF ClaimPlatformFee, marketVars
<1>3. amount \in Int /\ loans[l].feeClaimedAmount + amount \in Int
  BY <1>1, FeeInt DEF LoanRecords
<1>4. loans' = [loans EXCEPT ![l] = rec]
  <2>1. loans' = [loans EXCEPT ![l].feeClaimedAmount = @ + amount]
    BY DEF ClaimPlatformFee
  <2> HIDE DEF amount
  <2>2. QED
    BY <1>1, <2>1 DEF Shape, LoanShape
<1> HIDE DEF amount
<1>5. rec \in LoanRecords
  BY <1>1, <1>3 DEF LoanRecords
<1>6. \A f \in {"borrower", "principal", "repaymentAmount", "activationDeadline",
                "repaymentDeadline", "fundedAmount", "creditedAmount",
                "repaymentSatisfiedAt", "state", "collateralBps"} : rec[f] = loans[l][f]
  BY <1>1 DEF LoanRecords
<1> HIDE DEF rec
<1>7. /\ LoanShape' /\ loans'[l] = rec /\ \A k \in Loans \ {l} : loans'[k] = loans[k]
  BY <1>1, <1>4, <1>5, LoanUpdate DEF Shape
<1>8. Shape'
  BY <1>1, <1>2, <1>7 DEF Shape, PositionShape, MarketShape, AdminShape, adminVars, positionVars
<1>9. StageInv(l)'
  BY <1>1, <1>6, <1>7 DEF LoanInv, StageInv
<1>10. DeadlineInv(l)'
  BY <1>1, <1>2, <1>6, <1>7 DEF LoanInv, DeadlineInv
<1>11. AgreeInv(l)'
  BY <1>1, <1>2, <1>6, <1>7 DEF LoanInv, AgreeInv
<1>12. QED
  BY <1>2, <1>7, <1>8, <1>9, <1>10, <1>11, OneLoanStep DEF LoanInv

-----------------------------------------------------------------------------
(* Everything together. *)

LEMMA AdminStep ==
  ASSUME ControlInv, AdminNext
  PROVE  ControlInv'
<1>1. PICK c \in Admins :
        \/ SetOutcomeToken(c)
        \/ \E f \in FeeChoices : SetPlatformFeeBps(c, f)
        \/ \E r \in FeeRecipients : SetPlatformFeeRecipient(c, r)
        \/ \E a \in OwnerCandidates : TransferOwnership(c, a)
        \/ AcceptOwnership(c)
        \/ \E l \in Loans : ClaimPlatformFee(l, c)
  BY DEF AdminNext
<1>2. CASE \E l \in Loans : ClaimPlatformFee(l, c)
  BY <1>2, ClaimPlatformFeeStep
<1>3. CASE ~ \E l \in Loans : ClaimPlatformFee(l, c)
  <2>1. /\ platformFeeBps' \in FeeChoices \cup {platformFeeBps}
        /\ platformFeeRecipient' \in FeeRecipients \cup {platformFeeRecipient}
        /\ UNCHANGED <<nextLoanId, loans, positionVars, now, markets>>
    BY <1>1, <1>3
    DEF SetOutcomeToken, SetPlatformFeeBps, SetPlatformFeeRecipient, TransferOwnership,
        AcceptOwnership, marketVars
  <2>2. Shape
    BY DEF ControlInv
  <2>3. AdminShape'
    BY <2>1, <2>2, InputsAssumption DEF Shape, AdminShape
  <2>4. Shape'
    BY <2>1, <2>2, <2>3 DEF Shape, LoanShape, PositionShape, MarketShape, positionVars
  <2>5. now <= now'
    BY <2>1, <2>2 DEF Shape, AdminShape
  <2>6. QED
    BY <2>1, <2>4, <2>5, NoLoanStep
<1>4. QED
  BY <1>2, <1>3

(* A step that leaves the loans, the positions and the markets alone. *)
LEMMA QuietStep ==
  ASSUME ControlInv, now <= now', now' \in Nat,
         UNCHANGED <<adminVars, nextLoanId, loans, positionVars, markets>>
  PROVE  ControlInv'
<1>1. Shape
  BY DEF ControlInv
<1>2. AdminShape'
  BY <1>1 DEF Shape, AdminShape, adminVars
<1>3. Shape'
  BY <1>1, <1>2 DEF Shape, LoanShape, PositionShape, MarketShape, positionVars
<1>4. QED
  BY <1>3, NoLoanStep

LEMMA MarketStepQuiet ==
  ASSUME MarketUserStep
  PROVE  UNCHANGED <<adminVars, nextLoanId, loans, positionVars, now, markets>>
<1>1. PICK n \in Loans, u \in Users :
        \/ \E a \in MarketAmounts :
             \/ Market!DepositBorrowerCollateral(n, u, a)
             \/ Market!DepositPairCollateral(n, u, a)
             \/ Market!WithdrawPairDeposit(n, u, a)
             \/ Market!MergePositions(n, u, a)
             \/ \E x \in Market!Outcome : Market!Redeem(n, u, x, a)
             \/ \E x \in Market!Outcome, to \in Market!Holders :
                  Market!TransferOutcome(<<n, x>>, u, to, a)
        \/ Market!RefundBorrowerCollateral(n, u)
        \/ Market!RefundPairCollateral(n, u)
        \/ Market!MintActivatedPair(n, u)
  BY DEF MarketUserStep, Market!UserNext
<1>2. \A a : Market!DepositBorrowerCollateral(n, u, a) => UNCHANGED markets
  BY DEF Market!DepositBorrowerCollateral
<1>3. \A a : Market!DepositPairCollateral(n, u, a) => UNCHANGED markets
  BY DEF Market!DepositPairCollateral
<1>4. \A a : Market!WithdrawPairDeposit(n, u, a) => UNCHANGED markets
  BY DEF Market!WithdrawPairDeposit
<1>5. \A a : Market!MergePositions(n, u, a) => UNCHANGED markets
  BY DEF Market!MergePositions
<1>6. \A a, x : Market!Redeem(n, u, x, a) => UNCHANGED markets
  BY DEF Market!Redeem
<1>7. \A a, x, to : Market!TransferOutcome(<<n, x>>, u, to, a) => UNCHANGED markets
  BY DEF Market!TransferOutcome
<1>8. Market!RefundBorrowerCollateral(n, u) => UNCHANGED markets
  BY DEF Market!RefundBorrowerCollateral
<1>9. Market!RefundPairCollateral(n, u) => UNCHANGED markets
  BY DEF Market!RefundPairCollateral
<1>10. Market!MintActivatedPair(n, u) => UNCHANGED markets
  BY DEF Market!MintActivatedPair
<1>11. UNCHANGED markets
  BY <1>1, <1>2, <1>3, <1>4, <1>5, <1>6, <1>7, <1>8, <1>9, <1>10
<1>12. QED
  BY <1>11 DEF MarketUserStep

LEMMA ControlNext ==
  ASSUME ControlInv, MarketProofs!TypeOK, [Next]_vars
  PROVE  ControlInv'
<1>1. now \in Nat
  BY DEF ControlInv, Shape, AdminShape
<1>2. CASE Tick
  BY <1>1, <1>2, QuietStep DEF Tick, marketVars
<1>3. CASE MarketUserStep
  BY <1>1, <1>3, MarketStepQuiet, QuietStep
<1>4. CASE AdminNext
  BY <1>4, AdminStep
<1>5. CASE LifecycleNext
  BY <1>5, ActivateStep, SettleRepaidStep, CancelExpiredLoanStep, MarkDefaultedStep,
     RedeemDefaultCollateralStep
  DEF LifecycleNext
<1>6. CASE LoanNext
  BY <1>6, CreateLoanStep, FundStep, DepositToLoanStep DEF LoanNext
<1>7. CASE PositionNext
  BY <1>7, ClaimFundingPrincipalStep, ClaimSettledStep, SplitPositionStep, TransferPositionStep
  DEF PositionNext, Claim
<1>8. CASE UNCHANGED vars
  BY <1>1, <1>8, QuietStep DEF vars, marketVars
<1>9. QED
  BY <1>2, <1>3, <1>4, <1>5, <1>6, <1>7, <1>8 DEF Next

LEMMA ControlInit ==
  ASSUME Init
  PROVE  ControlInv
<1>1. LoanShape
  BY DEF Init, LoanShape, LoanRecords, UnsetLoan, LoanState, BasisPoints
<1>2. PositionShape
  BY DEF Init, PositionShape, PositionRecords, UnsetPosition
<1>3. \A l \in Loans :
        /\ markets[l].borrower = NoAddress /\ markets[l].borrowerCollateralAmount = 0
        /\ markets[l].winningOutcome = "None" /\ markets[l].state = "Proto"
  BY DEF Init, Market!Init, Market!UnsetMarket
<1>4. MarketShape
  BY DEF Init, MarketShape, MarketRecords, Market!Init, Market!UnsetMarket
<1>5. AdminShape
  BY InputsAssumption DEF Init, AdminShape
<1>6. ASSUME NEW l \in Loans
      PROVE  LoanInv(l)
  <2>1. loans[l] = UnsetLoan
    BY DEF Init
  <2>2. BorrowerCollateralAmount(0, 0) = 0
    BY DEF BorrowerCollateralAmount, BasisPoints
  <2>3. StageInv(l)
    BY <2>1 DEF StageInv, UnsetLoan
  <2>4. DeadlineInv(l)
    BY <2>1 DEF DeadlineInv, UnsetLoan
  <2>5. AgreeInv(l)
    BY <1>3, <2>1, <2>2 DEF AgreeInv, UnsetLoan
  <2>6. QED
    BY <2>3, <2>4, <2>5 DEF LoanInv
<1>7. QED
  BY <1>1, <1>2, <1>4, <1>5, <1>6 DEF ControlInv, Shape

THEOREM ControlHolds == Spec => []ControlInv
<1>1. Init => ControlInv
  BY ControlInit
<1>2. MarketProofs!IInv /\ ControlInv /\ [Next]_vars => ControlInv'
  BY ControlNext DEF MarketProofs!IInv
<1>3. QED
  BY <1>1, <1>2, MarketInvariantHolds, PTL DEF Spec

(* LoanPositionToken.sol and OutcomeToken.sol never disagree on the stage of a *)
(* loan, its borrower, its collateral or the outcome it was resolved to.       *)
THEOREM LoanMarketsAgree == Spec => []LoanMarketAgree
<1>1. ControlInv => LoanMarketAgree
  BY DEF ControlInv, LoanInv, AgreeInv, LoanMarketAgree
<1>2. QED
  BY <1>1, ControlHolds, PTL

(* settleRepaid and markDefaulted settle a loan by what depositToLoan was paid *)
(* up to its deadline, whenever they are called.                               *)
THEOREM SettledInTime == Spec => []SettledByDeadline
<1>1. ControlInv => SettledByDeadline
  BY DEF ControlInv, LoanInv, DeadlineInv, SettledByDeadline
<1>2. QED
  BY <1>1, ControlHolds, PTL

-----------------------------------------------------------------------------
(* The refinement.  Each call maps to the step of the abstract loan it stands  *)
(* for, or to none.  The control invariant supplies what the calls do not test *)
(* themselves, such as that a loan that is activated is not due yet.           *)

(* What the mapping makes of one loan. *)
Verdict(l) == markets[l].winningOutcome
PaidUp(l) == loans[l].repaymentSatisfiedAt # 0

LEMMA MappedStutter ==
  ASSUME phase' = phase, verdict' = verdict, paidUp' = paidUp, due' = due
  PROVE  [Lifecycle!Next]_(Lifecycle!vars)
BY DEF Lifecycle!vars

(* A loan and a market that a step leaves alone are mapped as before. *)
LEMMA SameMapped ==
  ASSUME now' = now, NEW l \in Loans, loans'[l] = loans[l], markets'[l] = markets[l]
  PROVE  /\ PhaseOf(l)' = PhaseOf(l) /\ Verdict(l)' = Verdict(l)
         /\ PaidUp(l)' = PaidUp(l) /\ Due(l)' = Due(l)
BY DEF PhaseOf, Created, Verdict, PaidUp, Due, Started

LEMMA NothingMapped ==
  ASSUME now' = now, loans' = loans, markets' = markets
  PROVE  [Lifecycle!Next]_(Lifecycle!vars)
<1>1. phase' = phase /\ verdict' = verdict /\ paidUp' = paidUp /\ due' = due
  BY SameMapped DEF phase, verdict, paidUp, due, Verdict, PaidUp
<1>2. QED
  BY <1>1, MappedStutter

(* One loan mapped to other values, and the rest as before. *)
LEMMA OneMapped ==
  ASSUME now' = now, NEW l \in Loans,
         \A k \in Loans \ {l} : loans'[k] = loans[k] /\ markets'[k] = markets[k]
  PROVE  /\ phase' = [phase EXCEPT ![l] = PhaseOf(l)']
         /\ verdict' = [verdict EXCEPT ![l] = Verdict(l)']
         /\ paidUp' = [paidUp EXCEPT ![l] = PaidUp(l)']
         /\ due' = [due EXCEPT ![l] = Due(l)']
<1>1. \A k \in Loans \ {l} :
        /\ PhaseOf(k)' = PhaseOf(k) /\ Verdict(k)' = Verdict(k)
        /\ PaidUp(k)' = PaidUp(k) /\ Due(k)' = Due(k)
  BY SameMapped
<1>2. QED
  BY <1>1 DEF phase, verdict, paidUp, due, Verdict, PaidUp

LEMMA MappedValues ==
  ASSUME NEW l \in Loans
  PROVE  /\ phase[l] = PhaseOf(l) /\ verdict[l] = Verdict(l)
         /\ paidUp[l] = PaidUp(l) /\ due[l] = Due(l)
         /\ phase = [phase EXCEPT ![l] = PhaseOf(l)]
         /\ verdict = [verdict EXCEPT ![l] = Verdict(l)]
         /\ paidUp = [paidUp EXCEPT ![l] = PaidUp(l)]
         /\ due = [due EXCEPT ![l] = Due(l)]
BY DEF phase, verdict, paidUp, due, Verdict, PaidUp

(* ... to the same values, for a call the abstract loan does not notice. *)
LEMMA OneUnchanged ==
  ASSUME now' = now, NEW l \in Loans,
         \A k \in Loans \ {l} : loans'[k] = loans[k] /\ markets'[k] = markets[k],
         PhaseOf(l)' = PhaseOf(l), Verdict(l)' = Verdict(l),
         PaidUp(l)' = PaidUp(l), Due(l)' = Due(l)
  PROVE  [Lifecycle!Next]_(Lifecycle!vars)
<1>1. phase' = phase /\ verdict' = verdict /\ paidUp' = paidUp /\ due' = due
  BY OneMapped, MappedValues
<1>2. QED
  BY <1>1, MappedStutter

-----------------------------------------------------------------------------
(* The calls the abstract loan notices. *)

LEMMA CreateLoanMapped ==
  ASSUME ControlInv, NEW u \in Users, NEW r \in LoanRequests, CreateLoan(u, r)
  PROVE  [Lifecycle!Next]_(Lifecycle!vars)
<1>1. PICK l \in Loans : l = nextLoanId
  BY DEF CreateLoan
<1>2. /\ loans[l].borrower = NoAddress /\ u # NoAddress
      /\ loans[l].state \in {"Funding", "Cancelled"}
      /\ markets[l].winningOutcome = "None" /\ LoanShape /\ MarketShape
  <2>1. markets[l].borrower = NoAddress
    BY <1>1 DEF CreateLoan, Market!CreateProtoMarket
  <2>2. LoanInv(l) /\ Shape
    BY DEF ControlInv
  <2>3. loans[l].borrower = NoAddress
    BY <2>1, <2>2 DEF LoanInv, AgreeInv
  <2>4. loans[l].state \in {"Funding", "Cancelled"}
    BY <2>2, <2>3 DEF LoanInv, StageInv
  <2>5. QED
    BY <2>2, <2>3, <2>4, AccountsAssumption DEF LoanInv, AgreeInv, Shape, Holders
<1>3. /\ loans'[l].borrower = u /\ loans'[l].state = "Funding"
      /\ loans'[l].repaymentSatisfiedAt = loans[l].repaymentSatisfiedAt
      /\ \A k \in Loans \ {l} : loans'[k] = loans[k]
  <2> DEFINE interest == (r.principal * r.interestBps) \div BasisPoints
  <2>1. loans' = [loans EXCEPT
          ![l].borrower = u, ![l].principal = r.principal,
          ![l].repaymentAmount = r.principal + interest,
          ![l].loanWithdrawFreezeDeadline = r.loanWithdrawFreezeDeadline,
          ![l].activationDeadline = r.activationDeadline,
          ![l].repaymentDeadline = r.repaymentDeadline,
          ![l].state = "Funding", ![l].feeBps = platformFeeBps,
          ![l].feeRecipient = platformFeeRecipient, ![l].collateralBps = r.collateralBps]
    BY <1>1 DEF CreateLoan
  <2> DEFINE rec == [loans[l] EXCEPT
                       !.borrower = u, !.principal = r.principal,
                       !.repaymentAmount = r.principal + interest,
                       !.loanWithdrawFreezeDeadline = r.loanWithdrawFreezeDeadline,
                       !.activationDeadline = r.activationDeadline,
                       !.repaymentDeadline = r.repaymentDeadline,
                       !.state = "Funding", !.feeBps = platformFeeBps,
                       !.feeRecipient = platformFeeRecipient, !.collateralBps = r.collateralBps]
  <2> HIDE DEF interest
  <2>2. loans' = [loans EXCEPT ![l] = rec]
    BY <1>2, <2>1, ZenonT(40) DEF LoanShape
  <2>3. /\ rec.borrower = u /\ rec.state = "Funding"
        /\ rec.repaymentSatisfiedAt = loans[l].repaymentSatisfiedAt
    BY <1>2 DEF LoanShape, LoanRecords
  <2> HIDE DEF rec
  <2>4. QED
    BY <1>2, <2>2, <2>3 DEF LoanShape
<1>4. /\ markets'[l].winningOutcome = "None" /\ \A k \in Loans \ {l} : markets'[k] = markets[k]
      /\ now' = now
  BY <1>1, <1>2 DEF CreateLoan, Market!CreateProtoMarket, MarketShape
<1>5. /\ PhaseOf(l) = "Absent" /\ PhaseOf(l)' = "Raising" /\ Verdict(l)' = Verdict(l)
      /\ PaidUp(l)' = PaidUp(l) /\ Due(l) = FALSE /\ Due(l)' = FALSE
  BY <1>2, <1>3, <1>4 DEF PhaseOf, Created, Verdict, PaidUp, Due, Started
<1>6. Lifecycle!Open(l)
  <2>1. /\ phase' = [phase EXCEPT ![l] = PhaseOf(l)']
        /\ verdict' = [verdict EXCEPT ![l] = Verdict(l)']
        /\ paidUp' = [paidUp EXCEPT ![l] = PaidUp(l)']
        /\ due' = [due EXCEPT ![l] = Due(l)']
    BY <1>3, <1>4, OneMapped
  <2>2. verdict' = verdict /\ paidUp' = paidUp /\ due' = due
    BY <2>1, <1>5, MappedValues
  <2>3. QED
    BY <2>1, <2>2, <1>5, MappedValues DEF Lifecycle!Open
<1>7. QED
  BY <1>6 DEF Lifecycle!Next

LEMMA ActivateMapped ==
  ASSUME ControlInv, NEW l \in Loans, Activate(l)
  PROVE  [Lifecycle!Next]_(Lifecycle!vars)
<1>1. Shape /\ LoanInv(l) /\ loans[l] \in LoanRecords
  BY DEF ControlInv, Shape, LoanShape
<1>2. loans[l].state = "Funded" /\ now <= loans[l].activationDeadline /\ now' = now
  BY DEF Activate
<1>3. loans[l].borrower # NoAddress /\ ~ (now > loans[l].repaymentDeadline)
  <2>1. loans[l].borrower # NoAddress
    BY <1>1, <1>2 DEF LoanInv, StageInv
  <2>2. loans[l].activationDeadline < loans[l].repaymentDeadline
    BY <1>1, <2>1 DEF LoanInv, StageInv
  <2>3. now \in Nat /\ loans[l].activationDeadline \in Nat /\ loans[l].repaymentDeadline \in Nat
    BY <1>1 DEF Shape, AdminShape, LoanRecords
  <2>4. QED
    BY <1>2, <2>1, <2>2, <2>3
<1>4. /\ loans'[l] = [loans[l] EXCEPT !.state = "Active"]
      /\ markets'[l].winningOutcome = markets[l].winningOutcome
      /\ \A k \in Loans \ {l} : loans'[k] = loans[k] /\ markets'[k] = markets[k]
  BY <1>1 DEF Activate, Market!ActivateMarket, Shape, LoanShape, MarketShape, MarketRecords
<1>5. /\ loans'[l].state = "Active" /\ loans'[l].borrower = loans[l].borrower
      /\ loans'[l].repaymentSatisfiedAt = loans[l].repaymentSatisfiedAt
      /\ loans'[l].repaymentDeadline = loans[l].repaymentDeadline
  BY <1>1, <1>4 DEF LoanRecords
<1>6. /\ PhaseOf(l) = "Raising" /\ PhaseOf(l)' = "Live" /\ Verdict(l)' = Verdict(l)
      /\ PaidUp(l)' = PaidUp(l) /\ Due(l) = FALSE /\ Due(l)' = FALSE
  BY <1>2, <1>3, <1>4, <1>5 DEF PhaseOf, Created, Verdict, PaidUp, Due, Started
<1>7. Lifecycle!Start(l)
  <2>1. /\ phase' = [phase EXCEPT ![l] = PhaseOf(l)']
        /\ verdict' = [verdict EXCEPT ![l] = Verdict(l)']
        /\ paidUp' = [paidUp EXCEPT ![l] = PaidUp(l)']
        /\ due' = [due EXCEPT ![l] = Due(l)']
    BY <1>2, <1>4, OneMapped
  <2>2. verdict' = verdict /\ paidUp' = paidUp /\ due' = due
    BY <2>1, <1>6, MappedValues
  <2>3. QED
    BY <2>1, <2>2, <1>6, MappedValues DEF Lifecycle!Start
<1>8. QED
  BY <1>7 DEF Lifecycle!Next

LEMMA SettleRepaidMapped ==
  ASSUME ControlInv, NEW l \in Loans, SettleRepaid(l)
  PROVE  [Lifecycle!Next]_(Lifecycle!vars)
<1>1. Shape /\ LoanInv(l) /\ loans[l] \in LoanRecords
  BY DEF ControlInv, Shape, LoanShape
<1>2. /\ loans[l].state = "Active" /\ now' = now
      /\ loans[l].repaymentSatisfiedAt # 0
  BY <1>1 DEF SettleRepaid, LoanInv, DeadlineInv
<1>3. loans[l].borrower # NoAddress
  BY <1>1, <1>2 DEF LoanInv, StageInv
<1>4. /\ loans'[l] = [loans[l] EXCEPT !.state = "Repaid"]
      /\ markets'[l].winningOutcome = "Yes"
      /\ \A k \in Loans \ {l} : loans'[k] = loans[k] /\ markets'[k] = markets[k]
  BY <1>1 DEF SettleRepaid, Market!ResolveMarket, Shape, LoanShape, MarketShape, MarketRecords
<1>5. /\ loans'[l].state = "Repaid" /\ loans'[l].borrower = loans[l].borrower
      /\ loans'[l].repaymentSatisfiedAt = loans[l].repaymentSatisfiedAt
      /\ loans'[l].repaymentDeadline = loans[l].repaymentDeadline
  BY <1>1, <1>4 DEF LoanRecords
<1>6. /\ PhaseOf(l) = "Live" /\ PhaseOf(l)' = "Repaid" /\ Verdict(l)' = "Yes"
      /\ PaidUp(l)' = PaidUp(l) /\ Due(l)' = Due(l) /\ PaidUp(l)
  BY <1>2, <1>3, <1>4, <1>5 DEF PhaseOf, Created, Verdict, PaidUp, Due, Started
<1>7. Lifecycle!Repay(l)
  <2>1. /\ phase' = [phase EXCEPT ![l] = PhaseOf(l)']
        /\ verdict' = [verdict EXCEPT ![l] = Verdict(l)']
        /\ paidUp' = [paidUp EXCEPT ![l] = PaidUp(l)']
        /\ due' = [due EXCEPT ![l] = Due(l)']
    BY <1>2, <1>4, OneMapped
  <2>2. paidUp' = paidUp /\ due' = due
    BY <2>1, <1>6, MappedValues
  <2>3. QED
    BY <2>1, <2>2, <1>6, MappedValues DEF Lifecycle!Repay
<1>8. QED
  BY <1>7 DEF Lifecycle!Next

LEMMA MarkDefaultedMapped ==
  ASSUME ControlInv, NEW l \in Loans, MarkDefaulted(l)
  PROVE  [Lifecycle!Next]_(Lifecycle!vars)
<1>1. Shape /\ LoanInv(l) /\ loans[l] \in LoanRecords
  BY DEF ControlInv, Shape, LoanShape
<1>2. /\ loans[l].state = "Active" /\ now' = now
      /\ now > loans[l].repaymentDeadline /\ loans[l].repaymentSatisfiedAt = 0
  BY <1>1 DEF MarkDefaulted, LoanInv, DeadlineInv
<1>3. loans[l].borrower # NoAddress
  BY <1>1, <1>2 DEF LoanInv, StageInv
<1>4. /\ loans'[l] = [loans[l] EXCEPT !.state = "Defaulted"]
      /\ markets'[l].winningOutcome = "No"
      /\ \A k \in Loans \ {l} : loans'[k] = loans[k] /\ markets'[k] = markets[k]
  BY <1>1 DEF MarkDefaulted, Market!ResolveMarket, Shape, LoanShape, MarketShape, MarketRecords
<1>5. /\ loans'[l].state = "Defaulted" /\ loans'[l].borrower = loans[l].borrower
      /\ loans'[l].repaymentSatisfiedAt = loans[l].repaymentSatisfiedAt
      /\ loans'[l].repaymentDeadline = loans[l].repaymentDeadline
  BY <1>1, <1>4 DEF LoanRecords
<1>6. /\ PhaseOf(l) = "Live" /\ PhaseOf(l)' = "Defaulted" /\ Verdict(l)' = "No"
      /\ PaidUp(l)' = PaidUp(l) /\ Due(l)' = Due(l) /\ ~PaidUp(l) /\ Due(l)
  BY <1>2, <1>3, <1>4, <1>5 DEF PhaseOf, Created, Verdict, PaidUp, Due, Started
<1>7. Lifecycle!Default(l)
  <2>1. /\ phase' = [phase EXCEPT ![l] = PhaseOf(l)']
        /\ verdict' = [verdict EXCEPT ![l] = Verdict(l)']
        /\ paidUp' = [paidUp EXCEPT ![l] = PaidUp(l)']
        /\ due' = [due EXCEPT ![l] = Due(l)']
    BY <1>2, <1>4, OneMapped
  <2>2. paidUp' = paidUp /\ due' = due
    BY <2>1, <1>6, MappedValues
  <2>3. QED
    BY <2>1, <2>2, <1>6, MappedValues DEF Lifecycle!Default
<1>8. QED
  BY <1>7 DEF Lifecycle!Next

LEMMA CancelExpiredLoanMapped ==
  ASSUME ControlInv, NEW l \in Loans, CancelExpiredLoan(l)
  PROVE  [Lifecycle!Next]_(Lifecycle!vars)
<1>1. Shape /\ LoanInv(l) /\ loans[l] \in LoanRecords
  BY DEF ControlInv, Shape, LoanShape
<1>2. loans[l].state \in {"Funding", "Funded"} /\ now' = now
  BY DEF CancelExpiredLoan
<1>3. /\ loans'[l] = [loans[l] EXCEPT !.state = "Cancelled"]
      /\ markets'[l].winningOutcome = markets[l].winningOutcome
      /\ \A k \in Loans \ {l} : loans'[k] = loans[k] /\ markets'[k] = markets[k]
  BY <1>1 DEF CancelExpiredLoan, Market!CancelMarket, Shape, LoanShape, MarketShape, MarketRecords
<1>4. /\ loans'[l].state = "Cancelled" /\ loans'[l].borrower = loans[l].borrower
      /\ loans'[l].repaymentSatisfiedAt = loans[l].repaymentSatisfiedAt
  BY <1>1, <1>3 DEF LoanRecords
<1>5. /\ Verdict(l)' = Verdict(l) /\ PaidUp(l)' = PaidUp(l)
      /\ Due(l) = FALSE /\ Due(l)' = FALSE
  BY <1>2, <1>3, <1>4 DEF Verdict, PaidUp, Due, Started
<1>6. CASE ~Created(l)
  <2>1. PhaseOf(l)' = PhaseOf(l)
    BY <1>4, <1>6 DEF PhaseOf, Created
  <2>2. QED
    BY <1>2, <1>3, <1>5, <2>1, OneUnchanged
<1>7. CASE Created(l)
  <2>1. PhaseOf(l) = "Raising" /\ PhaseOf(l)' = "Cancelled"
    BY <1>2, <1>4, <1>7 DEF PhaseOf, Created
  <2>2. /\ phase' = [phase EXCEPT ![l] = PhaseOf(l)']
        /\ verdict' = [verdict EXCEPT ![l] = Verdict(l)']
        /\ paidUp' = [paidUp EXCEPT ![l] = PaidUp(l)']
        /\ due' = [due EXCEPT ![l] = Due(l)']
    BY <1>2, <1>3, OneMapped
  <2>3. verdict' = verdict /\ paidUp' = paidUp /\ due' = due
    <3>1. verdict' = [verdict EXCEPT ![l] = Verdict(l)]
      BY <1>5, <2>2
    <3>2. paidUp' = [paidUp EXCEPT ![l] = PaidUp(l)]
      BY <1>5, <2>2
    <3>3. due' = [due EXCEPT ![l] = Due(l)]
      BY <1>5, <2>2
    <3>4. QED
      BY <3>1, <3>2, <3>3, MappedValues
  <2>4. Lifecycle!Abandon(l)
    BY <2>1, <2>2, <2>3, MappedValues DEF Lifecycle!Abandon
  <2>5. QED
    BY <2>4 DEF Lifecycle!Next
<1>8. QED
  BY <1>6, <1>7

(* A payment that reaches the repayment amount is noticed; another is not. *)
LEMMA DepositToLoanMapped ==
  ASSUME ControlInv, NEW l \in Loans, NEW a \in PayAmounts, DepositToLoan(l, a)
  PROVE  [Lifecycle!Next]_(Lifecycle!vars)
<1> DEFINE satisfies == /\ loans[l].state = "Active"
                        /\ loans[l].repaymentSatisfiedAt = 0
                        /\ loans[l].creditedAmount + a >= loans[l].repaymentAmount
           at == IF satisfies THEN now ELSE loans[l].repaymentSatisfiedAt
           credited == loans[l].creditedAmount + a
           rec == [loans[l] EXCEPT !.creditedAmount = credited, !.repaymentSatisfiedAt = at]
<1>1. Shape /\ LoanInv(l) /\ loans[l] \in LoanRecords
  BY DEF ControlInv, Shape, LoanShape
<1>2. /\ loans[l].state \in {"Active", "Repaid", "Defaulted"}
      /\ loans[l].state = "Active" => now <= loans[l].repaymentDeadline
      /\ now' = now /\ markets' = markets
  BY DEF DepositToLoan, marketVars
<1>3. loans[l].borrower # NoAddress /\ now # 0
  BY <1>1, <1>2 DEF LoanInv, StageInv, Shape, AdminShape
<1>4. loans' = [loans EXCEPT ![l] = rec]
  <2>1. loans' = [loans EXCEPT ![l].creditedAmount = credited, ![l].repaymentSatisfiedAt = at]
    BY DEF DepositToLoan
  <2> HIDE DEF at, credited
  <2>2. QED
    BY <1>1, <2>1 DEF Shape, LoanShape
<1>5. satisfies => at # 0 /\ loans[l].state = "Active"
  BY <1>3
<1>6. ~satisfies => at = loans[l].repaymentSatisfiedAt
  OBVIOUS
<1> HIDE DEF at, credited, satisfies
<1>7. /\ rec.state = loans[l].state /\ rec.borrower = loans[l].borrower
      /\ rec.repaymentDeadline = loans[l].repaymentDeadline /\ rec.repaymentSatisfiedAt = at
  BY <1>1 DEF LoanRecords
<1> HIDE DEF rec
<1>8. /\ loans'[l] = rec
      /\ \A k \in Loans \ {l} : loans'[k] = loans[k] /\ markets'[k] = markets[k]
  BY <1>1, <1>2, <1>4 DEF Shape, LoanShape
<1>9. PhaseOf(l)' = PhaseOf(l) /\ Verdict(l)' = Verdict(l) /\ Due(l)' = Due(l)
  BY <1>2, <1>7, <1>8 DEF PhaseOf, Created, Verdict, Due, Started
<1>10. CASE ~satisfies
  <2>1. PaidUp(l)' = PaidUp(l)
    BY <1>6, <1>7, <1>8, <1>10 DEF PaidUp
  <2>2. QED
    BY <1>2, <1>8, <1>9, <2>1, OneUnchanged
<1>11. CASE satisfies
  <2>1. PhaseOf(l) = "Live" /\ PaidUp(l)' = TRUE /\ ~Due(l)
    <3>1. now \in Nat /\ loans[l].repaymentDeadline \in Nat
      BY <1>1 DEF Shape, AdminShape, LoanRecords
    <3>2. ~ (now > loans[l].repaymentDeadline)
      BY <1>2, <1>5, <1>11, <3>1
    <3>3. QED
      BY <1>3, <1>5, <1>7, <1>8, <1>11, <3>2 DEF PhaseOf, Created, PaidUp, Due
  <2>2. /\ phase' = [phase EXCEPT ![l] = PhaseOf(l)']
        /\ verdict' = [verdict EXCEPT ![l] = Verdict(l)']
        /\ paidUp' = [paidUp EXCEPT ![l] = PaidUp(l)']
        /\ due' = [due EXCEPT ![l] = Due(l)']
    BY <1>2, <1>8, OneMapped
  <2>3. phase' = phase /\ verdict' = verdict /\ due' = due
    BY <1>9, <2>2, MappedValues
  <2>4. Lifecycle!PayUp(l)
    BY <2>1, <2>2, <2>3, MappedValues DEF Lifecycle!PayUp
  <2>5. QED
    BY <2>4 DEF Lifecycle!Next
<1>12. QED
  BY <1>10, <1>11

(* Time passing is noticed by the loans that fall due. *)
LEMMA TickMapped ==
  ASSUME ControlInv, Tick
  PROVE  [Lifecycle!Next]_(Lifecycle!vars)
<1> DEFINE S == {l \in Loans : Due(l)'}
<1>1. now' = now + 1 /\ loans' = loans /\ markets' = markets /\ now \in Nat
  BY DEF Tick, marketVars, ControlInv, Shape, AdminShape
<1>2. /\ phase' = phase /\ verdict' = verdict /\ paidUp' = paidUp
  BY <1>1 DEF phase, PhaseOf, Created, verdict, paidUp
<1>3. ASSUME NEW l \in Loans
      PROVE  Due(l)' = (Due(l) \/ l \in S)
  <2>1. Due(l) => Due(l)'
    <3>1. loans[l].repaymentDeadline \in Nat
      BY DEF ControlInv, Shape, LoanShape, LoanRecords
    <3>2. QED
      BY <1>1, <3>1 DEF Due, Started
  <2>2. Due(l)' \in BOOLEAN
    BY DEF Due
  <2>3. QED
    BY <2>1, <2>2
<1>4. due' = [l \in Loans |-> due[l] \/ l \in S]
  BY <1>3 DEF due
<1>5. \A l \in S : phase[l] \in {"Live", "Repaid", "Defaulted"}
  <2> SUFFICES ASSUME NEW l \in Loans, Due(l)'
               PROVE  phase[l] \in {"Live", "Repaid", "Defaulted"}
    OBVIOUS
  <2>1. loans[l].state \in {"Active", "Repaid", "Defaulted"}
    BY <1>1 DEF Due, Started
  <2>2. loans[l].borrower # NoAddress
    BY <2>1 DEF ControlInv, LoanInv, StageInv
  <2>3. QED
    BY <2>1, <2>2 DEF phase, PhaseOf, Created
<1>6. S \in SUBSET Loans
  OBVIOUS
<1> HIDE DEF S
<1>7. Lifecycle!FallDue(S)
  BY <1>2, <1>4, <1>5 DEF Lifecycle!FallDue
<1>8. QED
  BY <1>6, <1>7 DEF Lifecycle!Next

-----------------------------------------------------------------------------
(* The calls the abstract loan does not notice. *)

LEMMA FundMapped ==
  ASSUME ControlInv, NEW l \in Loans, NEW u, NEW a \in FundAmounts, Fund(l, u, a)
  PROVE  [Lifecycle!Next]_(Lifecycle!vars)
<1> DEFINE remaining == loans[l].principal - loans[l].fundedAmount
           accepted == IF a > remaining THEN remaining ELSE a
           filled == loans[l].fundedAmount + accepted = loans[l].principal
           stage == IF filled THEN "Funded" ELSE loans[l].state
           rec == [loans[l] EXCEPT !.fundedAmount = @ + accepted, !.state = stage]
<1>1. Shape /\ loans[l] \in LoanRecords
  BY DEF ControlInv, Shape, LoanShape
<1>2. loans' = [loans EXCEPT ![l] = rec]
  <2> HIDE DEF accepted
  <2>1. loans' = [loans EXCEPT
          ![l].fundedAmount = @ + accepted, ![l].state = IF filled THEN "Funded" ELSE @]
    BY DEF Fund, accepted
  <2>2. QED
    BY <1>1, <2>1 DEF Shape, LoanShape
<1>3. loans[l].state = "Funding" /\ now' = now /\ markets' = markets
  BY DEF Fund, marketVars
<1>4. stage \in {"Funding", "Funded"}
  BY <1>3
<1> HIDE DEF accepted, stage
<1>5. /\ rec.state = stage /\ rec.borrower = loans[l].borrower
      /\ rec.repaymentSatisfiedAt = loans[l].repaymentSatisfiedAt
  BY <1>1 DEF LoanRecords
<1> HIDE DEF rec
<1>6. /\ loans'[l] = rec
      /\ \A k \in Loans \ {l} : loans'[k] = loans[k] /\ markets'[k] = markets[k]
  BY <1>1, <1>2, <1>3 DEF Shape, LoanShape
<1>7. /\ PhaseOf(l)' = PhaseOf(l) /\ Verdict(l)' = Verdict(l)
      /\ PaidUp(l)' = PaidUp(l) /\ Due(l)' = Due(l)
  BY <1>3, <1>4, <1>5, <1>6 DEF PhaseOf, Created, Verdict, PaidUp, Due, Started
<1>8. QED
  BY <1>3, <1>6, <1>7, OneUnchanged

LEMMA RedeemDefaultCollateralMapped ==
  ASSUME ControlInv, NEW l \in Loans, RedeemDefaultCollateral(l)
  PROVE  [Lifecycle!Next]_(Lifecycle!vars)
<1> DEFINE amount == balanceOf[Market!NoTokenId(l)][LoanContract]
<1>1. Shape /\ loans[l] \in LoanRecords
  BY DEF ControlInv, Shape, LoanShape
<1>2. now' = now /\ markets' = markets
  BY DEF RedeemDefaultCollateral, Market!Redeem
<1>3. loans' = [loans EXCEPT ![l].creditedAmount = @ + amount]
  BY DEF RedeemDefaultCollateral
<1> HIDE DEF amount
<1>4. /\ \A f \in {"state", "borrower", "repaymentSatisfiedAt", "repaymentDeadline"} :
           loans'[l][f] = loans[l][f]
      /\ \A k \in Loans \ {l} : loans'[k] = loans[k] /\ markets'[k] = markets[k]
  BY <1>1, <1>2, <1>3 DEF Shape, LoanShape, LoanRecords
<1>5. /\ PhaseOf(l)' = PhaseOf(l) /\ Verdict(l)' = Verdict(l)
      /\ PaidUp(l)' = PaidUp(l) /\ Due(l)' = Due(l)
  BY <1>2, <1>4 DEF PhaseOf, Created, Verdict, PaidUp, Due, Started
<1>6. QED
  BY <1>2, <1>4, <1>5, OneUnchanged

LEMMA ClaimPlatformFeeMapped ==
  ASSUME ControlInv, NEW l \in Loans, NEW c, ClaimPlatformFee(l, c)
  PROVE  [Lifecycle!Next]_(Lifecycle!vars)
<1> DEFINE amount == TotalProtocolFee(l) - loans[l].feeClaimedAmount
<1>1. Shape /\ loans[l] \in LoanRecords
  BY DEF ControlInv, Shape, LoanShape
<1>2. now' = now /\ markets' = markets
  BY DEF ClaimPlatformFee, marketVars
<1>3. loans' = [loans EXCEPT ![l].feeClaimedAmount = @ + amount]
  BY DEF ClaimPlatformFee
<1> HIDE DEF amount
<1>4. /\ \A f \in {"state", "borrower", "repaymentSatisfiedAt", "repaymentDeadline"} :
           loans'[l][f] = loans[l][f]
      /\ \A k \in Loans \ {l} : loans'[k] = loans[k] /\ markets'[k] = markets[k]
  BY <1>1, <1>2, <1>3 DEF Shape, LoanShape, LoanRecords
<1>5. /\ PhaseOf(l)' = PhaseOf(l) /\ Verdict(l)' = Verdict(l)
      /\ PaidUp(l)' = PaidUp(l) /\ Due(l)' = Due(l)
  BY <1>2, <1>4 DEF PhaseOf, Created, Verdict, PaidUp, Due, Started
<1>6. QED
  BY <1>2, <1>4, <1>5, OneUnchanged

(* A withdrawal may open a funded loan again, which is still raising funds. *)
LEMMA ClaimFundingPrincipalMapped ==
  ASSUME ControlInv, NEW p \in PositionIds, NEW u \in Users, ClaimFundingPrincipal(p, u)
  PROVE  [Lifecycle!Next]_(Lifecycle!vars)
<1>1. PICK l \in Loans : l = positions[p].loanId
  BY AccountsAssumption
  DEF ControlInv, Shape, PositionShape, ClaimFundingPrincipal, Holders
<1> DEFINE amount == positions[p].principalAmount - positions[p].claimedAmount
           rec == [loans[l] EXCEPT !.fundedAmount = @ - amount, !.state = "Funding"]
<1>2. Shape /\ loans[l] \in LoanRecords
  BY DEF ControlInv, Shape, LoanShape
<1>3. /\ loans[l].state \in {"Funding", "Funded"} /\ now' = now /\ markets' = markets
  BY <1>1 DEF ClaimFundingPrincipal, marketVars
<1>4. loans' = [loans EXCEPT ![l] = rec]
  <2>1. loans' = [loans EXCEPT ![l].fundedAmount = @ - amount, ![l].state = "Funding"]
    BY <1>1 DEF ClaimFundingPrincipal
  <2> HIDE DEF amount
  <2>2. QED
    BY <1>2, <2>1 DEF Shape, LoanShape
<1> HIDE DEF amount
<1>5. /\ rec.state = "Funding" /\ rec.borrower = loans[l].borrower
      /\ rec.repaymentSatisfiedAt = loans[l].repaymentSatisfiedAt
  BY <1>2 DEF LoanRecords
<1> HIDE DEF rec
<1>6. /\ loans'[l] = rec
      /\ \A k \in Loans \ {l} : loans'[k] = loans[k] /\ markets'[k] = markets[k]
  BY <1>2, <1>3, <1>4 DEF Shape, LoanShape
<1>7. /\ PhaseOf(l)' = PhaseOf(l) /\ Verdict(l)' = Verdict(l)
      /\ PaidUp(l)' = PaidUp(l) /\ Due(l)' = Due(l)
  BY <1>3, <1>5, <1>6 DEF PhaseOf, Created, Verdict, PaidUp, Due, Started
<1>8. QED
  BY <1>3, <1>6, <1>7, OneUnchanged

-----------------------------------------------------------------------------
(* Everything together. *)

LEMMA AdminMapped ==
  ASSUME ControlInv, AdminNext
  PROVE  [Lifecycle!Next]_(Lifecycle!vars)
<1>1. CASE \E c \in Admins, l \in Loans : ClaimPlatformFee(l, c)
  BY <1>1, ClaimPlatformFeeMapped
<1>2. CASE ~ \E c \in Admins, l \in Loans : ClaimPlatformFee(l, c)
  <2>1. now' = now /\ loans' = loans /\ markets' = markets
    BY <1>2
    DEF AdminNext, SetOutcomeToken, SetPlatformFeeBps, SetPlatformFeeRecipient,
        TransferOwnership, AcceptOwnership, marketVars
  <2>2. QED
    BY <2>1, NothingMapped
<1>3. QED
  BY <1>1, <1>2

LEMMA PositionMapped ==
  ASSUME ControlInv, PositionNext
  PROVE  [Lifecycle!Next]_(Lifecycle!vars)
<1>1. PICK p \in PositionIds, u \in Users :
        \/ Claim(p, u)
        \/ \E s \in SplitAmounts : SplitPosition(p, u, s)
        \/ \E to \in Holders : TransferPosition(p, u, to)
  BY DEF PositionNext
<1>2. CASE ClaimFundingPrincipal(p, u)
  BY <1>2, ClaimFundingPrincipalMapped
<1>3. CASE \/ ClaimSettled(p, u)
           \/ \E s \in SplitAmounts : SplitPosition(p, u, s)
           \/ \E to \in Holders : TransferPosition(p, u, to)
  <2>1. now' = now /\ loans' = loans /\ markets' = markets
    BY <1>3 DEF ClaimSettled, SplitPosition, TransferPosition, marketVars
  <2>2. QED
    BY <2>1, NothingMapped
<1>4. QED
  BY <1>1, <1>2, <1>3 DEF Claim

LEMMA StepMapped ==
  ASSUME ControlInv, [Next]_vars
  PROVE  [Lifecycle!Next]_(Lifecycle!vars)
<1>1. CASE Tick
  BY <1>1, TickMapped
<1>2. CASE MarketUserStep
  BY <1>2, MarketStepQuiet, NothingMapped
<1>3. CASE AdminNext
  BY <1>3, AdminMapped
<1>4. CASE LifecycleNext
  BY <1>4, ActivateMapped, SettleRepaidMapped, CancelExpiredLoanMapped, MarkDefaultedMapped,
     RedeemDefaultCollateralMapped
  DEF LifecycleNext
<1>5. CASE LoanNext
  BY <1>5, CreateLoanMapped, FundMapped, DepositToLoanMapped DEF LoanNext
<1>6. CASE PositionNext
  BY <1>6, PositionMapped
<1>7. CASE UNCHANGED vars
  BY <1>7, NothingMapped DEF vars, marketVars
<1>8. QED
  BY <1>1, <1>2, <1>3, <1>4, <1>5, <1>6, <1>7 DEF Next

(* Every behaviour of the two contracts is, loan by loan, one LoanLifecycle    *)
(* allows: a loan starts before it is due, is repaid exactly when it was paid  *)
(* up in time, and its market resolves with it, once.                          *)
THEOREM RefinesLifecycle == Spec => Lifecycle!Spec
<1>1. Init => Lifecycle!Init
  <2> SUFFICES ASSUME Init
               PROVE  Lifecycle!Init
    OBVIOUS
  <2>1. \A l \in Loans : loans[l] = UnsetLoan /\ markets[l].winningOutcome = "None"
    BY DEF Init, Market!Init, Market!UnsetMarket
  <2>2. \A l \in Loans :
          /\ PhaseOf(l) = "Absent" /\ (loans[l].repaymentSatisfiedAt # 0) = FALSE
          /\ Due(l) = FALSE
    BY <2>1 DEF UnsetLoan, PhaseOf, Created, Due, Started
  <2>3. QED
    BY <2>1, <2>2 DEF Lifecycle!Init, phase, verdict, paidUp, due
<1>2. ControlInv /\ [Next]_vars => [Lifecycle!Next]_(Lifecycle!vars)
  BY StepMapped
<1>3. QED
  BY <1>1, <1>2, ControlHolds, PTL DEF Spec, Lifecycle!Spec

-----------------------------------------------------------------------------
(* Ledgers.  What must be added to them to make them inductive is about      *)
(* single positions: an id not used yet is empty, a position with a holder   *)
(* is of a loan that was opened, and it has claimed nothing before the loan  *)
(* is settled or cancelled, so that what is withdrawn while a loan raises    *)
(* funds is the whole stake.                                                 *)

Amounts ==
  /\ nextPositionId \in Nat /\ loanUsdc \in Nat
  /\ \A p \in PositionIds :
       positions[p].principalAmount \in Nat /\ positions[p].claimedAmount \in Nat
  /\ \A l \in Loans : loans[l].fundedAmount \in Nat /\ loans[l].feeClaimedAmount \in Nat

Unclaimed == {"Funding", "Funded", "Active"}

PositionInv(p) ==
  LET loan == loans[positions[p].loanId] IN
  /\ p >= nextPositionId =>
       /\ positionOwner[p] = NoAddress
       /\ positions[p].principalAmount = 0 /\ positions[p].claimedAmount = 0
  /\ positionOwner[p] # NoAddress =>
       /\ loan.borrower # NoAddress
       /\ loan.state \in Unclaimed => positions[p].claimedAmount = 0

Stake(l) == Total(StakeLedger(l), PositionIds)

FundedInv(l) ==
  LET loan == loans[l] IN
  /\ loan.borrower = NoAddress => loan.fundedAmount = 0
  /\ loan.state # "Cancelled" => loan.fundedAmount = Stake(l)
  /\ loan.state = "Funding" /\ loan.borrower # NoAddress => loan.fundedAmount < loan.principal

LedgerInv ==
  /\ Amounts
  /\ \A p \in PositionIds : PositionInv(p)
  /\ \A l \in Loans : FundedInv(l)
  /\ UsdcAccounted

-----------------------------------------------------------------------------
(* Arithmetic. *)

LEMMA ProductMonotone ==
  ASSUME NEW c \in Nat, NEW a \in Nat, NEW b \in Nat, a <= b
  PROVE  c * a <= b * c
OBVIOUS

LEMMA QuotientNat ==
  ASSUME NEW a \in Nat, NEW b \in Nat, b > 0
  PROVE  a \div b \in Nat
OBVIOUS

LEMMA QuotientAtMost ==
  ASSUME NEW a \in Nat, NEW b \in Nat, b > 0, NEW q \in Nat, a <= b * q
  PROVE  a \div b <= q
OBVIOUS

LEMMA QuotientAtLeast ==
  ASSUME NEW a \in Nat, NEW b \in Nat, b > 0, NEW q \in Nat, b * q <= a
  PROVE  q <= a \div b
OBVIOUS

-----------------------------------------------------------------------------
(* Totals. *)

LEMMA LoansFinite == IsFiniteSet(Loans)
BY LoanBoundsAssumption, FS_Interval DEF Loans

LEMMA PositionsFinite == IsFiniteSet(PositionIds)
BY LoanBoundsAssumption, FS_Interval DEF PositionIds

(* Two accounts that change change the total by their differences. *)
LEMMA TotalUpdateTwo ==
  ASSUME NEW S, IsFiniteSet(S), NEW f, NEW g, NEW a \in S, NEW b \in S, a # b,
         \A x \in S : f[x] \in Nat, g[a] \in Nat, g[b] \in Nat,
         \A x \in S \ {a, b} : g[x] = f[x]
  PROVE  Total(g, S) = Total(f, S) - f[a] - f[b] + g[a] + g[b]
<1> DEFINE h == [x \in S |-> IF x = a THEN g[a] ELSE f[x]]
<1>1. \A x \in S : h[x] \in Nat
  OBVIOUS
<1>2. h[a] = g[a] /\ h[b] = f[b]
  OBVIOUS
<1>3. \A x \in S \ {a} : h[x] = f[x]
  OBVIOUS
<1>4. \A x \in S \ {b} : g[x] = h[x]
  OBVIOUS
<1> HIDE DEF h
<1>5. h[a] \in Nat
  BY <1>1
<1>6. Total(h, S) = Total(f, S) - f[a] + h[a]
  BY <1>3, <1>5, TotalUpdate
<1>7. Total(g, S) = Total(h, S) - h[b] + g[b]
  BY <1>1, <1>4, TotalUpdate
<1>8. Total(f, S) \in Nat
  BY TotalNat
<1>9. QED
  BY <1>2, <1>6, <1>7, <1>8

Fees == Total(FeeLedger, Loans)
Drawn == Total(DrawnLedger, Loans)
Credited == Total(CreditedLedger, Loans)
Claimed == Total(ClaimedLedger, PositionIds)
Principal == Total(PrincipalLedger, PositionIds)

LEMMA Accounted ==
  UsdcAccounted <=> loanUsdc + Claimed + Fees + Drawn = Principal + Credited
BY DEF UsdcAccounted, Claimed, Fees, Drawn, Principal, Credited

LEMMA LoanAmounts ==
  ASSUME Shape, Amounts, NEW l \in Loans
  PROVE  /\ FeeLedger[l] \in Nat /\ DrawnLedger[l] \in Nat /\ CreditedLedger[l] \in Nat
         /\ FeeLedger[l] = loans[l].feeClaimedAmount
         /\ CreditedLedger[l] = loans[l].creditedAmount
         /\ DrawnLedger[l] = IF loans[l].state \in {"Active", "Repaid", "Defaulted"}
                             THEN loans[l].principal ELSE 0
BY DEF Shape, LoanShape, LoanRecords, Amounts, FeeLedger, DrawnLedger, CreditedLedger

LEMMA TotalsNat ==
  ASSUME Shape, Amounts
  PROVE  Fees \in Nat /\ Drawn \in Nat /\ Credited \in Nat /\ Claimed \in Nat /\ Principal \in Nat
<1>1. Fees \in Nat /\ Drawn \in Nat /\ Credited \in Nat
  BY LoanAmounts, LoansFinite, TotalNat DEF Fees, Drawn, Credited
<1>2. \A p \in PositionIds : ClaimedLedger[p] \in Nat /\ PrincipalLedger[p] \in Nat
  BY DEF Amounts, ClaimedLedger, PrincipalLedger
<1>3. Claimed \in Nat /\ Principal \in Nat
  BY <1>2, PositionsFinite, TotalNat DEF Claimed, Principal
<1>4. QED
  BY <1>1, <1>3

LEMMA StakeNat ==
  ASSUME Amounts, NEW l
  PROVE  Stake(l) \in Nat /\ \A p \in PositionIds : StakeLedger(l)[p] \in Nat
<1>1. \A p \in PositionIds : StakeLedger(l)[p] \in Nat
  BY DEF Amounts, StakeLedger
<1>2. QED
  BY <1>1, PositionsFinite, TotalNat DEF Stake

(* A loan that changes alone. *)
LEMMA LoanTotals ==
  ASSUME Shape, Shape', Amounts, Amounts', NEW l \in Loans,
         \A k \in Loans \ {l} : loans'[k] = loans[k]
  PROVE  /\ Fees' = Fees - FeeLedger[l] + FeeLedger'[l]
         /\ Drawn' = Drawn - DrawnLedger[l] + DrawnLedger'[l]
         /\ Credited' = Credited - CreditedLedger[l] + CreditedLedger'[l]
<1> DEFINE f1 == FeeLedger
           f2 == DrawnLedger
           f3 == CreditedLedger
           g1 == FeeLedger'
           g2 == DrawnLedger'
           g3 == CreditedLedger'
<1>1. /\ \A k \in Loans : f1[k] \in Nat
      /\ \A k \in Loans : f2[k] \in Nat
      /\ \A k \in Loans : f3[k] \in Nat
  BY LoanAmounts
<1>2. g1[l] \in Nat /\ g2[l] \in Nat /\ g3[l] \in Nat
  BY DEF Shape, LoanShape, LoanRecords, Amounts, FeeLedger, DrawnLedger, CreditedLedger
<1>3. /\ \A k \in Loans \ {l} : g1[k] = f1[k]
      /\ \A k \in Loans \ {l} : g2[k] = f2[k]
      /\ \A k \in Loans \ {l} : g3[k] = f3[k]
  BY DEF FeeLedger, DrawnLedger, CreditedLedger
<1>4. Total(g1, Loans) = Total(f1, Loans) - f1[l] + g1[l]
  <2> HIDE DEF f1, g1
  <2>1. QED
    BY <1>1, <1>2, <1>3, LoansFinite, TotalUpdate
<1>5. Total(g2, Loans) = Total(f2, Loans) - f2[l] + g2[l]
  <2> HIDE DEF f2, g2
  <2>1. QED
    BY <1>1, <1>2, <1>3, LoansFinite, TotalUpdate
<1>6. Total(g3, Loans) = Total(f3, Loans) - f3[l] + g3[l]
  <2> HIDE DEF f3, g3
  <2>1. QED
    BY <1>1, <1>2, <1>3, LoansFinite, TotalUpdate
<1>7. QED
  BY <1>4, <1>5, <1>6 DEF Fees, Drawn, Credited

LEMMA SameLoansTotals ==
  ASSUME UNCHANGED loans
  PROVE  UNCHANGED <<Fees, Drawn, Credited>>
BY DEF Fees, Drawn, Credited, FeeLedger, DrawnLedger, CreditedLedger

LEMMA SamePositionsTotals ==
  ASSUME UNCHANGED <<positions, positionOwner>>
  PROVE  UNCHANGED <<Claimed, Principal>> /\ \A l : UNCHANGED Stake(l)
BY DEF Claimed, Principal, Stake, ClaimedLedger, PrincipalLedger, StakeLedger

(* Two positions that change alone; the second may be as it was. *)
LEMMA PositionTotals ==
  ASSUME Amounts, Amounts', NEW p \in PositionIds, NEW q \in PositionIds, p # q,
         \A x \in PositionIds \ {p, q} :
           positions'[x] = positions[x] /\ positionOwner'[x] = positionOwner[x]
  PROVE  /\ Claimed' = Claimed - positions[p].claimedAmount - positions[q].claimedAmount
                         + positions'[p].claimedAmount + positions'[q].claimedAmount
         /\ Principal' = Principal - positions[p].principalAmount - positions[q].principalAmount
                           + positions'[p].principalAmount + positions'[q].principalAmount
         /\ \A l : Stake(l)' = Stake(l) - StakeLedger(l)[p] - StakeLedger(l)[q]
                                 + StakeLedger(l)'[p] + StakeLedger(l)'[q]
<1>1. Claimed' = Claimed - positions[p].claimedAmount - positions[q].claimedAmount
                   + positions'[p].claimedAmount + positions'[q].claimedAmount
  <2> DEFINE f == ClaimedLedger
             g == ClaimedLedger'
  <2>1. (\A x \in PositionIds : f[x] \in Nat) /\ \A x \in PositionIds : g[x] \in Nat
    BY DEF Amounts, ClaimedLedger
  <2>2. \A x \in PositionIds \ {p, q} : g[x] = f[x]
    BY DEF ClaimedLedger
  <2>3. Total(g, PositionIds) = Total(f, PositionIds) - f[p] - f[q] + g[p] + g[q]
    <3> HIDE DEF f, g
    <3>1. QED
      BY <2>1, <2>2, PositionsFinite, TotalUpdateTwo
  <2>4. Claimed' = Claimed - f[p] - f[q] + g[p] + g[q]
    BY <2>3 DEF Claimed
  <2>5. \A x \in PositionIds : f[x] = positions[x].claimedAmount /\ g[x] = positions'[x].claimedAmount
    BY DEF ClaimedLedger
  <2> HIDE DEF f, g
  <2>6. QED
    BY <2>4, <2>5
<1>2. Principal' = Principal - positions[p].principalAmount - positions[q].principalAmount
                     + positions'[p].principalAmount + positions'[q].principalAmount
  <2> DEFINE f == PrincipalLedger
             g == PrincipalLedger'
  <2>1. (\A x \in PositionIds : f[x] \in Nat) /\ \A x \in PositionIds : g[x] \in Nat
    BY DEF Amounts, PrincipalLedger
  <2>2. \A x \in PositionIds \ {p, q} : g[x] = f[x]
    BY DEF PrincipalLedger
  <2>3. Total(g, PositionIds) = Total(f, PositionIds) - f[p] - f[q] + g[p] + g[q]
    <3> HIDE DEF f, g
    <3>1. QED
      BY <2>1, <2>2, PositionsFinite, TotalUpdateTwo
  <2>4. Principal' = Principal - f[p] - f[q] + g[p] + g[q]
    BY <2>3 DEF Principal
  <2>5. \A x \in PositionIds : f[x] = positions[x].principalAmount /\ g[x] = positions'[x].principalAmount
    BY DEF PrincipalLedger
  <2> HIDE DEF f, g
  <2>6. QED
    BY <2>4, <2>5
<1>3. ASSUME NEW CONSTANT l
      PROVE  Stake(l)' = Stake(l) - StakeLedger(l)[p] - StakeLedger(l)[q]
                           + StakeLedger(l)'[p] + StakeLedger(l)'[q]
  <2> DEFINE f == StakeLedger(l)
             g == StakeLedger(l)'
  <2>1. (\A x \in PositionIds : f[x] \in Nat) /\ \A x \in PositionIds : g[x] \in Nat
    BY DEF Amounts, StakeLedger
  <2>2. \A x \in PositionIds \ {p, q} : g[x] = f[x]
    BY DEF StakeLedger
  <2>3. Total(g, PositionIds) = Total(f, PositionIds) - f[p] - f[q] + g[p] + g[q]
    <3> HIDE DEF f, g
    <3>1. QED
      BY <2>1, <2>2, PositionsFinite, TotalUpdateTwo
  <2>4. QED
    BY <2>3 DEF Stake
<1>4. QED
  BY <1>1, <1>2, <1>3

-----------------------------------------------------------------------------
(* Steps that change one loan, or none, and no position. *)

LEMMA StakeOfUnopened ==
  ASSUME LedgerInv, NEW l \in Loans, loans[l].borrower = NoAddress
  PROVE  Stake(l) = 0
<1>1. \A p \in PositionIds : StakeLedger(l)[p] = 0
  BY DEF LedgerInv, PositionInv, StakeLedger
<1>2. QED
  BY <1>1, TotalZero DEF Stake

LEMMA SamePositions ==
  ASSUME Shape, LedgerInv, NEW l \in Loans, UNCHANGED positionVars,
         \A k \in Loans \ {l} : loans'[k] = loans[k],
         loans[l].borrower # NoAddress =>
           /\ loans'[l].borrower # NoAddress
           /\ loans'[l].state \in Unclaimed => loans[l].state \in Unclaimed,
         NEW p \in PositionIds
  PROVE  PositionInv(p)'
<1>1. positionOwner[p] # NoAddress => positions[p].loanId \in Loans
  BY DEF Shape, PositionShape
<1>2. PositionInv(p) /\ UNCHANGED <<nextPositionId, positions, positionOwner>>
  BY DEF LedgerInv, positionVars
<1>3. CASE positions[p].loanId = l
  BY <1>2, <1>3 DEF PositionInv
<1>4. CASE positions[p].loanId # l
  BY <1>1, <1>2, <1>4 DEF PositionInv
<1>5. QED
  BY <1>3, <1>4

(* Steps that leave what was claimed and what positions brought in as it is. *)
LEMMA LoanAccounted ==
  ASSUME Shape, Shape', Amounts, Amounts', UsdcAccounted, NEW l \in Loans,
         \A k \in Loans \ {l} : loans'[k] = loans[k],
         Claimed' = Claimed, Principal' = Principal,
         loanUsdc' + FeeLedger'[l] + DrawnLedger'[l] + CreditedLedger[l]
           = loanUsdc + FeeLedger[l] + DrawnLedger[l] + CreditedLedger'[l]
  PROVE  UsdcAccounted'
<1>1. /\ Fees' = Fees - FeeLedger[l] + FeeLedger'[l]
      /\ Drawn' = Drawn - DrawnLedger[l] + DrawnLedger'[l]
      /\ Credited' = Credited - CreditedLedger[l] + CreditedLedger'[l]
  BY LoanTotals
<1>2. /\ Fees \in Nat /\ Drawn \in Nat /\ Credited \in Nat
      /\ Claimed \in Nat /\ Principal \in Nat
  BY TotalsNat
<1>3. /\ FeeLedger[l] \in Nat /\ DrawnLedger[l] \in Nat /\ CreditedLedger[l] \in Nat
  BY LoanAmounts
<1>4. FeeLedger'[l] \in Nat /\ DrawnLedger'[l] \in Nat /\ CreditedLedger'[l] \in Nat
  BY DEF Shape, LoanShape, LoanRecords, Amounts, FeeLedger, DrawnLedger, CreditedLedger
<1>5. loanUsdc \in Nat /\ loanUsdc' \in Nat
  BY DEF Amounts
<1>6. loanUsdc + Claimed + Fees + Drawn = Principal + Credited
  BY Accounted
<1>7. loanUsdc' + Claimed' + Fees' + Drawn' = Principal' + Credited'
  <2> DEFINE f == FeeLedger[l]
             f2 == FeeLedger'[l]
             d == DrawnLedger[l]
             d2 == DrawnLedger'[l]
             c == CreditedLedger[l]
             c2 == CreditedLedger'[l]
             usdc2 == loanUsdc'
  <2>1. /\ f \in Nat /\ f2 \in Nat /\ d \in Nat /\ d2 \in Nat /\ c \in Nat /\ c2 \in Nat
        /\ usdc2 \in Nat
    BY <1>3, <1>4, <1>5
  <2>2. usdc2 + f2 + d2 + c = loanUsdc + f + d + c2
    OBVIOUS
  <2>3. Fees' = Fees - f + f2 /\ Drawn' = Drawn - d + d2 /\ Credited' = Credited - c + c2
    BY <1>1
  <2> HIDE DEF f, f2, d, d2, c, c2, usdc2
  <2>4. usdc2 + Claimed + (Fees - f + f2) + (Drawn - d + d2) = Principal + (Credited - c + c2)
    BY <1>2, <1>5, <1>6, <2>1, <2>2
  <2>5. QED
    BY <2>3, <2>4 DEF usdc2
<1>8. QED
  BY <1>7 DEF UsdcAccounted, Claimed, Fees, Drawn, Principal, Credited

LEMMA OneLoanLedgerStep ==
  ASSUME Shape, Shape', LedgerInv, NEW l \in Loans, UNCHANGED positionVars,
         loanUsdc' \in Nat, loans'[l].feeClaimedAmount \in Nat,
         \A k \in Loans \ {l} : loans'[k] = loans[k],
         loans'[l].fundedAmount = loans[l].fundedAmount,
         loans[l].borrower # NoAddress =>
           /\ loans'[l].borrower # NoAddress
           /\ loans'[l].state \in Unclaimed => loans[l].state \in Unclaimed
           /\ loans[l].state = "Cancelled" => loans'[l].state = "Cancelled",
         loans'[l].state = "Funding" /\ loans'[l].borrower # NoAddress =>
           loans'[l].fundedAmount < loans'[l].principal,
         loanUsdc' + FeeLedger'[l] + DrawnLedger'[l] + CreditedLedger[l]
           = loanUsdc + FeeLedger[l] + DrawnLedger[l] + CreditedLedger'[l]
  PROVE  LedgerInv'
<1>1. UNCHANGED <<nextPositionId, positions, positionOwner>>
  BY DEF positionVars
<1>2. Amounts'
  BY <1>1 DEF LedgerInv, Amounts
<1>3. \A p \in PositionIds : PositionInv(p)'
  BY SamePositions
<1>4. \A k \in Loans : Stake(k)' = Stake(k)
  BY <1>1, SamePositionsTotals
<1>5. \A k \in Loans : FundedInv(k)'
  <2>1. ASSUME NEW k \in Loans \ {l} PROVE FundedInv(k)'
    BY <1>4 DEF LedgerInv, FundedInv
  <2>2. loans[l].borrower = NoAddress => loans[l].fundedAmount = Stake(l)
    BY StakeOfUnopened DEF LedgerInv, FundedInv
  <2>3. loans'[l].state # "Cancelled" => loans'[l].fundedAmount = Stake(l)'
    BY <1>4, <2>2 DEF LedgerInv, FundedInv
  <2>4. loans'[l].borrower = NoAddress => loans'[l].fundedAmount = 0
    BY DEF LedgerInv, FundedInv
  <2>5. FundedInv(l)'
    BY <2>3, <2>4 DEF FundedInv
  <2>6. QED
    BY <2>1, <2>5
<1>6. UsdcAccounted'
  <2>1. Claimed' = Claimed /\ Principal' = Principal
    BY <1>1, SamePositionsTotals
  <2>2. QED
    BY <1>2, <2>1, LoanAccounted DEF LedgerInv
<1>7. QED
  BY <1>2, <1>3, <1>5, <1>6 DEF LedgerInv

LEMMA NoLoanLedgerStep ==
  ASSUME LedgerInv, UNCHANGED <<loans, positionVars, loanUsdc>>
  PROVE  LedgerInv'
BY DEF LedgerInv, Amounts, PositionInv, FundedInv, Stake, StakeLedger, UsdcAccounted,
       ClaimedLedger, FeeLedger, DrawnLedger, PrincipalLedger, CreditedLedger, positionVars

(* What createLoan leaves of a loan. *)
LEMMA CreatedLoan ==
  ASSUME Shape, NEW u \in Users, NEW r \in LoanRequests, CreateLoan(u, r),
         NEW l \in Loans, l = nextLoanId
  PROVE  /\ loans'[l].borrower = u /\ loans'[l].state = "Funding"
         /\ loans'[l].principal = r.principal /\ r.principal > 0
         /\ loans'[l].fundedAmount = loans[l].fundedAmount
         /\ loans'[l].feeClaimedAmount = loans[l].feeClaimedAmount
         /\ loans'[l].creditedAmount = loans[l].creditedAmount
         /\ \A k \in Loans \ {l} : loans'[k] = loans[k]
<1>1. loans \in [Loans -> LoanRecords] /\ loans[l] \in LoanRecords
  BY DEF Shape, LoanShape
<1> DEFINE interest == (r.principal * r.interestBps) \div BasisPoints
<1> HIDE DEF interest
<1>2. loans' = [loans EXCEPT
        ![l].borrower = u, ![l].principal = r.principal, ![l].repaymentAmount = r.principal + interest,
        ![l].loanWithdrawFreezeDeadline = r.loanWithdrawFreezeDeadline,
        ![l].activationDeadline = r.activationDeadline,
        ![l].repaymentDeadline = r.repaymentDeadline,
        ![l].state = "Funding", ![l].feeBps = platformFeeBps,
        ![l].feeRecipient = platformFeeRecipient, ![l].collateralBps = r.collateralBps]
  BY DEF CreateLoan, interest
<1> DEFINE rec == [loans[l] EXCEPT
             !.borrower = u, !.principal = r.principal,
             !.repaymentAmount = r.principal + interest,
             !.loanWithdrawFreezeDeadline = r.loanWithdrawFreezeDeadline,
             !.activationDeadline = r.activationDeadline,
             !.repaymentDeadline = r.repaymentDeadline,
             !.state = "Funding", !.feeBps = platformFeeBps,
             !.feeRecipient = platformFeeRecipient, !.collateralBps = r.collateralBps]
<1>3. loans' = [loans EXCEPT ![l] = rec]
  BY <1>1, <1>2, ZenonT(40)
<1>4. /\ rec.borrower = u /\ rec.state = "Funding" /\ rec.principal = r.principal
      /\ rec.fundedAmount = loans[l].fundedAmount
      /\ rec.feeClaimedAmount = loans[l].feeClaimedAmount
      /\ rec.creditedAmount = loans[l].creditedAmount
  BY <1>1 DEF LoanRecords
<1>5. r.principal > 0
  BY DEF CreateLoan
<1> HIDE DEF rec
<1>6. QED
  BY <1>1, <1>3, <1>4, <1>5

LEMMA CreateLoanLedger ==
  ASSUME ControlInv, Shape', LedgerInv, NEW u \in Users, NEW r \in LoanRequests,
         CreateLoan(u, r)
  PROVE  LedgerInv'
<1>1. PICK l \in Loans : l = nextLoanId
  BY DEF CreateLoan
<1>2. /\ Shape /\ LoanInv(l) /\ loans \in [Loans -> LoanRecords]
      /\ loans[l] \in LoanRecords /\ u # NoAddress
  BY AccountsAssumption DEF ControlInv, Shape, LoanShape, Holders
<1>3. loans[l].borrower = NoAddress
  BY <1>1, <1>2 DEF CreateLoan, Market!CreateProtoMarket, LoanInv, AgreeInv
<1>4. loans[l].state \in {"Funding", "Cancelled"} /\ loans[l].fundedAmount = 0
  BY <1>2, <1>3 DEF LoanInv, StageInv, LedgerInv, FundedInv
<1>5. /\ loans'[l].borrower = u /\ loans'[l].state = "Funding"
      /\ loans'[l].principal = r.principal /\ r.principal > 0
      /\ loans'[l].fundedAmount = loans[l].fundedAmount
      /\ loans'[l].feeClaimedAmount = loans[l].feeClaimedAmount
      /\ loans'[l].creditedAmount = loans[l].creditedAmount
      /\ \A k \in Loans \ {l} : loans'[k] = loans[k]
  BY <1>1, <1>2, CreatedLoan
<1>6. UNCHANGED positionVars /\ loanUsdc' = loanUsdc
  BY DEF CreateLoan
<1>7. /\ FeeLedger'[l] = FeeLedger[l] /\ DrawnLedger'[l] = DrawnLedger[l]
      /\ CreditedLedger'[l] = CreditedLedger[l]
  BY <1>4, <1>5 DEF FeeLedger, DrawnLedger, CreditedLedger
<1>8. /\ FeeLedger[l] \in Nat /\ DrawnLedger[l] \in Nat /\ CreditedLedger[l] \in Nat
      /\ loans[l].feeClaimedAmount \in Nat /\ loanUsdc \in Nat
  BY <1>2, LoanAmounts DEF LedgerInv, Amounts
<1>9. loanUsdc' + FeeLedger'[l] + DrawnLedger'[l] + CreditedLedger[l]
        = loanUsdc + FeeLedger[l] + DrawnLedger[l] + CreditedLedger'[l]
  BY <1>6, <1>7, <1>8
<1>10. QED
  BY <1>2, <1>3, <1>4, <1>5, <1>6, <1>8, <1>9, OneLoanLedgerStep

(* Settlement and cancellation change no amount. *)
LEMMA StageLedger ==
  ASSUME Shape, Shape', LedgerInv, NEW l \in Loans, NEW from \in LoanState, NEW to \in LoanState,
         loans[l].state = from, loans' = [loans EXCEPT ![l].state = to],
         UNCHANGED <<positionVars, loanUsdc>>,
         \/ from = "Active" /\ to \in {"Repaid", "Defaulted"}
         \/ from \in {"Funding", "Funded"} /\ to = "Cancelled"
  PROVE  LedgerInv'
<1>1. loans \in [Loans -> LoanRecords] /\ loans[l] \in LoanRecords
  BY DEF Shape, LoanShape
<1>2. /\ loans'[l].borrower = loans[l].borrower /\ loans'[l].state = to
      /\ loans'[l].principal = loans[l].principal
      /\ loans'[l].fundedAmount = loans[l].fundedAmount
      /\ loans'[l].feeClaimedAmount = loans[l].feeClaimedAmount
      /\ loans'[l].creditedAmount = loans[l].creditedAmount
      /\ \A k \in Loans \ {l} : loans'[k] = loans[k]
  BY <1>1 DEF LoanRecords
<1>3. /\ FeeLedger'[l] = FeeLedger[l] /\ DrawnLedger'[l] = DrawnLedger[l]
      /\ CreditedLedger'[l] = CreditedLedger[l]
  BY <1>2 DEF FeeLedger, DrawnLedger, CreditedLedger
<1>4. /\ FeeLedger[l] \in Nat /\ DrawnLedger[l] \in Nat /\ CreditedLedger[l] \in Nat
      /\ loans[l].feeClaimedAmount \in Nat /\ loanUsdc \in Nat
  BY LoanAmounts DEF LedgerInv, Amounts
<1>5. loanUsdc' + FeeLedger'[l] + DrawnLedger'[l] + CreditedLedger[l]
        = loanUsdc + FeeLedger[l] + DrawnLedger[l] + CreditedLedger'[l]
  BY <1>3, <1>4
<1>6. loans'[l].state \in Unclaimed => loans[l].state \in Unclaimed
  BY <1>2 DEF Unclaimed
<1>7. QED
  BY <1>2, <1>4, <1>5, <1>6, OneLoanLedgerStep

LEMMA SettleLedger ==
  ASSUME Shape, Shape', LedgerInv, NEW l \in Loans,
         SettleRepaid(l) \/ CancelExpiredLoan(l) \/ MarkDefaulted(l)
  PROVE  LedgerInv'
<1>1. CASE SettleRepaid(l)
  BY <1>1, StageLedger DEF SettleRepaid, LoanState
<1>2. CASE CancelExpiredLoan(l)
  BY <1>2, StageLedger DEF CancelExpiredLoan, LoanState
<1>3. CASE MarkDefaulted(l)
  BY <1>3, StageLedger DEF MarkDefaulted, LoanState
<1>4. QED
  BY <1>1, <1>2, <1>3

(* A payment, or redeemed collateral. *)
LEMMA CreditLedger ==
  ASSUME Shape, Shape', LedgerInv, NEW l \in Loans, NEW amount \in Nat,
         UNCHANGED positionVars, loanUsdc' = loanUsdc + amount,
         \A k \in Loans \ {l} : loans'[k] = loans[k],
         loans'[l].borrower = loans[l].borrower, loans'[l].state = loans[l].state,
         loans'[l].principal = loans[l].principal,
         loans'[l].fundedAmount = loans[l].fundedAmount,
         loans'[l].feeClaimedAmount = loans[l].feeClaimedAmount,
         loans'[l].creditedAmount = loans[l].creditedAmount + amount
  PROVE  LedgerInv'
<1>1. /\ FeeLedger[l] \in Nat /\ DrawnLedger[l] \in Nat /\ CreditedLedger[l] \in Nat
      /\ loans[l].feeClaimedAmount \in Nat /\ loanUsdc \in Nat
      /\ CreditedLedger[l] = loans[l].creditedAmount
  BY LoanAmounts DEF LedgerInv, Amounts
<1>2. /\ FeeLedger'[l] = FeeLedger[l] /\ DrawnLedger'[l] = DrawnLedger[l]
      /\ CreditedLedger'[l] = CreditedLedger[l] + amount
  BY <1>1 DEF FeeLedger, DrawnLedger, CreditedLedger
<1>3. loanUsdc' + FeeLedger'[l] + DrawnLedger'[l] + CreditedLedger[l]
        = loanUsdc + FeeLedger[l] + DrawnLedger[l] + CreditedLedger'[l]
  BY <1>1, <1>2
<1>4. loanUsdc' \in Nat /\ loans'[l].feeClaimedAmount \in Nat
  BY <1>1
<1>5. loans'[l].state = "Funding" /\ loans'[l].borrower # NoAddress =>
        loans'[l].fundedAmount < loans'[l].principal
  BY DEF LedgerInv, FundedInv
<1>6. QED
  BY <1>3, <1>4, <1>5, OneLoanLedgerStep

LEMMA DepositLedger ==
  ASSUME Shape, Shape', LedgerInv, NEW l \in Loans, NEW a \in PayAmounts, DepositToLoan(l, a)
  PROVE  LedgerInv'
<1>1. a \in Nat /\ loans \in [Loans -> LoanRecords] /\ loans[l] \in LoanRecords
  BY InputsAssumption DEF Shape, LoanShape
<1>2. UNCHANGED positionVars /\ loanUsdc' = loanUsdc + a
  BY DEF DepositToLoan
<1>3. PICK t : loans' = [loans EXCEPT ![l].creditedAmount = @ + a, ![l].repaymentSatisfiedAt = t]
  BY <1>1 DEF DepositToLoan
<1>4. /\ \A k \in Loans \ {l} : loans'[k] = loans[k]
      /\ loans'[l].borrower = loans[l].borrower /\ loans'[l].state = loans[l].state
      /\ loans'[l].principal = loans[l].principal
      /\ loans'[l].fundedAmount = loans[l].fundedAmount
      /\ loans'[l].feeClaimedAmount = loans[l].feeClaimedAmount
      /\ loans'[l].creditedAmount = loans[l].creditedAmount + a
  BY <1>1, <1>3 DEF LoanRecords
<1>5. QED
  BY <1>1, <1>2, <1>4, CreditLedger

LEMMA RedeemLedger ==
  ASSUME Shape, Shape', LedgerInv, Market!TypeOK, NEW l \in Loans, RedeemDefaultCollateral(l)
  PROVE  LedgerInv'
<1> DEFINE amount == balanceOf[Market!NoTokenId(l)][LoanContract]
<1>1. amount \in Nat
  BY DEF Market!TypeOK, Market!NoTokenId, Market!TokenIds, Market!Outcome, Market!Holders
<1>2. loans \in [Loans -> LoanRecords] /\ loans[l] \in LoanRecords
  BY DEF Shape, LoanShape
<1>3. UNCHANGED positionVars /\ loanUsdc' = loanUsdc + amount
  BY DEF RedeemDefaultCollateral
<1>4. loans' = [loans EXCEPT ![l].creditedAmount = @ + amount]
  BY DEF RedeemDefaultCollateral
<1> HIDE DEF amount
<1>5. /\ \A k \in Loans \ {l} : loans'[k] = loans[k]
      /\ loans'[l].borrower = loans[l].borrower /\ loans'[l].state = loans[l].state
      /\ loans'[l].principal = loans[l].principal
      /\ loans'[l].fundedAmount = loans[l].fundedAmount
      /\ loans'[l].feeClaimedAmount = loans[l].feeClaimedAmount
      /\ loans'[l].creditedAmount = loans[l].creditedAmount + amount
  BY <1>2, <1>4 DEF LoanRecords
<1>6. QED
  BY <1>1, <1>3, <1>5, CreditLedger

LEMMA ActivateLedger ==
  ASSUME Shape, Shape', LedgerInv, NEW l \in Loans, Activate(l)
  PROVE  LedgerInv'
<1>1. loans \in [Loans -> LoanRecords] /\ loans[l] \in LoanRecords
  BY DEF Shape, LoanShape
<1>2. /\ UNCHANGED positionVars /\ loans[l].state = "Funded"
      /\ loans[l].principal <= loanUsdc /\ loanUsdc' = loanUsdc - loans[l].principal
      /\ loans' = [loans EXCEPT ![l].state = "Active"]
  BY DEF Activate
<1>3. /\ \A k \in Loans \ {l} : loans'[k] = loans[k]
      /\ loans'[l].borrower = loans[l].borrower /\ loans'[l].state = "Active"
      /\ loans'[l].principal = loans[l].principal
      /\ loans'[l].fundedAmount = loans[l].fundedAmount
      /\ loans'[l].feeClaimedAmount = loans[l].feeClaimedAmount
      /\ loans'[l].creditedAmount = loans[l].creditedAmount
  BY <1>1, <1>2 DEF LoanRecords
<1>4. /\ FeeLedger[l] \in Nat /\ CreditedLedger[l] \in Nat /\ DrawnLedger[l] = 0
      /\ loans[l].feeClaimedAmount \in Nat /\ loanUsdc \in Nat /\ loans[l].principal \in Nat
  BY <1>1, <1>2, LoanAmounts DEF LedgerInv, Amounts, LoanRecords
<1>5. /\ FeeLedger'[l] = FeeLedger[l] /\ DrawnLedger'[l] = loans[l].principal
      /\ CreditedLedger'[l] = CreditedLedger[l]
  BY <1>3 DEF FeeLedger, DrawnLedger, CreditedLedger
<1>6. loanUsdc' + FeeLedger'[l] + DrawnLedger'[l] + CreditedLedger[l]
        = loanUsdc + FeeLedger[l] + DrawnLedger[l] + CreditedLedger'[l]
  BY <1>2, <1>4, <1>5
<1>7. loanUsdc' \in Nat /\ loans'[l].feeClaimedAmount \in Nat
  BY <1>2, <1>3, <1>4
<1>8. loans'[l].state \in Unclaimed => loans[l].state \in Unclaimed
  BY <1>2 DEF Unclaimed
<1>9. QED
  BY <1>2, <1>3, <1>6, <1>7, <1>8, OneLoanLedgerStep

LEMMA ClaimPlatformFeeLedger ==
  ASSUME Shape, Shape', LedgerInv, NEW l \in Loans, NEW caller, ClaimPlatformFee(l, caller)
  PROVE  LedgerInv'
<1> DEFINE amount == TotalProtocolFee(l) - loans[l].feeClaimedAmount
<1>1. loans \in [Loans -> LoanRecords] /\ loans[l] \in LoanRecords
  BY DEF Shape, LoanShape
<1>2. /\ UNCHANGED positionVars /\ amount > 0 /\ amount <= loanUsdc
      /\ loans' = [loans EXCEPT ![l].feeClaimedAmount = @ + amount]
      /\ loanUsdc' = loanUsdc - amount
  BY DEF ClaimPlatformFee
<1>3. amount \in Int
  BY <1>1, FeeInt DEF LoanRecords
<1> HIDE DEF amount
<1>4. /\ \A k \in Loans \ {l} : loans'[k] = loans[k]
      /\ loans'[l].borrower = loans[l].borrower /\ loans'[l].state = loans[l].state
      /\ loans'[l].principal = loans[l].principal
      /\ loans'[l].fundedAmount = loans[l].fundedAmount
      /\ loans'[l].feeClaimedAmount = loans[l].feeClaimedAmount + amount
      /\ loans'[l].creditedAmount = loans[l].creditedAmount
  BY <1>1, <1>2 DEF LoanRecords
<1>5. /\ FeeLedger[l] \in Nat /\ DrawnLedger[l] \in Nat /\ CreditedLedger[l] \in Nat
      /\ loans[l].feeClaimedAmount \in Nat /\ loanUsdc \in Nat
      /\ FeeLedger[l] = loans[l].feeClaimedAmount
  BY LoanAmounts DEF LedgerInv, Amounts
<1>6. /\ FeeLedger'[l] = FeeLedger[l] + amount /\ DrawnLedger'[l] = DrawnLedger[l]
      /\ CreditedLedger'[l] = CreditedLedger[l]
  BY <1>4, <1>5 DEF FeeLedger, DrawnLedger, CreditedLedger
<1>7. loanUsdc' + FeeLedger'[l] + DrawnLedger'[l] + CreditedLedger[l]
        = loanUsdc + FeeLedger[l] + DrawnLedger[l] + CreditedLedger'[l]
  BY <1>2, <1>3, <1>5, <1>6
<1>8. loanUsdc' \in Nat /\ loans'[l].feeClaimedAmount \in Nat
  BY <1>2, <1>3, <1>4, <1>5
<1>9. loans'[l].state = "Funding" /\ loans'[l].borrower # NoAddress =>
        loans'[l].fundedAmount < loans'[l].principal
  BY <1>4 DEF LedgerInv, FundedInv
<1>10. QED
  BY <1>2, <1>4, <1>7, <1>8, <1>9, OneLoanLedgerStep

-----------------------------------------------------------------------------
(* Steps that change positions. *)

(* One position that changes alone. *)
LEMMA PositionTotal ==
  ASSUME Amounts, Amounts', NEW p \in PositionIds,
         \A x \in PositionIds \ {p} :
           positions'[x] = positions[x] /\ positionOwner'[x] = positionOwner[x]
  PROVE  /\ Claimed' = Claimed - positions[p].claimedAmount + positions'[p].claimedAmount
         /\ Principal' = Principal - positions[p].principalAmount + positions'[p].principalAmount
         /\ \A l : Stake(l)' = Stake(l) - StakeLedger(l)[p] + StakeLedger(l)'[p]
<1>1. Claimed' = Claimed - positions[p].claimedAmount + positions'[p].claimedAmount
  <2> DEFINE f == ClaimedLedger
             g == ClaimedLedger'
  <2>1. (\A x \in PositionIds : f[x] \in Nat) /\ g[p] \in Nat
    BY DEF Amounts, ClaimedLedger
  <2>2. \A x \in PositionIds \ {p} : g[x] = f[x]
    BY DEF ClaimedLedger
  <2>3. Total(g, PositionIds) = Total(f, PositionIds) - f[p] + g[p]
    <3> HIDE DEF f, g
    <3>1. QED
      BY <2>1, <2>2, PositionsFinite, TotalUpdate
  <2>4. Claimed' = Claimed - f[p] + g[p]
    BY <2>3 DEF Claimed
  <2>5. f[p] = positions[p].claimedAmount /\ g[p] = positions'[p].claimedAmount
    BY DEF ClaimedLedger
  <2> HIDE DEF f, g
  <2>6. QED
    BY <2>4, <2>5
<1>2. Principal' = Principal - positions[p].principalAmount + positions'[p].principalAmount
  <2> DEFINE f == PrincipalLedger
             g == PrincipalLedger'
  <2>1. (\A x \in PositionIds : f[x] \in Nat) /\ g[p] \in Nat
    BY DEF Amounts, PrincipalLedger
  <2>2. \A x \in PositionIds \ {p} : g[x] = f[x]
    BY DEF PrincipalLedger
  <2>3. Total(g, PositionIds) = Total(f, PositionIds) - f[p] + g[p]
    <3> HIDE DEF f, g
    <3>1. QED
      BY <2>1, <2>2, PositionsFinite, TotalUpdate
  <2>4. Principal' = Principal - f[p] + g[p]
    BY <2>3 DEF Principal
  <2>5. f[p] = positions[p].principalAmount /\ g[p] = positions'[p].principalAmount
    BY DEF PrincipalLedger
  <2> HIDE DEF f, g
  <2>6. QED
    BY <2>4, <2>5
<1>3. ASSUME NEW CONSTANT l
      PROVE  Stake(l)' = Stake(l) - StakeLedger(l)[p] + StakeLedger(l)'[p]
  <2> DEFINE f == StakeLedger(l)
             g == StakeLedger(l)'
  <2>1. (\A x \in PositionIds : f[x] \in Nat) /\ g[p] \in Nat
    BY DEF Amounts, StakeLedger
  <2>2. \A x \in PositionIds \ {p} : g[x] = f[x]
    BY DEF StakeLedger
  <2>3. Total(g, PositionIds) = Total(f, PositionIds) - f[p] + g[p]
    <3> HIDE DEF f, g
    <3>1. QED
      BY <2>1, <2>2, PositionsFinite, TotalUpdate
  <2>4. QED
    BY <2>3 DEF Stake
<1>4. QED
  BY <1>1, <1>2, <1>3

LEMMA TransferPositionLedger ==
  ASSUME Shape, LedgerInv, NEW p \in PositionIds, NEW u \in Users, NEW to \in Holders,
         TransferPosition(p, u, to)
  PROVE  LedgerInv'
<1>1. /\ UNCHANGED <<loans, nextPositionId, positions, loanUsdc>>
      /\ positionOwner' = [positionOwner EXCEPT ![p] = to]
      /\ positionOwner[p] = u /\ u # NoAddress /\ to # NoAddress
  BY AccountsAssumption DEF TransferPosition, Holders
<1>2. \A x \in PositionIds : positionOwner'[x] = NoAddress <=> positionOwner[x] = NoAddress
  BY <1>1 DEF Shape, PositionShape
<1>3. Amounts'
  BY <1>1 DEF LedgerInv, Amounts
<1>4. \A x \in PositionIds : PositionInv(x)'
  BY <1>1, <1>2 DEF LedgerInv, PositionInv
<1>5. \A l : StakeLedger(l)' = StakeLedger(l)
  BY <1>1, <1>2 DEF StakeLedger
<1>6. \A l \in Loans : FundedInv(l)'
  BY <1>1, <1>5 DEF LedgerInv, FundedInv, Stake
<1>7. UsdcAccounted'
  BY <1>1
  DEF LedgerInv, UsdcAccounted, ClaimedLedger, FeeLedger, DrawnLedger, PrincipalLedger,
      CreditedLedger
<1>8. QED
  BY <1>3, <1>4, <1>6, <1>7 DEF LedgerInv

(* Steps that leave fees, what is drawn and what is credited as they are. *)
LEMMA PositionsAccounted ==
  ASSUME Shape, Shape', LedgerInv, Amounts',
         Fees' = Fees, Drawn' = Drawn, Credited' = Credited,
         loanUsdc' + Claimed' + Principal = loanUsdc + Claimed + Principal'
  PROVE  UsdcAccounted'
<1>1. /\ Fees \in Int /\ Drawn \in Int /\ Credited \in Int
      /\ Claimed \in Int /\ Principal \in Int /\ loanUsdc \in Int
  BY TotalsNat DEF LedgerInv, Amounts
<1>2. Claimed' \in Int /\ Principal' \in Int /\ loanUsdc' \in Int
  <2>1. \A p \in PositionIds : ClaimedLedger'[p] \in Nat /\ PrincipalLedger'[p] \in Nat
    BY DEF Amounts, ClaimedLedger, PrincipalLedger
  <2>2. Claimed' \in Nat /\ Principal' \in Nat
    BY <2>1, PositionsFinite, TotalNat DEF Claimed, Principal
  <2>3. QED
    BY <2>2 DEF Amounts
<1>3. loanUsdc + Claimed + Fees + Drawn = Principal + Credited
  BY Accounted DEF LedgerInv
<1>4. loanUsdc' + Claimed' + Fees + Drawn = Principal' + Credited
  <2> DEFINE usdc2 == loanUsdc'
             claimed2 == Claimed'
             principal2 == Principal'
  <2>1. usdc2 \in Int /\ claimed2 \in Int /\ principal2 \in Int
    BY <1>2
  <2>2. usdc2 + claimed2 + Principal = loanUsdc + Claimed + principal2
    OBVIOUS
  <2> HIDE DEF usdc2, claimed2, principal2
  <2>3. usdc2 + claimed2 + Fees + Drawn = principal2 + Credited
    BY <1>1, <1>3, <2>1, <2>2
  <2>4. QED
    BY <2>3 DEF usdc2, claimed2, principal2
<1>5. loanUsdc' + Claimed' + Fees' + Drawn' = Principal' + Credited'
  BY <1>4
<1>6. QED
  BY <1>5 DEF UsdcAccounted, Claimed, Fees, Drawn, Principal, Credited

LEMMA FundLedger ==
  ASSUME ControlInv, Shape', LedgerInv, NEW l \in Loans, NEW u \in Users, NEW a \in FundAmounts,
         Fund(l, u, a)
  PROVE  LedgerInv'
<1> DEFINE remaining == loans[l].principal - loans[l].fundedAmount
           accepted == IF a > remaining THEN remaining ELSE a
           stage == IF loans[l].fundedAmount + accepted = loans[l].principal
                    THEN "Funded" ELSE loans[l].state
<1>0. PICK p \in PositionIds : p = nextPositionId
  BY DEF Fund
<1>1. /\ Shape /\ LoanInv(l) /\ loans \in [Loans -> LoanRecords] /\ loans[l] \in LoanRecords
      /\ a \in Nat /\ a > 0 /\ u # NoAddress
  BY InputsAssumption, AccountsAssumption DEF ControlInv, Fund, Shape, LoanShape, Holders
<1>2. loans[l].borrower # NoAddress
  BY <1>1 DEF Fund, LoanInv, StageInv, Shape, AdminShape
<1>3. /\ loans[l].state = "Funding" /\ loans[l].fundedAmount = Stake(l)
      /\ loans[l].fundedAmount < loans[l].principal
      /\ loans[l].fundedAmount \in Nat /\ loans[l].principal \in Nat
  BY <1>1, <1>2 DEF Fund, LedgerInv, FundedInv, Amounts, LoanRecords
<1>4. accepted \in Nat /\ accepted > 0 /\ loans[l].fundedAmount + accepted <= loans[l].principal
  BY <1>1, <1>3
<1>5. /\ loans' = [loans EXCEPT ![l].fundedAmount = @ + accepted, ![l].state = stage]
      /\ loanUsdc' = loanUsdc + accepted
  BY DEF Fund
<1>6. /\ nextPositionId' = p + 1
      /\ positions' = [positions EXCEPT ![p] =
           [loanId |-> l, principalAmount |-> accepted, claimedAmount |-> 0, split |-> FALSE,
            splitAfterClaim |-> FALSE]]
      /\ positionOwner' = [positionOwner EXCEPT ![p] = u]
  BY <1>0 DEF Fund
<1>7. stage = IF loans[l].fundedAmount + accepted = loans[l].principal THEN "Funded" ELSE "Funding"
  BY <1>3
<1> HIDE DEF accepted, stage
<1>8. /\ \A k \in Loans \ {l} : loans'[k] = loans[k]
      /\ loans'[l].borrower = loans[l].borrower /\ loans'[l].state = stage
      /\ loans'[l].principal = loans[l].principal
      /\ loans'[l].fundedAmount = loans[l].fundedAmount + accepted
      /\ loans'[l].feeClaimedAmount = loans[l].feeClaimedAmount
      /\ loans'[l].creditedAmount = loans[l].creditedAmount
  BY <1>1, <1>5 DEF LoanRecords
<1>9. /\ positions'[p].loanId = l /\ positions'[p].principalAmount = accepted
      /\ positions'[p].claimedAmount = 0 /\ positionOwner'[p] = u
      /\ \A x \in PositionIds \ {p} :
           positions'[x] = positions[x] /\ positionOwner'[x] = positionOwner[x]
  BY <1>1, <1>6 DEF Shape, PositionShape
<1>10. /\ nextPositionId \in Nat /\ \A x \in PositionIds : x \in Nat
       /\ positionOwner[p] = NoAddress
       /\ positions[p].principalAmount = 0 /\ positions[p].claimedAmount = 0
  BY <1>0, <1>1 DEF LedgerInv, Amounts, PositionInv, PositionIds
<1>11. Amounts'
  <2>1. nextPositionId' \in Nat /\ loanUsdc' \in Nat
    BY <1>4, <1>5, <1>6, <1>10 DEF LedgerInv, Amounts
  <2>2. \A x \in PositionIds :
          positions'[x].principalAmount \in Nat /\ positions'[x].claimedAmount \in Nat
    BY <1>4, <1>9 DEF LedgerInv, Amounts
  <2>3. \A k \in Loans : loans'[k].fundedAmount \in Nat /\ loans'[k].feeClaimedAmount \in Nat
    BY <1>3, <1>4, <1>8 DEF LedgerInv, Amounts
  <2>4. QED
    BY <2>1, <2>2, <2>3 DEF Amounts
<1>12. \A x \in PositionIds : PositionInv(x)'
  <2>1. ASSUME NEW x \in PositionIds \ {p} PROVE PositionInv(x)'
    <3>1. PositionInv(x) /\ (x >= nextPositionId' => x >= nextPositionId)
      BY <1>0, <1>6, <1>10 DEF LedgerInv
    <3>2. positionOwner[x] # NoAddress => positions[x].loanId \in Loans
      BY <1>1 DEF Shape, PositionShape
    <3>3. loans[l].state \in Unclaimed
      BY <1>3 DEF Unclaimed
    <3>4. QED
      BY <1>8, <1>9, <3>1, <3>2, <3>3 DEF PositionInv
  <2>2. PositionInv(p)'
    BY <1>0, <1>1, <1>2, <1>6, <1>8, <1>9, <1>10 DEF PositionInv
  <2>3. QED
    BY <1>1, <2>1, <2>2
<1>13. \A k \in Loans : FundedInv(k)'
  <2>1. \A k : Stake(k)' = Stake(k) - StakeLedger(k)[p] + StakeLedger(k)'[p]
    BY <1>1, <1>9, <1>11, PositionTotal DEF LedgerInv
  <2>2. \A k : StakeLedger(k)[p] = 0
    BY <1>1, <1>10 DEF StakeLedger
  <2>3. ASSUME NEW k \in Loans \ {l} PROVE FundedInv(k)'
    <3>1. StakeLedger(k)'[p] = 0
      BY <1>1, <1>9 DEF StakeLedger
    <3>2. Stake(k) \in Nat
      BY StakeNat DEF LedgerInv
    <3>3. Stake(k)' = Stake(k)
      BY <2>1, <2>2, <3>1, <3>2
    <3>4. QED
      BY <1>8, <3>3 DEF LedgerInv, FundedInv
  <2>4. FundedInv(l)'
    <3>1. StakeLedger(l)'[p] = accepted
      BY <1>1, <1>9 DEF StakeLedger
    <3>2. Stake(l)' = Stake(l) + accepted
      BY <1>3, <1>4, <2>1, <2>2, <3>1
    <3>3. loans'[l].fundedAmount = Stake(l)'
      BY <1>3, <1>8, <3>2
    <3>4. loans'[l].state = "Funding" => loans'[l].fundedAmount < loans'[l].principal
      BY <1>3, <1>4, <1>7, <1>8
    <3>5. QED
      BY <1>2, <1>8, <3>3, <3>4 DEF FundedInv
  <2>5. QED
    BY <2>3, <2>4
<1>14. UsdcAccounted'
  <2>1. /\ Fees' = Fees - FeeLedger[l] + FeeLedger'[l]
        /\ Drawn' = Drawn - DrawnLedger[l] + DrawnLedger'[l]
        /\ Credited' = Credited - CreditedLedger[l] + CreditedLedger'[l]
    BY <1>1, <1>8, <1>11, LoanTotals DEF LedgerInv
  <2>2. /\ FeeLedger'[l] = FeeLedger[l] /\ DrawnLedger'[l] = DrawnLedger[l]
        /\ CreditedLedger'[l] = CreditedLedger[l]
    BY <1>3, <1>7, <1>8 DEF FeeLedger, DrawnLedger, CreditedLedger
  <2>3. FeeLedger[l] \in Nat /\ DrawnLedger[l] \in Nat /\ CreditedLedger[l] \in Nat
    BY <1>1, LoanAmounts DEF LedgerInv
  <2>4. /\ Fees \in Nat /\ Drawn \in Nat /\ Credited \in Nat
        /\ Claimed \in Nat /\ Principal \in Nat /\ loanUsdc \in Nat
    BY <1>1, TotalsNat DEF LedgerInv, Amounts
  <2>5. Fees' = Fees /\ Drawn' = Drawn /\ Credited' = Credited
    BY <2>1, <2>2, <2>3, <2>4
  <2>6. /\ Claimed' = Claimed - positions[p].claimedAmount + positions'[p].claimedAmount
        /\ Principal' = Principal - positions[p].principalAmount + positions'[p].principalAmount
    BY <1>1, <1>9, <1>11, PositionTotal DEF LedgerInv
  <2>7. Claimed' = Claimed /\ Principal' = Principal + accepted
    BY <1>4, <1>9, <1>10, <2>4, <2>6
  <2>8. loanUsdc' + Claimed' + Principal = loanUsdc + Claimed + Principal'
    BY <1>4, <1>5, <2>4, <2>7
  <2>9. QED
    BY <1>1, <1>11, <2>5, <2>8, PositionsAccounted
<1>15. QED
  BY <1>11, <1>12, <1>13, <1>14 DEF LedgerInv

LEMMA ClaimFundingPrincipalLedger ==
  ASSUME ControlInv, Shape', LedgerInv, NEW p \in PositionIds, NEW u \in Users,
         ClaimFundingPrincipal(p, u)
  PROVE  LedgerInv'
<1>1. PICK l \in Loans : l = positions[p].loanId
  BY AccountsAssumption
  DEF ControlInv, Shape, PositionShape, ClaimFundingPrincipal, Holders
<1> DEFINE amount == positions[p].principalAmount - positions[p].claimedAmount
<1>2. /\ Shape /\ LoanInv(l) /\ loans \in [Loans -> LoanRecords] /\ loans[l] \in LoanRecords
      /\ positions[p] \in PositionRecords /\ Amounts /\ PositionInv(p)
      /\ FundedInv(l)
  BY DEF ControlInv, Shape, LoanShape, PositionShape, LedgerInv
<1>3. /\ loans[l].state \in {"Funding", "Funded"} /\ positionOwner[p] # NoAddress
      /\ amount <= loanUsdc /\ loanUsdc' = loanUsdc - amount
      /\ positions' = [positions EXCEPT ![p].claimedAmount = @ + amount]
      /\ loans' = [loans EXCEPT ![l].fundedAmount = @ - amount, ![l].state = "Funding"]
      /\ positionOwner' = [positionOwner EXCEPT ![p] = NoAddress]
      /\ nextPositionId' = nextPositionId
  BY <1>1, AccountsAssumption DEF ClaimFundingPrincipal, Holders
<1>4. /\ positions[p].claimedAmount = 0 /\ loans[l].borrower # NoAddress
      /\ amount = positions[p].principalAmount /\ amount \in Nat /\ loanUsdc \in Nat
  BY <1>1, <1>2, <1>3 DEF PositionInv, Unclaimed, Amounts
<1> HIDE DEF amount
<1>5. /\ \A k \in Loans \ {l} : loans'[k] = loans[k]
      /\ loans'[l].borrower = loans[l].borrower /\ loans'[l].state = "Funding"
      /\ loans'[l].principal = loans[l].principal
      /\ loans'[l].fundedAmount = loans[l].fundedAmount - amount
      /\ loans'[l].feeClaimedAmount = loans[l].feeClaimedAmount
      /\ loans'[l].creditedAmount = loans[l].creditedAmount
  BY <1>2, <1>3 DEF LoanRecords
<1>6. /\ \A x \in PositionIds \ {p} :
           positions'[x] = positions[x] /\ positionOwner'[x] = positionOwner[x]
      /\ \A x \in PositionIds : positions'[x].loanId = positions[x].loanId
      /\ positions'[p].principalAmount = positions[p].principalAmount
      /\ positions'[p].claimedAmount = amount /\ positionOwner'[p] = NoAddress
  BY <1>2, <1>3, <1>4 DEF Shape, PositionShape, PositionRecords
<1>7. /\ StakeLedger(l)[p] = amount /\ StakeLedger(l)'[p] = 0
      /\ \A k \in Loans \ {l} : StakeLedger(k)[p] = 0 /\ StakeLedger(k)'[p] = 0
  BY <1>1, <1>3, <1>4, <1>6 DEF StakeLedger
<1>8. Stake(l) \in Nat /\ amount <= Stake(l)
  <2>1. \A x \in PositionIds : StakeLedger(l)[x] \in Nat
    BY <1>2, StakeNat
  <2>2. StakeLedger(l)[p] <= Total(StakeLedger(l), PositionIds)
    BY <2>1, PositionsFinite, TotalBoundsEach
  <2>3. QED
    BY <1>2, <1>7, <2>2, StakeNat DEF Stake
<1>9. /\ loans[l].fundedAmount = Stake(l)
      /\ loans[l].fundedAmount <= loans[l].principal
      /\ loans[l].principal \in Nat
  BY <1>2, <1>3, <1>4 DEF FundedInv, LoanInv, StageInv, LoanRecords, Amounts
<1>10. Amounts'
  <2>1. nextPositionId' \in Nat /\ loanUsdc' \in Nat
    BY <1>2, <1>3, <1>4 DEF Amounts
  <2>2. \A x \in PositionIds :
          positions'[x].principalAmount \in Nat /\ positions'[x].claimedAmount \in Nat
    BY <1>2, <1>4, <1>6 DEF Amounts
  <2>3. loans'[l].fundedAmount \in Nat
    BY <1>4, <1>5, <1>8, <1>9
  <2>4. \A k \in Loans : loans'[k].fundedAmount \in Nat /\ loans'[k].feeClaimedAmount \in Nat
    BY <1>2, <1>5, <2>3 DEF Amounts
  <2>5. QED
    BY <2>1, <2>2, <2>4 DEF Amounts
<1>11. \A x \in PositionIds : PositionInv(x)'
  <2>1. ASSUME NEW x \in PositionIds \ {p} PROVE PositionInv(x)'
    <3>1. PositionInv(x) /\ (positionOwner[x] # NoAddress => positions[x].loanId \in Loans)
      BY <1>2 DEF LedgerInv, Shape, PositionShape
    <3>2. loans[l].state \in Unclaimed
      BY <1>3 DEF Unclaimed
    <3>3. /\ positions'[x] = positions[x] /\ positionOwner'[x] = positionOwner[x]
          /\ nextPositionId' = nextPositionId
      BY <1>3, <1>6
    <3>4. CASE positions[x].loanId = l
      BY <1>4, <1>5, <3>1, <3>2, <3>3, <3>4 DEF PositionInv
    <3>5. CASE positions[x].loanId # l
      BY <1>5, <3>1, <3>3, <3>5 DEF PositionInv
    <3>6. QED
      BY <3>4, <3>5
  <2>2. PositionInv(p)'
    BY <1>2, <1>3, <1>6 DEF PositionInv
  <2>3. QED
    BY <2>1, <2>2
<1>12. \A k \in Loans : FundedInv(k)'
  <2>1. \A k : Stake(k)' = Stake(k) - StakeLedger(k)[p] + StakeLedger(k)'[p]
    BY <1>2, <1>6, <1>10, PositionTotal
  <2>2. ASSUME NEW k \in Loans \ {l} PROVE FundedInv(k)'
    <3>1. Stake(k) \in Nat
      BY <1>2, StakeNat
    <3>2. Stake(k)' = Stake(k)
      BY <1>7, <2>1, <3>1
    <3>3. QED
      BY <1>5, <3>2 DEF LedgerInv, FundedInv
  <2>3. FundedInv(l)'
    <3>1. Stake(l)' = Stake(l) - amount
      BY <1>4, <1>7, <1>8, <2>1
    <3>2. loans'[l].fundedAmount = Stake(l)'
      BY <1>5, <1>9, <3>1
    <3>3. amount > 0
      BY DEF ClaimFundingPrincipal, amount
    <3>4. loans'[l].fundedAmount < loans'[l].principal
      BY <1>4, <1>5, <1>8, <1>9, <3>3
    <3>5. QED
      BY <1>4, <1>5, <3>2, <3>4 DEF FundedInv
  <2>4. QED
    BY <2>2, <2>3
<1>13. UsdcAccounted'
  <2>1. /\ Fees' = Fees - FeeLedger[l] + FeeLedger'[l]
        /\ Drawn' = Drawn - DrawnLedger[l] + DrawnLedger'[l]
        /\ Credited' = Credited - CreditedLedger[l] + CreditedLedger'[l]
    BY <1>2, <1>5, <1>10, LoanTotals
  <2>2. /\ FeeLedger'[l] = FeeLedger[l] /\ DrawnLedger'[l] = DrawnLedger[l]
        /\ CreditedLedger'[l] = CreditedLedger[l]
    BY <1>3, <1>5 DEF FeeLedger, DrawnLedger, CreditedLedger
  <2>3. FeeLedger[l] \in Nat /\ DrawnLedger[l] \in Nat /\ CreditedLedger[l] \in Nat
    BY <1>2, LoanAmounts
  <2>4. /\ Fees \in Nat /\ Drawn \in Nat /\ Credited \in Nat
        /\ Claimed \in Nat /\ Principal \in Nat
    BY <1>2, TotalsNat
  <2>5. Fees' = Fees /\ Drawn' = Drawn /\ Credited' = Credited
    BY <2>1, <2>2, <2>3, <2>4
  <2>6. /\ Claimed' = Claimed - positions[p].claimedAmount + positions'[p].claimedAmount
        /\ Principal' = Principal - positions[p].principalAmount + positions'[p].principalAmount
    BY <1>2, <1>6, <1>10, PositionTotal
  <2>7. Claimed' = Claimed + amount /\ Principal' = Principal
    BY <1>4, <1>6, <2>4, <2>6
  <2>8. loanUsdc' + Claimed' + Principal = loanUsdc + Claimed + Principal'
    BY <1>3, <1>4, <2>4, <2>7
  <2>9. QED
    BY <1>2, <1>10, <2>5, <2>8, PositionsAccounted
<1>14. QED
  BY <1>10, <1>11, <1>12, <1>13 DEF LedgerInv

LEMMA EntitlementInt ==
  ASSUME Shape, NEW p \in PositionIds, NEW l \in Loans, l = positions[p].loanId, LoanInv(l),
         loans[l].state \in {"Cancelled", "Repaid", "Defaulted"}
  PROVE  TotalEntitlement(p) \in Int
<1> DEFINE pr == positions[p].principalAmount
           pool == LenderPayoutPool(l)
<1>1. loans[l] \in LoanRecords /\ pr \in Int
  BY DEF Shape, LoanShape, PositionShape, PositionRecords
<1>2. CASE loans[l].state = "Cancelled"
  BY <1>1, <1>2 DEF TotalEntitlement
<1>3. CASE loans[l].state \in {"Repaid", "Defaulted"}
  <2>1. pool \in Int
    BY <1>1, FeeInt DEF LenderPayoutPool, LoanRecords
  <2>2. loans[l].fundedAmount \in Int /\ loans[l].fundedAmount > 0
    BY <1>1, <1>3 DEF LoanInv, StageInv, LoanRecords
  <2>3. TotalEntitlement(p) = (pool * pr) \div loans[l].fundedAmount
    BY <1>3 DEF TotalEntitlement
  <2> HIDE DEF pool, pr
  <2>4. pool * pr \in Int
    BY <1>1, <2>1, ProductInt
  <2>5. QED
    BY <2>2, <2>3, <2>4
<1>4. QED
  BY <1>2, <1>3

LEMMA ClaimSettledLedger ==
  ASSUME ControlInv, Shape', LedgerInv, NEW p \in PositionIds, NEW u \in Users,
         ClaimSettled(p, u)
  PROVE  LedgerInv'
<1>1. PICK l \in Loans : l = positions[p].loanId
  BY AccountsAssumption DEF ControlInv, Shape, PositionShape, ClaimSettled, Holders
<1> DEFINE amount == TotalEntitlement(p) - positions[p].claimedAmount
<1>2. /\ Shape /\ positions[p] \in PositionRecords /\ Amounts /\ PositionInv(p)
  BY DEF ControlInv, Shape, PositionShape, LedgerInv
<1>3. /\ loans[l].state \in {"Cancelled", "Repaid", "Defaulted"} /\ positionOwner[p] # NoAddress
      /\ amount > 0 /\ amount <= loanUsdc /\ loanUsdc' = loanUsdc - amount
      /\ positions' = [positions EXCEPT ![p].claimedAmount = @ + amount]
      /\ positionOwner' = [positionOwner EXCEPT
            ![p] = IF loans[l].state = "Cancelled" THEN NoAddress ELSE @]
      /\ nextPositionId' = nextPositionId /\ loans' = loans
  BY <1>1, AccountsAssumption DEF ClaimSettled, Holders
<1>4. amount \in Nat /\ loanUsdc \in Nat /\ positions[p].claimedAmount \in Nat
  <2>1. TotalEntitlement(p) \in Int
    BY <1>1, <1>3, EntitlementInt DEF ControlInv
  <2>2. loanUsdc \in Nat /\ positions[p].claimedAmount \in Nat
    BY <1>2 DEF Amounts
  <2>3. QED
    BY <1>3, <2>1, <2>2
<1> HIDE DEF amount
<1>5. /\ \A x \in PositionIds \ {p} :
           positions'[x] = positions[x] /\ positionOwner'[x] = positionOwner[x]
      /\ \A x \in PositionIds : positions'[x].loanId = positions[x].loanId
      /\ positions'[p].principalAmount = positions[p].principalAmount
      /\ positions'[p].claimedAmount = positions[p].claimedAmount + amount
      /\ positionOwner'[p] = IF loans[l].state = "Cancelled" THEN NoAddress ELSE positionOwner[p]
  BY <1>2, <1>3 DEF Shape, PositionShape, PositionRecords
<1>6. Amounts'
  <2>1. nextPositionId' \in Nat /\ loanUsdc' \in Nat
    BY <1>2, <1>3, <1>4 DEF Amounts
  <2>2. \A x \in PositionIds :
          positions'[x].principalAmount \in Nat /\ positions'[x].claimedAmount \in Nat
    BY <1>2, <1>4, <1>5 DEF Amounts
  <2>3. QED
    BY <1>2, <1>3, <2>1, <2>2 DEF Amounts
<1>7. \A x \in PositionIds : PositionInv(x)'
  <2>1. ASSUME NEW x \in PositionIds \ {p} PROVE PositionInv(x)'
    BY <1>3, <1>5 DEF LedgerInv, PositionInv
  <2>2. PositionInv(p)'
    BY <1>1, <1>2, <1>3, <1>5 DEF PositionInv, Unclaimed
  <2>3. QED
    BY <2>1, <2>2
<1>8. \A k \in Loans : FundedInv(k)'
  <2>1. ASSUME NEW k \in Loans, loans[k].state # "Cancelled" PROVE Stake(k)' = Stake(k)
    <3>1. StakeLedger(k)'[p] = StakeLedger(k)[p]
      BY <1>1, <1>5, <2>1 DEF StakeLedger
    <3>2. Stake(k)' = Stake(k) - StakeLedger(k)[p] + StakeLedger(k)'[p]
      BY <1>2, <1>5, <1>6, PositionTotal
    <3>3. Stake(k) \in Nat /\ StakeLedger(k)[p] \in Nat
      BY <1>2, StakeNat
    <3>4. QED
      BY <3>1, <3>2, <3>3
  <2>2. QED
    BY <1>3, <2>1 DEF LedgerInv, FundedInv
<1>9. UsdcAccounted'
  <2>1. Fees' = Fees /\ Drawn' = Drawn /\ Credited' = Credited
    BY <1>3, SameLoansTotals
  <2>2. Claimed \in Nat /\ Principal \in Nat /\ positions[p].principalAmount \in Nat
    BY <1>2, TotalsNat DEF Amounts
  <2>3. /\ Claimed' = Claimed - positions[p].claimedAmount + positions'[p].claimedAmount
        /\ Principal' = Principal - positions[p].principalAmount + positions'[p].principalAmount
    BY <1>2, <1>5, <1>6, PositionTotal
  <2>4. Claimed' = Claimed + amount /\ Principal' = Principal
    BY <1>4, <1>5, <2>2, <2>3
  <2>5. loanUsdc' + Claimed' + Principal = loanUsdc + Claimed + Principal'
    BY <1>3, <1>4, <2>2, <2>4
  <2>6. QED
    BY <1>2, <1>6, <2>1, <2>5, PositionsAccounted
<1>10. QED
  BY <1>6, <1>7, <1>8, <1>9 DEF LedgerInv

LEMMA SplitShare ==
  ASSUME NEW c \in Nat, NEW part \in Nat, NEW whole \in Nat, part <= whole, whole > 0
  PROVE  /\ (c * part) \div whole \in Nat /\ (c * part) \div whole <= c
         /\ c = 0 => (c * part) \div whole = 0
<1>1. c * part <= whole * c
  BY ProductMonotone
<1>2. c * part \in Nat
  BY ProductNat
<1>3. (c * part) \div whole \in Nat
  BY <1>2, QuotientNat
<1>4. (c * part) \div whole <= c
  BY <1>1, <1>2, QuotientAtMost
<1>5. QED
  BY <1>3, <1>4

LEMMA SplitPositionLedger ==
  ASSUME ControlInv, Shape', LedgerInv, NEW p \in PositionIds, NEW u \in Users,
         NEW s \in SplitAmounts, SplitPosition(p, u, s)
  PROVE  LedgerInv'
<1>1. PICK q \in PositionIds : q = nextPositionId
  BY DEF SplitPosition
<1>2. PICK l \in Loans : l = positions[p].loanId
  BY AccountsAssumption DEF ControlInv, Shape, PositionShape, SplitPosition, Holders
<1> DEFINE pr == positions[p].principalAmount
           c == positions[p].claimedAmount
           part == SplitClaimedAmount(p, s)
<1>3. /\ Shape /\ Amounts /\ PositionInv(p) /\ PositionInv(q)
      /\ positions \in [PositionIds -> PositionRecords]
      /\ positionOwner \in [PositionIds -> Holders \cup {NoAddress}]
      /\ u # NoAddress /\ s \in Nat /\ pr \in Nat /\ c \in Nat
  BY InputsAssumption, AccountsAssumption
  DEF ControlInv, Shape, PositionShape, LedgerInv, Amounts, Holders
<1>4. /\ s > 0 /\ s < pr /\ positionOwner[p] = u
      /\ nextPositionId' = q + 1 /\ UNCHANGED <<loans, loanUsdc>>
      /\ positions' = [positions EXCEPT
           ![p].principalAmount = @ - s, ![p].claimedAmount = @ - part, ![p].split = TRUE,
           ![q] = [loanId |-> positions[p].loanId, principalAmount |-> s,
                   claimedAmount |-> part, split |-> TRUE,
                   splitAfterClaim |-> positions[p].claimedAmount > 0]]
      /\ positionOwner' = [positionOwner EXCEPT ![q] = u]
  BY <1>1 DEF SplitPosition
<1>5. part \in Nat /\ part <= c /\ (c = 0 => part = 0)
  <2>1. part = (c * s) \div pr
    BY DEF SplitClaimedAmount
  <2> HIDE DEF part, c, pr
  <2>2. s <= pr /\ pr > 0
    BY <1>3, <1>4
  <2>3. QED
    BY <1>3, <2>1, <2>2, SplitShare
<1> HIDE DEF part
<1>6. p # q /\ positionOwner[q] = NoAddress
      /\ positions[q].principalAmount = 0 /\ positions[q].claimedAmount = 0
  <2>1. q \in Nat /\ p \in Nat
    BY DEF PositionIds
  <2>2. positionOwner[q] = NoAddress
        /\ positions[q].principalAmount = 0 /\ positions[q].claimedAmount = 0
    BY <1>1, <1>3, <2>1 DEF PositionInv
  <2>3. QED
    BY <1>3, <1>4, <2>2
<1>7. /\ \A x \in PositionIds \ {p, q} :
           positions'[x] = positions[x] /\ positionOwner'[x] = positionOwner[x]
      /\ positions'[p].loanId = l /\ positions'[q].loanId = l
      /\ positions'[p].principalAmount = pr - s /\ positions'[p].claimedAmount = c - part
      /\ positions'[q].principalAmount = s /\ positions'[q].claimedAmount = part
      /\ positionOwner'[p] = u /\ positionOwner'[q] = u
  BY <1>2, <1>3, <1>4, <1>6 DEF PositionRecords
<1> HIDE DEF pr, c
<1>8. pr - s \in Nat /\ c - part \in Nat
  BY <1>3, <1>4, <1>5
<1>9. Amounts'
  <2>1. nextPositionId' \in Nat /\ loanUsdc' \in Nat
    BY <1>3, <1>4 DEF Amounts, PositionIds
  <2>2. \A x \in PositionIds :
          positions'[x].principalAmount \in Nat /\ positions'[x].claimedAmount \in Nat
    BY <1>3, <1>5, <1>7, <1>8 DEF Amounts
  <2>3. QED
    BY <1>3, <1>4, <2>1, <2>2 DEF Amounts
<1>10. \A x \in PositionIds : PositionInv(x)'
  <2>1. ASSUME NEW x \in PositionIds \ {p, q} PROVE PositionInv(x)'
    <3>1. PositionInv(x) /\ (x >= nextPositionId' => x >= nextPositionId)
      BY <1>1, <1>4 DEF LedgerInv, PositionIds
    <3>2. QED
      BY <1>4, <1>7, <3>1 DEF PositionInv
  <2>2. /\ loans[l].borrower # NoAddress
        /\ loans[l].state \in Unclaimed => c = 0
        /\ p < q
    <3>1. p \in Nat /\ q \in Nat
      BY DEF PositionIds
    <3>2. QED
      BY <1>1, <1>2, <1>3, <1>4, <3>1 DEF PositionInv, c
  <2>3. PositionInv(p)' /\ PositionInv(q)'
    <3>1. ~ (p >= q + 1) /\ ~ (q >= q + 1)
      BY <2>2 DEF PositionIds
    <3>2. loans[l].state \in Unclaimed => c - part = 0 /\ part = 0
      BY <1>5, <2>2
    <3>3. QED
      BY <1>3, <1>4, <1>7, <2>2, <3>1, <3>2 DEF PositionInv
  <2>4. QED
    BY <2>1, <2>3
<1>11. \A k \in Loans : FundedInv(k)'
  <2>1. ASSUME NEW k \in Loans PROVE Stake(k)' = Stake(k)
    <3>1. Stake(k)' = Stake(k) - StakeLedger(k)[p] - StakeLedger(k)[q]
                        + StakeLedger(k)'[p] + StakeLedger(k)'[q]
      BY <1>3, <1>6, <1>7, <1>9, PositionTotals
    <3>2. /\ StakeLedger(k)[p] = IF l = k THEN pr ELSE 0
          /\ StakeLedger(k)[q] = 0
      BY <1>2, <1>3, <1>4, <1>6 DEF StakeLedger, pr
    <3>3. /\ StakeLedger(k)'[p] = IF l = k THEN pr - s ELSE 0
          /\ StakeLedger(k)'[q] = IF l = k THEN s ELSE 0
      BY <1>3, <1>7 DEF StakeLedger
    <3>4. Stake(k) \in Nat
      BY <1>3, StakeNat
    <3>5. QED
      BY <1>3, <3>1, <3>2, <3>3, <3>4
  <2>2. QED
    BY <1>4, <2>1 DEF LedgerInv, FundedInv
<1>12. UsdcAccounted'
  <2>1. Fees' = Fees /\ Drawn' = Drawn /\ Credited' = Credited
    BY <1>4, SameLoansTotals
  <2>2. Claimed \in Nat /\ Principal \in Nat
    BY <1>3, TotalsNat
  <2>3. /\ Claimed' = Claimed - positions[p].claimedAmount - positions[q].claimedAmount
                         + positions'[p].claimedAmount + positions'[q].claimedAmount
        /\ Principal' = Principal - positions[p].principalAmount - positions[q].principalAmount
                           + positions'[p].principalAmount + positions'[q].principalAmount
    BY <1>3, <1>6, <1>7, <1>9, PositionTotals
  <2>4. Claimed' = Claimed /\ Principal' = Principal
    <3>1. Claimed' = Claimed - c - 0 + (c - part) + part
      BY <1>6, <1>7, <2>3 DEF c
    <3>2. Principal' = Principal - pr - 0 + (pr - s) + s
      BY <1>6, <1>7, <2>3 DEF pr
    <3>3. QED
      BY <1>3, <1>5, <2>2, <3>1, <3>2
  <2>5. loanUsdc' + Claimed' + Principal = loanUsdc + Claimed + Principal'
    BY <1>4, <2>4
  <2>6. QED
    BY <1>3, <1>9, <2>1, <2>5, PositionsAccounted DEF LedgerInv
<1>13. QED
  BY <1>9, <1>10, <1>11, <1>12 DEF LedgerInv

-----------------------------------------------------------------------------
(* Everything together. *)

LEMMA MarketTypes ==
  ASSUME MarketProofs!TypeOK
  PROVE  Market!TypeOK
BY DEF MarketProofs!TypeOK, Market!TypeOK, MarketProofs!TokenIds, Market!TokenIds,
       MarketProofs!Outcome, Market!Outcome, MarketProofs!WinningOutcome, Market!WinningOutcome,
       MarketProofs!MarketState, Market!MarketState, MarketProofs!Holders, Market!Holders

LEMMA LedgerNext ==
  ASSUME ControlInv, Shape', Market!TypeOK, LedgerInv, [Next]_vars
  PROVE  LedgerInv'
<1>1. Shape
  BY DEF ControlInv
<1>2. CASE Tick \/ MarketUserStep
  BY <1>2, NoLoanLedgerStep DEF Tick, MarketUserStep
<1>3. CASE AdminNext
  <2>1. PICK c \in Admins :
          \/ SetOutcomeToken(c)
          \/ \E f \in FeeChoices : SetPlatformFeeBps(c, f)
          \/ \E r \in FeeRecipients : SetPlatformFeeRecipient(c, r)
          \/ \E a \in OwnerCandidates : TransferOwnership(c, a)
          \/ AcceptOwnership(c)
          \/ \E l \in Loans : ClaimPlatformFee(l, c)
    BY <1>3 DEF AdminNext
  <2>2. CASE \E l \in Loans : ClaimPlatformFee(l, c)
    BY <1>1, <2>2, ClaimPlatformFeeLedger
  <2>3. CASE ~ \E l \in Loans : ClaimPlatformFee(l, c)
    <3>1. UNCHANGED <<loans, positionVars, loanUsdc>>
      BY <2>1, <2>3
      DEF SetOutcomeToken, SetPlatformFeeBps, SetPlatformFeeRecipient, TransferOwnership,
          AcceptOwnership
    <3>2. QED
      BY <3>1, NoLoanLedgerStep
  <2>4. QED
    BY <2>2, <2>3
<1>4. CASE LifecycleNext
  BY <1>1, <1>4, ActivateLedger, SettleLedger, RedeemLedger DEF LifecycleNext
<1>5. CASE LoanNext
  BY <1>1, <1>5, CreateLoanLedger, FundLedger, DepositLedger DEF LoanNext
<1>6. CASE PositionNext
  BY <1>1, <1>6, ClaimFundingPrincipalLedger, ClaimSettledLedger, SplitPositionLedger,
     TransferPositionLedger
  DEF PositionNext, Claim
<1>7. CASE UNCHANGED vars
  BY <1>7, NoLoanLedgerStep DEF vars
<1>8. QED
  BY <1>2, <1>3, <1>4, <1>5, <1>6, <1>7 DEF Next

LEMMA LedgerInit ==
  ASSUME Init
  PROVE  LedgerInv
<1>1. /\ \A l \in Loans : loans[l] = UnsetLoan
      /\ \A p \in PositionIds : positions[p] = UnsetPosition /\ positionOwner[p] = NoAddress
      /\ nextPositionId = 1 /\ loanUsdc = 0
  BY DEF Init
<1>2. Amounts
  BY <1>1 DEF Amounts, UnsetLoan, UnsetPosition
<1>3. \A p \in PositionIds : PositionInv(p)
  BY <1>1 DEF PositionInv, UnsetPosition
<1>4. \A l : \A p \in PositionIds : StakeLedger(l)[p] = 0
  BY <1>1 DEF StakeLedger
<1>5. \A l : Stake(l) = 0
  BY <1>4, TotalZero DEF Stake
<1>6. \A l \in Loans : FundedInv(l)
  BY <1>1, <1>5 DEF FundedInv, UnsetLoan
<1>7. /\ \A l \in Loans : FeeLedger[l] = 0
      /\ \A l \in Loans : DrawnLedger[l] = 0
      /\ \A l \in Loans : CreditedLedger[l] = 0
  BY <1>1 DEF FeeLedger, DrawnLedger, CreditedLedger, UnsetLoan
<1>8. /\ \A p \in PositionIds : ClaimedLedger[p] = 0
      /\ \A p \in PositionIds : PrincipalLedger[p] = 0
  BY <1>1 DEF ClaimedLedger, PrincipalLedger, UnsetPosition
<1>9. Fees = 0 /\ Drawn = 0 /\ Credited = 0
  BY <1>7, TotalZero DEF Fees, Drawn, Credited
<1>10. Claimed = 0 /\ Principal = 0
  BY <1>8, TotalZero DEF Claimed, Principal
<1>11. UsdcAccounted
  BY <1>1, <1>9, <1>10, Accounted
<1>12. QED
  BY <1>2, <1>3, <1>6, <1>11 DEF LedgerInv

(* fund, claim, splitPosition and the calls of the keeper keep the books of    *)
(* LoanPositionToken.sol.                                                      *)
THEOREM LedgerHolds == Spec => []LedgerInv
<1>1. Init => LedgerInv
  BY LedgerInit
<1>2. ControlInv /\ ControlInv' /\ MarketProofs!IInv /\ LedgerInv /\ [Next]_vars => LedgerInv'
  BY LedgerNext, MarketTypes DEF MarketProofs!IInv, ControlInv
<1>3. QED
  BY <1>1, <1>2, ControlHolds, MarketInvariantHolds, PTL DEF Spec

(* Whatever is withdrawn, funded again, split, settled, paid late or claimed,  *)
(* the USDC balance of the contract is what came in less what went out.        *)
THEOREM UsdcIsAccounted == Spec => []UsdcAccounted
<1>1. LedgerInv => UsdcAccounted
  BY DEF LedgerInv
<1>2. QED
  BY <1>1, LedgerHolds, PTL

(* The funded amount of a loan is the stake of its holders, and the loan is    *)
(* past Funding exactly when that is its principal.                            *)
THEOREM FundedIsStake == Spec => []FundingLedger
<1>1. ASSUME ControlInv, LedgerInv
      PROVE  FundingLedger
  <2>1. ASSUME NEW l \in Loans
        PROVE  /\ loans[l].state # "Cancelled" =>
                    loans[l].fundedAmount = Total(StakeLedger(l), PositionIds)
               /\ loans[l].state = "Funding" /\ Created(l) =>
                    loans[l].fundedAmount < loans[l].principal
               /\ loans[l].state \in {"Funded", "Active", "Repaid", "Defaulted"} =>
                    loans[l].fundedAmount = loans[l].principal
    <3>1. FundedInv(l) /\ StageInv(l)
      BY <1>1 DEF ControlInv, LoanInv, LedgerInv
    <3>2. QED
      BY <3>1 DEF FundedInv, StageInv, Stake, Created
  <2>2. QED
    BY <2>1 DEF FundingLedger
<1>2. QED
  BY <1>1, ControlHolds, LedgerHolds, PTL

-----------------------------------------------------------------------------
(* Types.  The ledgers say that no amount is negative; what is left is who the *)
(* owner can be and how far ids and time go.                                   *)

AdminTypes ==
  /\ owner \in Admins /\ pendingOwner \in OwnerCandidates \cup {NoAddress}
  /\ outcomeTokenSet \in BOOLEAN
  /\ nextLoanId \in 1 .. MaxLoans + 1 /\ nextPositionId \in 1 .. MaxPositions + 1
  /\ now \in 1 .. MaxTime

LEMMA AdminTypesNext ==
  ASSUME AdminTypes, [Next]_vars
  PROVE  AdminTypes'
<1>1. MaxLoans \in Nat /\ MaxPositions \in Nat /\ MaxTime \in Nat
  BY LoanBoundsAssumption
<1>2. /\ \A n \in Loans : n + 1 \in 1 .. MaxLoans + 1
      /\ \A n \in PositionIds : n + 1 \in 1 .. MaxPositions + 1
  BY <1>1 DEF Loans, PositionIds
<1>3. CASE Tick
  <2>1. now' \in 1 .. MaxTime
    BY <1>1, <1>3 DEF Tick, AdminTypes
  <2>2. QED
    BY <1>3, <2>1 DEF Tick, AdminTypes, adminVars, positionVars
<1>4. CASE AdminNext
  BY <1>4, AccountsAssumption
  DEF AdminNext, AdminTypes, Admins, adminVars, positionVars, SetOutcomeToken, SetPlatformFeeBps,
      SetPlatformFeeRecipient, TransferOwnership, AcceptOwnership, ClaimPlatformFee
<1>5. CASE MarketUserStep \/ LifecycleNext
  BY <1>5
  DEF MarketUserStep, LifecycleNext, AdminTypes, adminVars, positionVars, Activate, SettleRepaid,
      CancelExpiredLoan, MarkDefaulted, RedeemDefaultCollateral
<1>6. CASE LoanNext
  <2>1. ASSUME NEW u \in Users, NEW r \in LoanRequests, CreateLoan(u, r)
        PROVE  AdminTypes'
    <3>1. nextLoanId \in Loans /\ nextLoanId' = nextLoanId + 1
      BY <2>1 DEF CreateLoan
    <3>2. UNCHANGED <<adminVars, positionVars, now>>
      BY <2>1 DEF CreateLoan
    <3>3. QED
      BY <1>2, <3>1, <3>2 DEF AdminTypes, adminVars, positionVars
  <2>2. ASSUME NEW u \in Users, NEW l \in Loans, NEW a \in FundAmounts, Fund(l, u, a)
        PROVE  AdminTypes'
    <3>1. nextPositionId \in PositionIds /\ nextPositionId' = nextPositionId + 1
      BY <2>2 DEF Fund
    <3>2. UNCHANGED <<adminVars, nextLoanId, now>>
      BY <2>2 DEF Fund
    <3>3. QED
      BY <1>2, <3>1, <3>2 DEF AdminTypes, adminVars
  <2>3. ASSUME NEW l \in Loans, NEW a \in PayAmounts, DepositToLoan(l, a)
        PROVE  AdminTypes'
    <3>1. UNCHANGED <<adminVars, nextLoanId, positionVars, now>>
      BY <2>3 DEF DepositToLoan
    <3>2. QED
      BY <3>1 DEF AdminTypes, adminVars, positionVars
  <2>4. QED
    BY <1>6, <2>1, <2>2, <2>3 DEF LoanNext
<1>7. CASE PositionNext
  <2>1. ASSUME NEW p \in PositionIds, NEW u \in Users, NEW s \in SplitAmounts,
               SplitPosition(p, u, s)
        PROVE  AdminTypes'
    <3>1. nextPositionId \in PositionIds /\ nextPositionId' = nextPositionId + 1
      BY <2>1 DEF SplitPosition
    <3>2. UNCHANGED <<adminVars, nextLoanId, now>>
      BY <2>1 DEF SplitPosition
    <3>3. QED
      BY <1>2, <3>1, <3>2 DEF AdminTypes, adminVars
  <2>2. ASSUME NEW p \in PositionIds, NEW u \in Users,
               Claim(p, u) \/ \E to \in Holders : TransferPosition(p, u, to)
        PROVE  AdminTypes'
    <3>1. UNCHANGED <<adminVars, nextLoanId, nextPositionId, now>>
      BY <2>2 DEF Claim, ClaimFundingPrincipal, ClaimSettled, TransferPosition
    <3>2. QED
      BY <3>1 DEF AdminTypes, adminVars
  <2>3. QED
    BY <1>7, <2>1, <2>2 DEF PositionNext
<1>8. CASE UNCHANGED vars
  BY <1>8 DEF AdminTypes, vars, adminVars, positionVars
<1>9. QED
  BY <1>3, <1>4, <1>5, <1>6, <1>7, <1>8 DEF Next

LEMMA TypesFollow ==
  ASSUME AdminTypes, Shape, Amounts, Market!TypeOK
  PROVE  TypeOK
<1>1. LoanTypeOK
  <2>1. ASSUME NEW l \in Loans
        PROVE  loans[l] \in
          [borrower : Users \cup {NoAddress}, principal : Nat, repaymentAmount : Nat,
           loanWithdrawFreezeDeadline : Nat, activationDeadline : Nat, repaymentDeadline : Nat,
           fundedAmount : Nat, creditedAmount : Nat, repaymentSatisfiedAt : Nat,
           feeClaimedAmount : Nat, state : LoanState,
           feeBps : 0 .. BasisPoints, feeRecipient : FeeRecipients \cup {NoAddress},
           collateralBps : Nat]
    <3>1. loans[l] \in LoanRecords
      BY DEF Shape, LoanShape
    <3>2. loans[l].fundedAmount \in Nat /\ loans[l].feeClaimedAmount \in Nat
      BY DEF Amounts
    <3>3. QED
      BY <3>1, <3>2 DEF LoanRecords
  <2>2. QED
    BY <2>1 DEF LoanTypeOK, Shape, LoanShape
<1>2. PositionTypeOK
  <2>1. ASSUME NEW p \in PositionIds
        PROVE  positions[p] \in [loanId : Loans \cup {0}, principalAmount : Nat,
                                 claimedAmount : Nat, split : BOOLEAN,
                                 splitAfterClaim : BOOLEAN]
    <3>1. positions[p] \in PositionRecords
      BY DEF Shape, PositionShape
    <3>2. positions[p].principalAmount \in Nat /\ positions[p].claimedAmount \in Nat
      BY DEF Amounts
    <3>3. QED
      BY <3>1, <3>2 DEF PositionRecords
  <2>2. QED
    BY <2>1 DEF PositionTypeOK, Shape, PositionShape
<1>3. QED
  BY <1>1, <1>2 DEF TypeOK, AdminTypes, Shape, AdminShape, Amounts

(* No amount of the contract is ever negative, no id or owner out of range:    *)
(* no subtraction of a handler needs the check that would revert it.           *)
THEOREM TypesHold == Spec => []TypeOK
<1>1. Init => AdminTypes
  <2>1. 1 \in 1 .. MaxLoans + 1 /\ 1 \in 1 .. MaxPositions + 1 /\ 1 \in 1 .. MaxTime
    BY LoanBoundsAssumption
  <2>2. QED
    BY <2>1 DEF Init, AdminTypes, Admins
<1>2. AdminTypes /\ [Next]_vars => AdminTypes'
  BY AdminTypesNext
<1>3. AdminTypes /\ ControlInv /\ LedgerInv /\ MarketProofs!IInv => TypeOK
  BY TypesFollow, MarketTypes DEF ControlInv, LedgerInv, MarketProofs!IInv
<1>4. QED
  BY <1>1, <1>2, <1>3, ControlHolds, LedgerHolds, MarketInvariantHolds, PTL DEF Spec

-----------------------------------------------------------------------------
(* The collateral behind a loan. *)

HeldByContract(l) == balanceOf[<<l, "No">>][LoanContract]

CollateralInv(l) ==
  LET collateral == markets[l].borrowerCollateralAmount IN
  /\ loans[l].state = "Active" => collateral <= HeldByContract(l)
  /\ loans[l].state = "Defaulted" => collateral <= HeldByContract(l) + loans[l].creditedAmount

LEMMA EntryUpdate ==
  ASSUME NEW K, NEW H, NEW b \in [K -> [H -> Int]], NEW t \in K, NEW h \in H, NEW a \in Int
  PROVE  /\ [b EXCEPT ![t][h] = @ + a] \in [K -> [H -> Int]]
         /\ [b EXCEPT ![t][h] = @ - a] \in [K -> [H -> Int]]
         /\ \A k \in K, g \in H :
              /\ [b EXCEPT ![t][h] = @ + a][k][g] = IF k = t /\ g = h THEN b[k][g] + a ELSE b[k][g]
              /\ [b EXCEPT ![t][h] = @ - a][k][g] = IF k = t /\ g = h THEN b[k][g] - a ELSE b[k][g]
OBVIOUS

(* Tokens credited to anyone, and tokens taken from a user. *)
LEMMA CreditKeeps ==
  ASSUME NEW b, NEW t, NEW h, NEW a \in Nat, NEW l \in Loans,
         b \in [Market!TokenIds -> [Holders -> Int]], t \in Market!TokenIds, h \in Holders
  PROVE  /\ Market!Credit(b, t, h, a) \in [Market!TokenIds -> [Holders -> Int]]
         /\ b[<<l, "No">>][LoanContract] <= Market!Credit(b, t, h, a)[<<l, "No">>][LoanContract]
<1> DEFINE k == <<l, "No">>
           b2 == [b EXCEPT ![t][h] = @ + a]
<1>1. k \in Market!TokenIds /\ LoanContract \in Holders
  BY DEF Market!TokenIds, Market!Outcome, Holders
<1>2. b2 \in [Market!TokenIds -> [Holders -> Int]]
  BY EntryUpdate
<1>3. b2[k][LoanContract] = IF k = t /\ LoanContract = h THEN b[k][LoanContract] + a
                                                       ELSE b[k][LoanContract]
  BY <1>1, EntryUpdate
<1>4. b[k][LoanContract] \in Int
  BY <1>1
<1> HIDE DEF k, b2
<1>5. b[k][LoanContract] <= b2[k][LoanContract]
  BY <1>3, <1>4
<1>6. QED
  BY <1>2, <1>5 DEF k, b2, Market!Credit

LEMMA DebitKeeps ==
  ASSUME NEW b, NEW t, NEW u \in Users, NEW a \in Nat, NEW l \in Loans,
         b \in [Market!TokenIds -> [Holders -> Int]], t \in Market!TokenIds
  PROVE  /\ Market!Debit(b, t, u, a) \in [Market!TokenIds -> [Holders -> Int]]
         /\ Market!Debit(b, t, u, a)[<<l, "No">>][LoanContract] = b[<<l, "No">>][LoanContract]
<1> DEFINE k == <<l, "No">>
           b2 == [b EXCEPT ![t][u] = @ - a]
<1>1. /\ k \in Market!TokenIds /\ LoanContract \in Holders /\ u \in Holders
      /\ u # LoanContract
  BY AccountsAssumption DEF Market!TokenIds, Market!Outcome, Holders
<1>2. b2 \in [Market!TokenIds -> [Holders -> Int]]
  BY <1>1, EntryUpdate
<1>3. b2[k][LoanContract] = b[k][LoanContract]
  BY <1>1, EntryUpdate
<1>4. QED
  BY <1>2, <1>3 DEF Market!Debit

(* A caller that is not the loan contract takes none of its tokens. *)
LEMMA UserTakesNothing ==
  ASSUME Market!TypeOK, MarketUserStep, NEW l \in Loans
  PROVE  HeldByContract(l) <= HeldByContract(l)'
<1>1. MarketAmounts \subseteq Nat /\ Users \subseteq Holders /\ Market!Holders = Holders
  BY InputsAssumption DEF Holders, Market!Holders
<1>2. /\ balanceOf \in [Market!TokenIds -> [Holders -> Int]]
      /\ HeldByContract(l) \in Int
      /\ \A n \in Loans, x \in {"Yes", "No"} : <<n, x>> \in Market!TokenIds
  <2>1. balanceOf \in [Market!TokenIds -> [Holders -> Nat]]
    BY <1>1 DEF Market!TypeOK
  <2>2. \A n \in Loans, x \in {"Yes", "No"} : <<n, x>> \in Market!TokenIds
    BY DEF Market!TokenIds, Market!Outcome
  <2>3. LoanContract \in Holders
    BY DEF Holders
  <2>4. \A t \in Market!TokenIds, h \in Holders : balanceOf[t][h] \in Int
    BY <2>1
  <2>5. balanceOf \in [Market!TokenIds -> [Holders -> Int]]
    BY <2>1
  <2>6. QED
    BY <2>2, <2>3, <2>4, <2>5 DEF HeldByContract
<1>3. PICK n \in Loans, u \in Users :
        \/ \E a \in MarketAmounts :
             \/ Market!DepositBorrowerCollateral(n, u, a)
             \/ Market!DepositPairCollateral(n, u, a)
             \/ Market!WithdrawPairDeposit(n, u, a)
             \/ Market!MergePositions(n, u, a)
             \/ \E x \in Market!Outcome : Market!Redeem(n, u, x, a)
             \/ \E x \in Market!Outcome, to \in Market!Holders :
                  Market!TransferOutcome(<<n, x>>, u, to, a)
        \/ Market!RefundBorrowerCollateral(n, u)
        \/ Market!RefundPairCollateral(n, u)
        \/ Market!MintActivatedPair(n, u)
  BY DEF MarketUserStep, Market!UserNext
<1>4. CASE UNCHANGED balanceOf
  BY <1>2, <1>4 DEF HeldByContract
<1>5. ASSUME NEW a \in MarketAmounts, Market!MergePositions(n, u, a)
      PROVE  HeldByContract(l) <= HeldByContract(l)'
  <2> DEFINE b1 == Market!Debit(balanceOf, <<n, "Yes">>, u, a)
  <2>1. balanceOf' = Market!Debit(b1, <<n, "No">>, u, a) /\ a \in Nat
    BY <1>1, <1>5
    DEF Market!MergePositions, Market!DebitPair, Market!YesTokenId, Market!NoTokenId
  <2>2. /\ b1 \in [Market!TokenIds -> [Holders -> Int]]
        /\ b1[<<l, "No">>][LoanContract] = balanceOf[<<l, "No">>][LoanContract]
    BY <1>2, <2>1, DebitKeeps, ZenonT(30)
  <2> HIDE DEF b1
  <2>3. balanceOf'[<<l, "No">>][LoanContract] = b1[<<l, "No">>][LoanContract]
    BY <1>2, <2>1, <2>2, DebitKeeps, ZenonT(30)
  <2>4. QED
    BY <1>2, <2>2, <2>3 DEF HeldByContract
<1>6. ASSUME NEW a \in MarketAmounts, NEW x \in Market!Outcome, Market!Redeem(n, u, x, a)
      PROVE  HeldByContract(l) <= HeldByContract(l)'
  <2>1. balanceOf' = Market!Debit(balanceOf, <<n, x>>, u, a) /\ a \in Nat
        /\ <<n, x>> \in Market!TokenIds
    BY <1>1, <1>2, <1>6 DEF Market!Redeem, Market!Outcome
  <2>2. balanceOf'[<<l, "No">>][LoanContract] = balanceOf[<<l, "No">>][LoanContract]
    BY <1>2, <2>1, DebitKeeps, ZenonT(30)
  <2>3. QED
    BY <1>2, <2>2 DEF HeldByContract
<1>7. ASSUME NEW a \in MarketAmounts, NEW x \in Market!Outcome, NEW to \in Market!Holders,
             Market!TransferOutcome(<<n, x>>, u, to, a)
      PROVE  HeldByContract(l) <= HeldByContract(l)'
  <2> DEFINE b1 == Market!Debit(balanceOf, <<n, x>>, u, a)
  <2>1. balanceOf' = Market!Credit(b1, <<n, x>>, to, a) /\ a \in Nat
        /\ <<n, x>> \in Market!TokenIds /\ to \in Holders
    BY <1>1, <1>2, <1>7, ZenonT(30) DEF Market!TransferOutcome, Market!Outcome
  <2>2. /\ b1 \in [Market!TokenIds -> [Holders -> Int]]
        /\ b1[<<l, "No">>][LoanContract] = balanceOf[<<l, "No">>][LoanContract]
    BY <1>2, <2>1, DebitKeeps, ZenonT(30)
  <2> HIDE DEF b1
  <2>3. b1[<<l, "No">>][LoanContract] <= balanceOf'[<<l, "No">>][LoanContract]
    BY <2>1, <2>2, CreditKeeps
  <2>4. QED
    BY <2>2, <2>3 DEF HeldByContract
<1>8. ASSUME Market!MintActivatedPair(n, u)
      PROVE  HeldByContract(l) <= HeldByContract(l)'
  <2> DEFINE a == Market!UnmintedPairDeposit(n, u)
             b1 == Market!Credit(balanceOf, <<n, "Yes">>, u, a)
  <2>1. a \in Nat
    BY <1>8 DEF Market!MintActivatedPair, Market!UnmintedPairDeposit, Market!TypeOK
  <2>2. balanceOf' = Market!Credit(b1, <<n, "No">>, u, a)
    BY <1>8
    DEF Market!MintActivatedPair, Market!CreditPair, Market!YesTokenId, Market!NoTokenId
  <2> HIDE DEF a
  <2>3. /\ b1 \in [Market!TokenIds -> [Holders -> Int]]
        /\ balanceOf[<<l, "No">>][LoanContract] <= b1[<<l, "No">>][LoanContract]
    BY <1>1, <1>2, <2>1, CreditKeeps
  <2> HIDE DEF b1
  <2>4. /\ balanceOf' \in [Market!TokenIds -> [Holders -> Int]]
        /\ b1[<<l, "No">>][LoanContract] <= balanceOf'[<<l, "No">>][LoanContract]
    BY <1>1, <1>2, <2>1, <2>2, <2>3, CreditKeeps
  <2>5. <<l, "No">> \in Market!TokenIds /\ LoanContract \in Holders
    BY <1>2 DEF Holders
  <2>6. QED
    BY <1>2, <2>3, <2>4, <2>5 DEF HeldByContract
<1>9. QED
  BY <1>3, <1>4, <1>5, <1>6, <1>7, <1>8
  DEF Market!DepositBorrowerCollateral, Market!DepositPairCollateral,
      Market!WithdrawPairDeposit, Market!RefundBorrowerCollateral, Market!RefundPairCollateral

LEMMA CollateralTypes ==
  ASSUME Shape, Market!TypeOK, NEW l \in Loans
  PROVE  /\ HeldByContract(l) \in Nat /\ markets[l].borrowerCollateralAmount \in Nat
         /\ loans[l].creditedAmount \in Nat
<1>1. <<l, "No">> \in Market!TokenIds /\ LoanContract \in Market!Holders
  BY DEF Market!TokenIds, Market!Outcome, Market!Holders
<1>2. HeldByContract(l) \in Nat
  BY <1>1 DEF Market!TypeOK, HeldByContract
<1>3. markets[l] \in MarketRecords /\ loans[l] \in LoanRecords
  BY DEF Shape, MarketShape, LoanShape
<1>4. QED
  BY <1>2, <1>3 DEF MarketRecords, LoanRecords

(* A loan whose state, collateral and payments a step leaves as they are. *)
LEMMA CollateralKept ==
  ASSUME Shape, Market!TypeOK, Shape', Market!TypeOK', NEW l \in Loans, CollateralInv(l),
         loans'[l].state = loans[l].state, loans[l].creditedAmount <= loans'[l].creditedAmount,
         markets'[l].borrowerCollateralAmount = markets[l].borrowerCollateralAmount,
         HeldByContract(l) <= HeldByContract(l)'
  PROVE  CollateralInv(l)'
<1> DEFINE held == HeldByContract(l)
           held2 == HeldByContract(l)'
           collateral == markets[l].borrowerCollateralAmount
           credited == loans[l].creditedAmount
           credited2 == loans'[l].creditedAmount
<1>1. held \in Nat /\ collateral \in Nat /\ credited \in Nat
  BY CollateralTypes
<1>2. held2 \in Nat
  <2>1. <<l, "No">> \in Market!TokenIds /\ LoanContract \in Market!Holders
    BY DEF Market!TokenIds, Market!Outcome, Market!Holders
  <2>2. QED
    BY <2>1 DEF Market!TypeOK, HeldByContract
<1>3. credited2 \in Nat
  BY DEF Shape, LoanShape, LoanRecords
<1>4. /\ loans[l].state = "Active" => collateral <= held
      /\ loans[l].state = "Defaulted" => collateral <= held + credited
  BY DEF CollateralInv
<1>5. held <= held2 /\ credited <= credited2
  OBVIOUS
<1>6. /\ CollateralInv(l)' <=>
            /\ loans'[l].state = "Active" => markets'[l].borrowerCollateralAmount <= held2
            /\ loans'[l].state = "Defaulted" =>
                 markets'[l].borrowerCollateralAmount <= held2 + credited2
  BY DEF CollateralInv
<1> HIDE DEF held, held2, credited, credited2
<1>7. /\ loans[l].state = "Active" => collateral <= held2
      /\ loans[l].state = "Defaulted" => collateral <= held2 + credited2
  BY <1>1, <1>2, <1>3, <1>4, <1>5
<1>8. QED
  BY <1>6, <1>7

LEMMA ActivateCollateral ==
  ASSUME Shape, Market!TypeOK, NEW l \in Loans, Activate(l), NEW k \in Loans,
         Shape', Market!TypeOK', CollateralInv(k)
  PROVE  CollateralInv(k)'
<1> DEFINE c == markets[l].borrowerCollateralAmount
           b1 == Market!Credit(balanceOf, <<l, "Yes">>, markets[l].borrower, c)
<1>1. /\ loans' = [loans EXCEPT ![l].state = "Active"]
      /\ markets' = [markets EXCEPT ![l].state = "Active"]
      /\ balanceOf' = Market!Credit(b1, <<l, "No">>, LoanContract, c)
      /\ markets[l].borrower # NoAddress
  BY DEF Activate, Market!ActivateMarket, Market!YesTokenId, Market!NoTokenId
<1>2. /\ c \in Nat /\ markets[l].borrower \in Holders
      /\ loans \in [Loans -> LoanRecords] /\ markets \in [Loans -> MarketRecords]
  BY <1>1 DEF Shape, MarketShape, LoanShape, MarketRecords, Holders
<1>3. /\ \A x \in {"Yes", "No"} : <<l, x>> \in Market!TokenIds
      /\ <<k, "No">> \in Market!TokenIds
      /\ LoanContract \in Holders /\ balanceOf \in [Market!TokenIds -> [Holders -> Int]]
  <2>1. balanceOf \in [Market!TokenIds -> [Holders -> Nat]]
    BY DEF Market!TypeOK, Market!Holders, Holders
  <2>2. balanceOf \in [Market!TokenIds -> [Holders -> Int]]
    BY <2>1
  <2>3. QED
    BY <2>2 DEF Market!TokenIds, Market!Outcome, Holders
<1> HIDE DEF c
<1>4. /\ b1 \in [Market!TokenIds -> [Holders -> Int]]
      /\ balanceOf[<<k, "No">>][LoanContract] <= b1[<<k, "No">>][LoanContract]
      /\ balanceOf[<<l, "No">>][LoanContract] <= b1[<<l, "No">>][LoanContract]
  BY <1>2, <1>3, CreditKeeps
<1> HIDE DEF b1
<1>5. /\ b1[<<k, "No">>][LoanContract] <= balanceOf'[<<k, "No">>][LoanContract]
      /\ balanceOf' \in [Market!TokenIds -> [Holders -> Int]]
  BY <1>1, <1>2, <1>3, <1>4, CreditKeeps
<1>6. HeldByContract(k) <= HeldByContract(k)'
  <2>1. /\ balanceOf[<<k, "No">>][LoanContract] \in Int /\ b1[<<k, "No">>][LoanContract] \in Int
        /\ balanceOf'[<<k, "No">>][LoanContract] \in Int
    BY <1>3, <1>4, <1>5
  <2>2. QED
    BY <1>4, <1>5, <2>1 DEF HeldByContract
<1>7. CASE k # l
  <2>1. /\ loans'[k] = loans[k] /\ markets'[k] = markets[k]
        /\ loans[k].creditedAmount \in Nat
    BY <1>1, <1>2, <1>7, CollateralTypes
  <2>2. QED
    BY <1>6, <2>1, CollateralKept
<1>8. CASE k = l
  <2>1. /\ loans'[l].state = "Active"
        /\ markets'[l].borrowerCollateralAmount = markets[l].borrowerCollateralAmount
    BY <1>1, <1>2 DEF LoanRecords, MarketRecords
  <2>2. balanceOf'[<<l, "No">>][LoanContract] = b1[<<l, "No">>][LoanContract] + c
    BY <1>1, <1>2, <1>3, <1>4, EntryUpdate DEF Market!Credit
  <2>3. b1[<<l, "No">>][LoanContract] \in Nat
    <3>1. balanceOf[<<l, "No">>][LoanContract] \in Nat
      BY CollateralTypes DEF HeldByContract
    <3>2. b1[<<l, "No">>][LoanContract] \in Int
      BY <1>3, <1>4
    <3>3. QED
      BY <1>4, <3>1, <3>2
  <2>4. c <= HeldByContract(l)'
    BY <1>2, <2>2, <2>3 DEF HeldByContract
  <2>5. QED
    BY <1>8, <2>1, <2>4 DEF CollateralInv, c
<1>9. QED
  BY <1>7, <1>8

LEMMA RedeemCollateral ==
  ASSUME Shape, Market!TypeOK, NEW l \in Loans, RedeemDefaultCollateral(l), NEW k \in Loans,
         Shape', Market!TypeOK', CollateralInv(k)
  PROVE  CollateralInv(k)'
<1> DEFINE amount == balanceOf[<<l, "No">>][LoanContract]
<1>1. /\ loans[l].state = "Defaulted" /\ markets' = markets
      /\ loans' = [loans EXCEPT ![l].creditedAmount = @ + amount]
      /\ balanceOf' = [balanceOf EXCEPT ![<<l, "No">>][LoanContract] = @ - amount]
  BY DEF RedeemDefaultCollateral, Market!Redeem, Market!Debit, Market!NoTokenId
<1>2. /\ \A x \in Loans : HeldByContract(x) \in Nat
      /\ amount = HeldByContract(l) /\ loans \in [Loans -> LoanRecords]
  BY CollateralTypes DEF HeldByContract, Shape, LoanShape
<1>3. /\ balanceOf \in [Market!TokenIds -> [Market!Holders -> Nat]]
      /\ LoanContract \in Market!Holders
      /\ \A x \in Loans : <<x, "No">> \in Market!TokenIds
  BY DEF Market!TypeOK, Market!TokenIds, Market!Outcome, Market!Holders
<1> HIDE DEF amount
<1>4. CASE k # l
  <2>1. loans'[k] = loans[k] /\ loans[k].creditedAmount \in Nat
    BY <1>1, <1>2, <1>4, CollateralTypes
  <2>2. HeldByContract(k)' = HeldByContract(k)
    BY <1>1, <1>3, <1>4 DEF HeldByContract
  <2>3. QED
    BY <1>1, <1>2, <2>1, <2>2, CollateralKept
<1>5. CASE k = l
  <2> DEFINE held2 == HeldByContract(l)'
             credited == loans[l].creditedAmount
             collateral == markets[l].borrowerCollateralAmount
  <2>1. /\ loans'[l].state = "Defaulted"
        /\ loans'[l].creditedAmount = credited + amount
    BY <1>1, <1>2 DEF LoanRecords
  <2>2. held2 \in Nat
    BY <1>3 DEF HeldByContract, Market!TypeOK
  <2>3. collateral <= amount + credited
    BY <1>1, <1>2, <1>5 DEF CollateralInv
  <2>4. amount \in Nat /\ credited \in Nat /\ collateral \in Nat
    BY <1>2, CollateralTypes
  <2>5. CollateralInv(l)' <=> collateral <= held2 + loans'[l].creditedAmount
    BY <1>1, <2>1 DEF CollateralInv
  <2> HIDE DEF held2, credited, collateral
  <2>6. collateral <= held2 + (credited + amount)
    BY <2>2, <2>3, <2>4
  <2>7. QED
    BY <1>5, <2>1, <2>5, <2>6
<1>6. QED
  BY <1>4, <1>5

LEMMA NothingToCover ==
  ASSUME NEW k, loans'[k].state \notin {"Active", "Defaulted"}
  PROVE  CollateralInv(k)'
BY DEF CollateralInv

(* A step that leaves the loan, its market and the tokens as they are. *)
LEMMA CollateralUntouched ==
  ASSUME NEW k, CollateralInv(k), loans'[k] = loans[k], markets'[k] = markets[k],
         balanceOf' = balanceOf
  PROVE  CollateralInv(k)'
BY DEF CollateralInv, HeldByContract

LEMMA MarkDefaultedCollateral ==
  ASSUME Shape, Market!TypeOK, NEW l \in Loans, MarkDefaulted(l), NEW k \in Loans,
         CollateralInv(k)
  PROVE  CollateralInv(k)'
<1>1. /\ loans[l].state = "Active" /\ loans' = [loans EXCEPT ![l].state = "Defaulted"]
      /\ markets' = [markets EXCEPT ![l].winningOutcome = "No", ![l].state = "Resolved"]
      /\ balanceOf' = balanceOf
  BY DEF MarkDefaulted, Market!ResolveMarket
<1>2. loans \in [Loans -> LoanRecords] /\ markets \in [Loans -> MarketRecords]
  BY DEF Shape, LoanShape, MarketShape
<1>3. CASE k # l
  <2>1. loans'[k] = loans[k] /\ markets'[k] = markets[k]
    BY <1>1, <1>2, <1>3
  <2>2. QED
    BY <1>1, <2>1, CollateralUntouched
<1>4. CASE k = l
  <2>1. /\ loans'[l].state = "Defaulted" /\ loans'[l].creditedAmount = loans[l].creditedAmount
        /\ markets'[l].borrowerCollateralAmount = markets[l].borrowerCollateralAmount
        /\ HeldByContract(l)' = HeldByContract(l)
    BY <1>1, <1>2 DEF LoanRecords, MarketRecords, HeldByContract
  <2>2. markets[l].borrowerCollateralAmount <= HeldByContract(l) + loans[l].creditedAmount
    <3>1. markets[l].borrowerCollateralAmount <= HeldByContract(l)
      BY <1>1, <1>4 DEF CollateralInv
    <3>2. QED
      BY <3>1, CollateralTypes
  <2>3. QED
    BY <1>4, <2>1, <2>2 DEF CollateralInv
<1>5. QED
  BY <1>3, <1>4

LEMMA SettleCollateral ==
  ASSUME Shape, NEW l \in Loans, SettleRepaid(l) \/ CancelExpiredLoan(l), NEW k \in Loans,
         CollateralInv(k)
  PROVE  CollateralInv(k)'
<1>1. /\ loans' = [loans EXCEPT ![l].state = "Repaid"]
         \/ loans' = [loans EXCEPT ![l].state = "Cancelled"]
      /\ balanceOf' = balanceOf
      /\ \A x \in Loans \ {l} : markets'[x] = markets[x]
  <2>1. markets \in [Loans -> MarketRecords]
    BY DEF Shape, MarketShape
  <2>2. QED
    BY <2>1
    DEF SettleRepaid, CancelExpiredLoan, Market!ResolveMarket, Market!CancelMarket
<1>2. loans \in [Loans -> LoanRecords]
  BY DEF Shape, LoanShape
<1>3. CASE k # l
  BY <1>1, <1>2, <1>3, CollateralUntouched
<1>4. CASE k = l
  <2>1. loans'[l].state \in {"Repaid", "Cancelled"}
    BY <1>1, <1>2 DEF LoanRecords
  <2>2. QED
    BY <1>4, <2>1, NothingToCover
<1>5. QED
  BY <1>3, <1>4

LEMMA OriginationCollateral ==
  ASSUME Shape, NEW k \in Loans, CollateralInv(k), Market!TypeOK, Shape', Market!TypeOK', LoanNext
  PROVE  CollateralInv(k)'
<1>1. loans \in [Loans -> LoanRecords] /\ markets \in [Loans -> MarketRecords]
  BY DEF Shape, LoanShape, MarketShape
<1>2. ASSUME NEW u \in Users, NEW r \in LoanRequests, CreateLoan(u, r)
      PROVE  CollateralInv(k)'
  <2>1. PICK l \in Loans : l = nextLoanId
    BY <1>2 DEF CreateLoan
  <2>2. CASE k # l
    <3>1. loans'[k] = loans[k]
      BY <1>2, <2>1, <2>2, CreatedLoan
    <3>2. markets'[k] = markets[k] /\ balanceOf' = balanceOf
      BY <1>1, <1>2, <2>1, <2>2 DEF CreateLoan, Market!CreateProtoMarket
    <3>3. QED
      BY <3>1, <3>2, CollateralUntouched
  <2>3. CASE k = l
    <3>1. loans'[l].state = "Funding"
      BY <1>2, <2>1, CreatedLoan
    <3>2. QED
      BY <2>3, <3>1, NothingToCover
  <2>4. QED
    BY <2>2, <2>3
<1>3. ASSUME NEW u \in Users, NEW l \in Loans, NEW a \in FundAmounts, Fund(l, u, a)
      PROVE  CollateralInv(k)'
  <2>1. /\ loans[l].state = "Funding" /\ UNCHANGED <<markets, balanceOf>>
        /\ \E x, st : /\ st \in {"Funding", "Funded"}
                      /\ loans' = [loans EXCEPT ![l].fundedAmount = x, ![l].state = st]
    BY <1>1, <1>3 DEF Fund, marketVars
  <2>2. CASE k # l
    BY <1>1, <2>1, <2>2, CollateralUntouched
  <2>3. CASE k = l
    <3>1. loans'[l].state \in {"Funding", "Funded"}
      BY <1>1, <2>1 DEF LoanRecords
    <3>2. QED
      BY <2>3, <3>1, NothingToCover
  <2>4. QED
    BY <2>2, <2>3
<1>4. ASSUME NEW l \in Loans, NEW a \in PayAmounts, DepositToLoan(l, a)
      PROVE  CollateralInv(k)'
  <2>1. a \in Nat /\ UNCHANGED <<markets, balanceOf>>
    BY <1>4, InputsAssumption DEF DepositToLoan, marketVars
  <2>2. PICK t : loans' = [loans EXCEPT ![l].creditedAmount = @ + a, ![l].repaymentSatisfiedAt = t]
    BY <1>1, <1>4 DEF DepositToLoan
  <2>3. loans'[k].state = loans[k].state /\ loans[k].creditedAmount <= loans'[k].creditedAmount
    BY <1>1, <2>1, <2>2 DEF LoanRecords
  <2>4. HeldByContract(k)' = HeldByContract(k) /\ HeldByContract(k) \in Nat
    BY <2>1, CollateralTypes DEF HeldByContract
  <2>5. QED
    BY <2>1, <2>3, <2>4, CollateralKept
<1>5. QED
  BY <1>2, <1>3, <1>4 DEF LoanNext

LEMMA CollateralNext ==
  ASSUME Shape, Market!TypeOK, Shape', Market!TypeOK', [Next]_vars, NEW k \in Loans,
         CollateralInv(k)
  PROVE  CollateralInv(k)'
<1>1. loans \in [Loans -> LoanRecords]
  BY DEF Shape, LoanShape
<1>2. CASE UNCHANGED <<loans, markets, balanceOf>>
  BY <1>2, CollateralUntouched
<1>3. CASE Tick \/ UNCHANGED vars
  BY <1>2, <1>3 DEF Tick, vars, marketVars
<1>4. CASE MarketUserStep
  <2>1. UNCHANGED <<loans, markets>>
    BY <1>4, MarketStepQuiet
  <2>2. HeldByContract(k) <= HeldByContract(k)' /\ loans[k].creditedAmount \in Nat
    BY <1>4, UserTakesNothing, CollateralTypes
  <2>3. QED
    BY <2>1, <2>2, CollateralKept
<1>5. CASE AdminNext
  <2>1. ASSUME NEW l \in Loans, NEW c, ClaimPlatformFee(l, c)
        PROVE  CollateralInv(k)'
    <3>1. /\ UNCHANGED <<markets, balanceOf>>
          /\ \E x : loans' = [loans EXCEPT ![l].feeClaimedAmount = x]
      BY <1>1, <2>1 DEF ClaimPlatformFee, marketVars
    <3>2. loans'[k].state = loans[k].state /\ loans'[k].creditedAmount = loans[k].creditedAmount
      BY <1>1, <3>1 DEF LoanRecords
    <3>3. QED
      BY <3>1, <3>2 DEF CollateralInv, HeldByContract
  <2>2. (\E l \in Loans, c \in Admins : ClaimPlatformFee(l, c))
          \/ UNCHANGED <<loans, markets, balanceOf>>
    BY <1>5
    DEF AdminNext, SetOutcomeToken, SetPlatformFeeBps, SetPlatformFeeRecipient,
        TransferOwnership, AcceptOwnership, marketVars
  <2>3. QED
    BY <1>2, <2>1, <2>2
<1>6. CASE LifecycleNext
  BY <1>6, ActivateCollateral, RedeemCollateral, SettleCollateral, MarkDefaultedCollateral
  DEF LifecycleNext
<1>7. CASE LoanNext
  BY <1>7, OriginationCollateral
<1>8. CASE PositionNext
  <2>1. ASSUME NEW p \in PositionIds, NEW u \in Users, ClaimFundingPrincipal(p, u),
               positions[p].loanId \in Loans
        PROVE  CollateralInv(k)'
    <3> DEFINE l == positions[p].loanId
    <3>1. /\ UNCHANGED <<markets, balanceOf>>
          /\ \E x : loans' = [loans EXCEPT ![l].fundedAmount = x, ![l].state = "Funding"]
      BY <1>1, <2>1 DEF ClaimFundingPrincipal, marketVars
    <3> HIDE DEF l
    <3>2. loans'[k] = loans[k] \/ loans'[k].state = "Funding"
      BY <1>1, <3>1 DEF LoanRecords
    <3>3. QED
      BY <3>1, <3>2, NothingToCover, CollateralUntouched
  <2>2. ASSUME NEW p \in PositionIds, NEW u \in Users, ClaimFundingPrincipal(p, u)
        PROVE  positions[p].loanId \in Loans
    BY <2>2, AccountsAssumption DEF ClaimFundingPrincipal, Shape, PositionShape, Holders
  <2>3. ASSUME NEW p \in PositionIds, NEW u \in Users,
               \/ ClaimSettled(p, u)
               \/ \E s \in SplitAmounts : SplitPosition(p, u, s)
               \/ \E to \in Holders : TransferPosition(p, u, to)
        PROVE  UNCHANGED <<loans, markets, balanceOf>>
    <3>1. ClaimSettled(p, u) => UNCHANGED <<loans, markets, balanceOf>>
      BY DEF ClaimSettled, marketVars
    <3>2. \A s : SplitPosition(p, u, s) => UNCHANGED <<loans, markets, balanceOf>>
      BY DEF SplitPosition, marketVars
    <3>3. \A to : TransferPosition(p, u, to) => UNCHANGED <<loans, markets, balanceOf>>
      BY DEF TransferPosition, marketVars
    <3>4. QED
      BY <2>3, <3>1, <3>2, <3>3
  <2>4. QED
    BY <1>2, <1>8, <2>1, <2>2, <2>3 DEF PositionNext, Claim
<1>9. QED
  BY <1>3, <1>4, <1>5, <1>6, <1>7, <1>8 DEF Next

CollateralHeld == \A l \in Loans : CollateralInv(l)

(* activateMarket mints the collateral's NO tokens to LoanPositionToken.sol,   *)
(* and no call of a user takes one of them: they are held, or redeemed for the *)
(* lenders.                                                                    *)
THEOREM CollateralStaysBehindLenders == Spec => []CollateralBehindLenders
<1>1. Init => CollateralHeld
  BY NothingToCover DEF Init, UnsetLoan, CollateralHeld, CollateralInv
<1>2. ControlInv /\ ControlInv' /\ MarketProofs!IInv /\ MarketProofs!IInv'
        /\ CollateralHeld /\ [Next]_vars => CollateralHeld'
  <2>1. SUFFICES ASSUME ControlInv, ControlInv', MarketProofs!IInv, MarketProofs!IInv',
                        CollateralHeld, [Next]_vars
                 PROVE  CollateralHeld'
    OBVIOUS
  <2>2. Shape /\ Shape' /\ MarketProofs!TypeOK /\ MarketProofs!TypeOK'
    BY <2>1 DEF ControlInv, MarketProofs!IInv
  <2>3. Market!TypeOK
    BY <2>2, MarketTypes
  <2>4. Market!TypeOK'
    BY <2>2
    DEF MarketProofs!TypeOK, Market!TypeOK, MarketProofs!TokenIds, Market!TokenIds,
        MarketProofs!Outcome, Market!Outcome, MarketProofs!WinningOutcome,
        Market!WinningOutcome, MarketProofs!MarketState, Market!MarketState,
        MarketProofs!Holders, Market!Holders
  <2>5. QED
    BY <2>1, <2>2, <2>3, <2>4, CollateralNext DEF CollateralHeld
<1>3. ControlInv /\ CollateralHeld => CollateralBehindLenders
  <2>1. SUFFICES ASSUME ControlInv, CollateralHeld PROVE CollateralBehindLenders
    OBVIOUS
  <2>2. \A l \in Loans : AgreeInv(l) /\ CollateralInv(l)
    BY <2>1 DEF ControlInv, LoanInv, CollateralHeld
  <2>3. QED
    BY <2>2
    DEF AgreeInv, CollateralInv, HeldByContract, CollateralBehindLenders, Market!NoTokenId
<1>4. QED
  BY <1>1, <1>2, <1>3, ControlHolds, MarketInvariantHolds, PTL DEF Spec

-----------------------------------------------------------------------------
(* Payouts.  Claims are rounded down, so a position never claims more than   *)
(* its share of the pool; but a split gives the part split off its share of  *)
(* what was claimed rounded down as well, and what remains of the position   *)
(* may then have claimed more than its share.  By how much, scaled by the    *)
(* principal of the loan to stay with integers, is the excess of the         *)
(* position, and what is inductive is that the excess of all positions of a  *)
(* loan is less than its principal for every split of a position that had    *)
(* claimed (a split of one that had not gives nothing away).                 *)

-----------------------------------------------------------------------------
(* The fee, as a function of what was paid. *)

Surplus(x, f) == IF x <= f THEN 0 ELSE x - f
Fee(x, f, b) == (Surplus(x, f) * b) \div BasisPoints

LEMMA NoFee ==
  ASSUME NEW b \in 0 .. BasisPoints
  PROVE  b \in Nat /\ (0 * b) \div BasisPoints = 0
<1>1. b \in Nat
  BY DEF BasisPoints
<1>2. 0 * b = 0 /\ 0 \div BasisPoints = 0
  BY <1>1 DEF BasisPoints
<1>3. QED
  BY <1>1, <1>2

LEMMA FeeCases ==
  ASSUME NEW x \in Nat, NEW f \in Nat, NEW b \in 0 .. BasisPoints
  PROVE  Fee(x, f, b) = IF x <= f THEN 0 ELSE ((x - f) * b) \div BasisPoints
BY NoFee DEF Fee, Surplus

(* A part of an amount grows with it, and by no more than it does. *)
LEMMA PartGrows ==
  ASSUME NEW a \in Nat, NEW d \in Nat, NEW b \in 0 .. BasisPoints
  PROVE  /\ (a * b) \div BasisPoints \in Nat
         /\ (a * b) \div BasisPoints <= ((a + d) * b) \div BasisPoints
         /\ ((a + d) * b) \div BasisPoints <= (a * b) \div BasisPoints + d
<1>1. b \in Nat /\ b <= 10000
  BY DEF BasisPoints
<1>2. /\ a * b \in Nat /\ d * b \in Nat
      /\ (a + d) * b = a * b + d * b
  BY <1>1
<1>3. d * b <= d * 10000
  BY <1>1
<1> DEFINE m == a * b
           n == d * b
<1>4. m \in Nat /\ n \in Nat /\ n <= d * 10000 /\ (a + d) * b = m + n
  BY <1>2, <1>3
<1> HIDE DEF m, n
<1>5. m \div 10000 \in Nat /\ m \div 10000 <= (m + n) \div 10000
  BY <1>4
<1>6. (m + n) \div 10000 <= m \div 10000 + d
  BY <1>4
<1>7. QED
  BY <1>4, <1>5, <1>6 DEF BasisPoints, m

(* Whatever more is paid, neither the fee nor what is left of it shrinks. *)
LEMMA FeeGrows ==
  ASSUME NEW x \in Nat, NEW y \in Nat, NEW f \in Nat, NEW b \in 0 .. BasisPoints, x <= y
  PROVE  /\ Fee(x, f, b) \in Nat /\ Fee(x, f, b) <= x
         /\ Fee(x, f, b) <= Fee(y, f, b)
         /\ x - Fee(x, f, b) <= y - Fee(y, f, b)
<1> DEFINE s == Surplus(x, f)
           t == Surplus(y, f)
<1>1. s \in Nat /\ t - s \in Nat /\ s <= x /\ t - s <= y - x /\ s + (t - s) = t
  BY DEF Surplus
<1> HIDE DEF s, t
<1>2. /\ (s * b) \div BasisPoints \in Nat
      /\ (s * b) \div BasisPoints <= (t * b) \div BasisPoints
      /\ (t * b) \div BasisPoints <= (s * b) \div BasisPoints + (t - s)
  BY <1>1, PartGrows
<1>3. (s * b) \div BasisPoints <= s
  <2>1. ((0 + s) * b) \div BasisPoints <= (0 * b) \div BasisPoints + s
    BY <1>1, PartGrows
  <2>2. 0 + s = s /\ 0 * b = 0 /\ 0 \div BasisPoints = 0
    BY <1>1 DEF BasisPoints
  <2>3. QED
    BY <1>1, <2>1, <2>2
<1>4. (t * b) \div BasisPoints \in Nat
  <2>1. t \in Nat
    BY <1>1
  <2>2. QED
    BY <2>1, PartGrows
<1>5. Fee(x, f, b) = (s * b) \div BasisPoints /\ Fee(y, f, b) = (t * b) \div BasisPoints
  BY DEF Fee, s, t
<1>6. QED
  BY <1>1, <1>2, <1>3, <1>4, <1>5

LEMMA FeeNat ==
  ASSUME NEW x \in Nat, NEW f \in Nat, NEW b \in 0 .. BasisPoints
  PROVE  Fee(x, f, b) \in Nat /\ x - Fee(x, f, b) \in Nat
<1>1. x <= x
  OBVIOUS
<1>2. Fee(x, f, b) \in Nat /\ Fee(x, f, b) <= x
  BY <1>1, FeeGrows
<1>3. QED
  BY <1>2

(* The amounts of a loan, in the terms of the lemmas above. *)
LEMMA LoanTerms ==
  ASSUME Shape, Amounts, NEW l \in Loans
  PROVE  /\ loans[l].creditedAmount \in Nat /\ loans[l].fundedAmount \in Nat
         /\ loans[l].feeClaimedAmount \in Nat /\ loans[l].feeBps \in 0 .. BasisPoints
         /\ TotalProtocolFee(l)
              = Fee(loans[l].creditedAmount, loans[l].fundedAmount, loans[l].feeBps)
         /\ TotalProtocolFee(l) \in Nat
         /\ LenderPayoutPool(l) \in Nat
<1> DEFINE x == loans[l].creditedAmount
           f == loans[l].fundedAmount
           b == loans[l].feeBps
<1>1. /\ x \in Nat /\ f \in Nat /\ b \in 0 .. BasisPoints
      /\ loans[l].feeClaimedAmount \in Nat
  BY DEF Shape, LoanShape, LoanRecords, Amounts
<1>2. TotalProtocolFee(l) = IF x <= f THEN 0 ELSE ((x - f) * b) \div BasisPoints
  BY DEF TotalProtocolFee
<1>3. LenderPayoutPool(l) = x - TotalProtocolFee(l)
  BY DEF LenderPayoutPool
<1> HIDE DEF x, f, b
<1>4. TotalProtocolFee(l) = Fee(x, f, b)
  BY <1>1, <1>2, FeeCases
<1>5. TotalProtocolFee(l) \in Nat /\ LenderPayoutPool(l) \in Nat
  BY <1>1, <1>3, <1>4, FeeNat
<1>6. QED
  BY <1>1, <1>4, <1>5 DEF x, f, b

LEMMA NextTerms ==
  ASSUME Shape', Amounts', NEW l \in Loans
  PROVE  TotalProtocolFee(l)' \in Nat /\ LenderPayoutPool(l)' \in Nat
<1> DEFINE x == loans'[l].creditedAmount
           f == loans'[l].fundedAmount
           b == loans'[l].feeBps
<1>1. /\ x \in Nat /\ f \in Nat /\ b \in 0 .. BasisPoints
      /\ TotalProtocolFee(l)' = IF x <= f THEN 0 ELSE ((x - f) * b) \div BasisPoints
      /\ LenderPayoutPool(l)' = x - TotalProtocolFee(l)'
  BY DEF Shape, LoanShape, LoanRecords, Amounts, TotalProtocolFee, LenderPayoutPool
<1> HIDE DEF x, f, b
<1>2. TotalProtocolFee(l)' = Fee(x, f, b)
  BY <1>1, FeeCases
<1>3. QED
  BY <1>1, <1>2, FeeNat

-----------------------------------------------------------------------------
(* What a step does to a loan: it is paying out and still does, it is settled *)
(* by this step, or it is not settled.                                        *)

KeepsPaying(l) ==
  /\ Settled(l) /\ Settled(l)'
  /\ loans'[l].fundedAmount = loans[l].fundedAmount
  /\ loans'[l].feeBps = loans[l].feeBps
  /\ loans[l].creditedAmount <= loans'[l].creditedAmount
  /\ loans'[l].feeClaimedAmount \in {loans[l].feeClaimedAmount, TotalProtocolFee(l)}

Settles(l) ==
  /\ loans[l].state = "Active" /\ Settled(l)'
  /\ loans'[l].feeClaimedAmount = loans[l].feeClaimedAmount
  /\ UNCHANGED positionVars

StaysOpen(l) ==
  /\ ~ Settled(l) /\ ~ Settled(l)'
  /\ loans'[l].feeClaimedAmount = loans[l].feeClaimedAmount

LoanMoves(l) == KeepsPaying(l) \/ Settles(l) \/ StaysOpen(l)

LEMMA UntouchedLoan ==
  ASSUME Shape, NEW l \in Loans, loans'[l] = loans[l]
  PROVE  LoanMoves(l)
<1>1. loans[l].creditedAmount \in Nat
  BY DEF Shape, LoanShape, LoanRecords
<1>2. QED
  BY <1>1 DEF LoanMoves, KeepsPaying, StaysOpen, Settled

(* A step that changes one loan. *)
LEMMA OneLoanMoves ==
  ASSUME Shape, NEW l \in Loans, LoanMoves(l),
         \A k \in Loans \ {l} : loans'[k] = loans[k]
  PROVE  \A k \in Loans : LoanMoves(k)
BY UntouchedLoan

LEMMA StageMoves ==
  ASSUME Shape, NEW l \in Loans, NEW s,
         loans' = [loans EXCEPT ![l].state = s],
         \/ /\ loans[l].state \notin {"Repaid", "Defaulted"} /\ s \notin {"Repaid", "Defaulted"}
         \/ /\ loans[l].state = "Active" /\ s \in {"Repaid", "Defaulted"}
            /\ UNCHANGED positionVars
  PROVE  \A k \in Loans : LoanMoves(k)
<1>1. loans \in [Loans -> LoanRecords] /\ loans[l] \in LoanRecords
  BY DEF Shape, LoanShape
<1>2. /\ \A k \in Loans \ {l} : loans'[k] = loans[k]
      /\ loans'[l].state = s
      /\ loans'[l].feeClaimedAmount = loans[l].feeClaimedAmount
  BY <1>1 DEF LoanRecords
<1>3. LoanMoves(l)
  BY <1>2 DEF LoanMoves, Settles, StaysOpen, Settled
<1>4. QED
  BY <1>2, <1>3, OneLoanMoves

LEMMA CreditMoves ==
  ASSUME Shape, NEW l \in Loans, NEW amount \in Nat,
         \A k \in Loans \ {l} : loans'[k] = loans[k],
         loans'[l].state = loans[l].state,
         loans'[l].fundedAmount = loans[l].fundedAmount,
         loans'[l].feeBps = loans[l].feeBps,
         loans'[l].feeClaimedAmount = loans[l].feeClaimedAmount,
         loans'[l].creditedAmount = loans[l].creditedAmount + amount
  PROVE  \A k \in Loans : LoanMoves(k)
<1>1. loans[l].creditedAmount <= loans'[l].creditedAmount
  BY DEF Shape, LoanShape, LoanRecords
<1>2. LoanMoves(l)
  BY <1>1 DEF LoanMoves, KeepsPaying, StaysOpen, Settled
<1>3. QED
  BY <1>2, OneLoanMoves

LEMMA DepositMoves ==
  ASSUME Shape, NEW l \in Loans, NEW a \in PayAmounts, DepositToLoan(l, a)
  PROVE  \A k \in Loans : LoanMoves(k)
<1>1. a \in Nat /\ loans \in [Loans -> LoanRecords] /\ loans[l] \in LoanRecords
  BY InputsAssumption DEF Shape, LoanShape
<1>2. PICK t : loans' = [loans EXCEPT ![l].creditedAmount = @ + a, ![l].repaymentSatisfiedAt = t]
  BY <1>1 DEF DepositToLoan
<1>3. /\ \A k \in Loans \ {l} : loans'[k] = loans[k]
      /\ loans'[l].state = loans[l].state
      /\ loans'[l].fundedAmount = loans[l].fundedAmount
      /\ loans'[l].feeBps = loans[l].feeBps
      /\ loans'[l].feeClaimedAmount = loans[l].feeClaimedAmount
      /\ loans'[l].creditedAmount = loans[l].creditedAmount + a
  BY <1>1, <1>2 DEF LoanRecords
<1>4. QED
  BY <1>1, <1>3, CreditMoves

LEMMA RedeemMoves ==
  ASSUME Shape, Market!TypeOK, NEW l \in Loans, RedeemDefaultCollateral(l)
  PROVE  \A k \in Loans : LoanMoves(k)
<1> DEFINE amount == balanceOf[Market!NoTokenId(l)][LoanContract]
<1>1. amount \in Nat
  BY DEF Market!TypeOK, Market!NoTokenId, Market!TokenIds, Market!Outcome, Market!Holders
<1>2. loans \in [Loans -> LoanRecords] /\ loans[l] \in LoanRecords
  BY DEF Shape, LoanShape
<1>3. loans' = [loans EXCEPT ![l].creditedAmount = @ + amount]
  BY DEF RedeemDefaultCollateral
<1> HIDE DEF amount
<1>4. /\ \A k \in Loans \ {l} : loans'[k] = loans[k]
      /\ loans'[l].state = loans[l].state
      /\ loans'[l].fundedAmount = loans[l].fundedAmount
      /\ loans'[l].feeBps = loans[l].feeBps
      /\ loans'[l].feeClaimedAmount = loans[l].feeClaimedAmount
      /\ loans'[l].creditedAmount = loans[l].creditedAmount + amount
  BY <1>2, <1>3 DEF LoanRecords
<1>5. QED
  BY <1>1, <1>4, CreditMoves

LEMMA ClaimPlatformFeeMoves ==
  ASSUME Shape, Amounts, NEW l \in Loans, NEW caller, ClaimPlatformFee(l, caller)
  PROVE  \A k \in Loans : LoanMoves(k)
<1> DEFINE amount == TotalProtocolFee(l) - loans[l].feeClaimedAmount
<1>1. loans \in [Loans -> LoanRecords] /\ loans[l] \in LoanRecords
  BY DEF Shape, LoanShape
<1>2. Settled(l) /\ loans' = [loans EXCEPT ![l].feeClaimedAmount = @ + amount]
  BY DEF ClaimPlatformFee
<1>3. TotalProtocolFee(l) \in Nat /\ loans[l].feeClaimedAmount \in Nat /\ loans[l].creditedAmount \in Nat
  BY LoanTerms
<1>4. loans[l].feeClaimedAmount + amount = TotalProtocolFee(l)
  BY <1>3
<1> HIDE DEF amount
<1>5. /\ \A k \in Loans \ {l} : loans'[k] = loans[k]
      /\ loans'[l].state = loans[l].state
      /\ loans'[l].fundedAmount = loans[l].fundedAmount
      /\ loans'[l].feeBps = loans[l].feeBps
      /\ loans'[l].feeClaimedAmount = loans[l].feeClaimedAmount + amount
      /\ loans'[l].creditedAmount = loans[l].creditedAmount
  BY <1>1, <1>2 DEF LoanRecords
<1>6. LoanMoves(l)
  BY <1>2, <1>3, <1>4, <1>5 DEF LoanMoves, KeepsPaying, Settled
<1>7. QED
  BY <1>5, <1>6, OneLoanMoves

LEMMA OpenMoves ==
  ASSUME Shape, NEW l \in Loans,
         \A k \in Loans \ {l} : loans'[k] = loans[k],
         loans[l].state \notin {"Repaid", "Defaulted"},
         loans'[l].state \notin {"Repaid", "Defaulted"},
         loans'[l].feeClaimedAmount = loans[l].feeClaimedAmount
  PROVE  \A k \in Loans : LoanMoves(k)
<1>1. LoanMoves(l)
  BY DEF LoanMoves, StaysOpen, Settled
<1>2. QED
  BY <1>1, OneLoanMoves

LEMMA CreateLoanMoves ==
  ASSUME ControlInv, NEW u \in Users, NEW r \in LoanRequests, CreateLoan(u, r)
  PROVE  \A k \in Loans : LoanMoves(k)
<1>1. PICK l \in Loans : l = nextLoanId
  BY DEF CreateLoan
<1>2. Shape /\ LoanInv(l)
  BY DEF ControlInv
<1>3. loans[l].borrower = NoAddress
  BY <1>1, <1>2 DEF CreateLoan, Market!CreateProtoMarket, LoanInv, AgreeInv
<1>4. loans[l].state \in {"Funding", "Cancelled"}
  BY <1>2, <1>3 DEF LoanInv, StageInv
<1>5. /\ loans'[l].state = "Funding"
      /\ loans'[l].feeClaimedAmount = loans[l].feeClaimedAmount
      /\ \A k \in Loans \ {l} : loans'[k] = loans[k]
  BY <1>1, <1>2, CreatedLoan
<1>6. QED
  BY <1>2, <1>4, <1>5, OpenMoves

LEMMA FundMoves ==
  ASSUME Shape, NEW l \in Loans, NEW u \in Users, NEW a \in FundAmounts, Fund(l, u, a)
  PROVE  \A k \in Loans : LoanMoves(k)
<1>1. loans \in [Loans -> LoanRecords] /\ loans[l] \in LoanRecords /\ loans[l].state = "Funding"
  BY DEF Shape, LoanShape, Fund
<1>2. PICK x, s : /\ loans' = [loans EXCEPT ![l].fundedAmount = x, ![l].state = s]
                  /\ s \in {"Funding", "Funded"}
  <2> DEFINE remaining == loans[l].principal - loans[l].fundedAmount
             accepted == IF a > remaining THEN remaining ELSE a
             stage == IF loans[l].fundedAmount + accepted = loans[l].principal
                      THEN "Funded" ELSE loans[l].state
  <2>1. loans' = [loans EXCEPT ![l].fundedAmount = @ + accepted, ![l].state = stage]
    BY DEF Fund
  <2>2. stage \in {"Funding", "Funded"}
    BY <1>1
  <2> HIDE DEF stage, accepted
  <2>3. QED
    BY <2>1, <2>2
<1>3. /\ \A k \in Loans \ {l} : loans'[k] = loans[k]
      /\ loans'[l].state = s
      /\ loans'[l].feeClaimedAmount = loans[l].feeClaimedAmount
  BY <1>1, <1>2 DEF LoanRecords
<1>4. QED
  BY <1>1, <1>2, <1>3, OpenMoves

LEMMA ClaimFundingPrincipalMoves ==
  ASSUME Shape, NEW p \in PositionIds, NEW u \in Users, ClaimFundingPrincipal(p, u)
  PROVE  \A k \in Loans : LoanMoves(k)
<1>1. PICK l \in Loans : l = positions[p].loanId
  BY AccountsAssumption DEF Shape, PositionShape, ClaimFundingPrincipal, Holders
<1>2. /\ loans \in [Loans -> LoanRecords] /\ loans[l] \in LoanRecords
      /\ loans[l].state \in {"Funding", "Funded"}
  BY <1>1 DEF Shape, LoanShape, ClaimFundingPrincipal
<1>3. PICK x : loans' = [loans EXCEPT ![l].fundedAmount = x, ![l].state = "Funding"]
  BY <1>1 DEF ClaimFundingPrincipal
<1>4. /\ \A k \in Loans \ {l} : loans'[k] = loans[k]
      /\ loans'[l].state = "Funding"
      /\ loans'[l].feeClaimedAmount = loans[l].feeClaimedAmount
  BY <1>2, <1>3 DEF LoanRecords
<1>5. QED
  BY <1>2, <1>4, OpenMoves

LEMMA LoansMove ==
  ASSUME ControlInv, Amounts, Market!TypeOK, [Next]_vars
  PROVE  \A l \in Loans : LoanMoves(l)
<1>1. Shape
  BY DEF ControlInv
<1>2. ASSUME UNCHANGED loans PROVE \A l \in Loans : LoanMoves(l)
  BY <1>1, <1>2, UntouchedLoan
<1>3. CASE Tick \/ MarketUserStep
  BY <1>2, <1>3 DEF Tick, MarketUserStep
<1>4. CASE AdminNext
  <2>1. PICK c \in Admins :
          \/ SetOutcomeToken(c)
          \/ \E f \in FeeChoices : SetPlatformFeeBps(c, f)
          \/ \E r \in FeeRecipients : SetPlatformFeeRecipient(c, r)
          \/ \E a \in OwnerCandidates : TransferOwnership(c, a)
          \/ AcceptOwnership(c)
          \/ \E l \in Loans : ClaimPlatformFee(l, c)
    BY <1>4 DEF AdminNext
  <2>2. CASE \E l \in Loans : ClaimPlatformFee(l, c)
    BY <1>1, <2>2, ClaimPlatformFeeMoves
  <2>3. CASE ~ \E l \in Loans : ClaimPlatformFee(l, c)
    <3>1. UNCHANGED loans
      BY <2>1, <2>3
      DEF SetOutcomeToken, SetPlatformFeeBps, SetPlatformFeeRecipient, TransferOwnership,
          AcceptOwnership
    <3>2. QED
      BY <1>2, <3>1
  <2>4. QED
    BY <2>2, <2>3
<1>5. CASE LifecycleNext
  <2>1. PICK l \in Loans : \/ Activate(l) \/ SettleRepaid(l) \/ CancelExpiredLoan(l)
                            \/ MarkDefaulted(l) \/ RedeemDefaultCollateral(l)
    BY <1>5 DEF LifecycleNext
  <2>2. CASE Activate(l)
    BY <1>1, <2>2, StageMoves DEF Activate
  <2>3. CASE SettleRepaid(l)
    BY <1>1, <2>3, StageMoves DEF SettleRepaid
  <2>4. CASE CancelExpiredLoan(l)
    BY <1>1, <2>4, StageMoves DEF CancelExpiredLoan
  <2>5. CASE MarkDefaulted(l)
    BY <1>1, <2>5, StageMoves DEF MarkDefaulted
  <2>6. CASE RedeemDefaultCollateral(l)
    BY <1>1, <2>6, RedeemMoves
  <2>7. QED
    BY <2>1, <2>2, <2>3, <2>4, <2>5, <2>6
<1>6. CASE LoanNext
  BY <1>1, <1>6, CreateLoanMoves, FundMoves, DepositMoves DEF LoanNext
<1>7. CASE PositionNext
  <2>1. PICK p \in PositionIds, u \in Users :
          \/ ClaimFundingPrincipal(p, u) \/ ClaimSettled(p, u)
          \/ \E s \in SplitAmounts : SplitPosition(p, u, s)
          \/ \E to \in Holders : TransferPosition(p, u, to)
    BY <1>7 DEF PositionNext, Claim
  <2>2. CASE ClaimFundingPrincipal(p, u)
    BY <1>1, <2>2, ClaimFundingPrincipalMoves
  <2>3. CASE ~ ClaimFundingPrincipal(p, u)
    <3>1. UNCHANGED loans
      BY <2>1, <2>3 DEF ClaimSettled, SplitPosition, TransferPosition
    <3>2. QED
      BY <1>2, <3>1
  <2>4. QED
    BY <2>2, <2>3
<1>8. CASE UNCHANGED vars
  BY <1>2, <1>8 DEF vars
<1>9. QED
  BY <1>3, <1>4, <1>5, <1>6, <1>7, <1>8 DEF Next

-----------------------------------------------------------------------------
(* Positions not used yet. *)

UnusedInv == \A p \in PositionIds : p >= nextPositionId => positions[p] = UnsetPosition

(* A position with a holder is one that is used. *)
LEMMA HeldIsUsed ==
  ASSUME LedgerInv, NEW p \in PositionIds, positionOwner[p] # NoAddress
  PROVE  ~ (p >= nextPositionId)
BY DEF LedgerInv, PositionInv

(* What a step does to ids: it uses the next one or none, leaves those after  *)
(* it as they are, and changes the loan of none that is used.                 *)
IdsMove ==
  /\ nextPositionId' = nextPositionId \/ nextPositionId' = nextPositionId + 1
  /\ \A x \in PositionIds : x >= nextPositionId' => positions'[x] = positions[x]
  /\ \A x \in PositionIds : ~ (x >= nextPositionId) => positions'[x].loanId = positions[x].loanId

LEMMA FundIds ==
  ASSUME Shape, LedgerInv, NEW l \in Loans, NEW u \in Users, NEW a \in FundAmounts, Fund(l, u, a)
  PROVE  IdsMove
<1>1. positions \in [PositionIds -> PositionRecords] /\ nextPositionId \in Nat
  BY DEF Shape, PositionShape, LedgerInv, Amounts
<1>2. PICK rec : positions' = [positions EXCEPT ![nextPositionId] = rec]
  BY DEF Fund
<1>3. nextPositionId' = nextPositionId + 1
  BY DEF Fund
<1>4. \A x \in PositionIds : x \in Nat
  BY DEF PositionIds
<1>5. QED
  BY <1>1, <1>2, <1>3, <1>4 DEF IdsMove

LEMMA ClaimIds ==
  ASSUME Shape, LedgerInv, NEW p \in PositionIds, NEW u \in Users,
         ClaimFundingPrincipal(p, u) \/ ClaimSettled(p, u)
  PROVE  IdsMove
<1>1. positions \in [PositionIds -> PositionRecords] /\ nextPositionId \in Nat
  BY DEF Shape, PositionShape, LedgerInv, Amounts
<1>2. PICK c : positions' = [positions EXCEPT ![p].claimedAmount = c]
  BY DEF ClaimFundingPrincipal, ClaimSettled
<1>3. nextPositionId' = nextPositionId /\ positionOwner[p] = u /\ u # NoAddress
  BY AccountsAssumption DEF ClaimFundingPrincipal, ClaimSettled, Holders
<1>4. ~ (p >= nextPositionId)
  BY <1>3, HeldIsUsed
<1>5. QED
  BY <1>1, <1>2, <1>3, <1>4 DEF IdsMove, PositionRecords

LEMMA SplitIds ==
  ASSUME Shape, LedgerInv, NEW p \in PositionIds, NEW u \in Users, NEW s \in SplitAmounts,
         SplitPosition(p, u, s)
  PROVE  IdsMove
<1>1. positions \in [PositionIds -> PositionRecords] /\ nextPositionId \in Nat
  BY DEF Shape, PositionShape, LedgerInv, Amounts
<1> DEFINE x == positions[p].principalAmount - s
           c == positions[p].claimedAmount - SplitClaimedAmount(p, s)
           rec == [loanId |-> positions[p].loanId, principalAmount |-> s,
                   claimedAmount |-> SplitClaimedAmount(p, s), split |-> TRUE,
                   splitAfterClaim |-> positions[p].claimedAmount > 0]
<1>2. positions' = [positions EXCEPT ![p].principalAmount = x, ![p].claimedAmount = c,
                                     ![p].split = TRUE, ![nextPositionId] = rec]
  BY DEF SplitPosition
<1>3. nextPositionId' = nextPositionId + 1 /\ positionOwner[p] = u /\ u # NoAddress
  BY AccountsAssumption DEF SplitPosition, Holders
<1>4. ~ (p >= nextPositionId)
  BY <1>3, HeldIsUsed
<1>5. \A y \in PositionIds : y \in Nat
  BY DEF PositionIds
<1> HIDE DEF x, c, rec
<1>6. \A y \in PositionIds \ {p, nextPositionId} : positions'[y] = positions[y]
  BY <1>1, <1>2
<1>7. positions'[p].loanId = positions[p].loanId
  BY <1>1, <1>2, <1>4, <1>5 DEF PositionRecords
<1>8. QED
  BY <1>1, <1>3, <1>4, <1>5, <1>6, <1>7 DEF IdsMove

LEMMA SameIds ==
  ASSUME LedgerInv, UNCHANGED <<nextPositionId, positions>>
  PROVE  IdsMove
BY DEF IdsMove

LEMMA IdsMoveNext ==
  ASSUME Shape, LedgerInv, [Next]_vars
  PROVE  IdsMove
<1>1. CASE Tick \/ MarketUserStep \/ AdminNext \/ LifecycleNext \/ UNCHANGED vars
  <2>1. UNCHANGED positionVars
    BY <1>1
    DEF Tick, MarketUserStep, AdminNext, SetOutcomeToken, SetPlatformFeeBps,
        SetPlatformFeeRecipient, TransferOwnership, AcceptOwnership, ClaimPlatformFee,
        LifecycleNext, Activate, SettleRepaid, CancelExpiredLoan, MarkDefaulted,
        RedeemDefaultCollateral, vars, positionVars
  <2>2. QED
    BY <2>1, SameIds DEF positionVars
<1>2. CASE LoanNext
  <2>1. ASSUME NEW u \in Users, NEW r \in LoanRequests, CreateLoan(u, r)
        PROVE  IdsMove
    BY <2>1, SameIds DEF CreateLoan, positionVars
  <2>2. ASSUME NEW l \in Loans, NEW a \in PayAmounts, DepositToLoan(l, a)
        PROVE  IdsMove
    BY <2>2, SameIds DEF DepositToLoan, positionVars
  <2>3. QED
    BY <1>2, <2>1, <2>2, FundIds DEF LoanNext
<1>3. CASE PositionNext
  <2>1. ASSUME NEW p \in PositionIds, NEW u \in Users, NEW to \in Holders,
               TransferPosition(p, u, to)
        PROVE  IdsMove
    BY <2>1, SameIds DEF TransferPosition
  <2>2. QED
    BY <1>3, <2>1, ClaimIds, SplitIds DEF PositionNext, Claim
<1>4. QED
  BY <1>1, <1>2, <1>3 DEF Next

LEMMA UnusedNext ==
  ASSUME Shape, LedgerInv, UnusedInv, [Next]_vars
  PROVE  /\ UnusedInv'
         /\ \A p \in PositionIds :
              positions[p].loanId \in Loans => positions'[p].loanId = positions[p].loanId
<1>1. IdsMove
  BY IdsMoveNext
<1>2. \A x \in PositionIds : positions[x].loanId \in Loans => ~ (x >= nextPositionId)
  BY DEF UnusedInv, UnsetPosition, Loans
<1>3. \A x \in PositionIds : x >= nextPositionId' => x >= nextPositionId
  BY <1>1 DEF IdsMove, LedgerInv, Amounts, PositionIds
<1>4. QED
  BY <1>1, <1>2, <1>3 DEF IdsMove, UnusedInv

-----------------------------------------------------------------------------
(* Entitlements. *)

(* A share of a pool that does not shrink does not shrink, rounded down.      *)
LEMMA ShareGrows ==
  ASSUME NEW a \in Nat, NEW b \in Nat, NEW c \in Nat, NEW d \in Nat, a <= b, d > 0
  PROVE  (a * c) \div d <= (b * c) \div d
<1> DEFINE m == a * c
           n == b * c
<1>1. m \in Nat /\ n \in Nat /\ m <= n
  OBVIOUS
<1> HIDE DEF m, n
<1>2. m \div d <= n \div d
  BY <1>1
<1>3. QED
  BY <1>2 DEF m, n

(* The pool of a loan that is paying out does not shrink, nor does its fee.   *)
LEMMA PoolGrows ==
  ASSUME Shape, Shape', Amounts, Amounts', NEW l \in Loans, KeepsPaying(l)
  PROVE  /\ LenderPayoutPool(l) <= LenderPayoutPool(l)'
         /\ TotalProtocolFee(l) <= TotalProtocolFee(l)'
         /\ LenderPayoutPool(l)' \in Nat /\ TotalProtocolFee(l)' \in Nat
<1> DEFINE x == loans[l].creditedAmount
           y == loans'[l].creditedAmount
           f == loans[l].fundedAmount
           b == loans[l].feeBps
<1>1. /\ x \in Nat /\ f \in Nat /\ b \in 0 .. BasisPoints
      /\ TotalProtocolFee(l) = Fee(x, f, b)
  BY LoanTerms
<1>2. /\ y \in Nat /\ x <= y
      /\ TotalProtocolFee(l)' = IF y <= f THEN 0 ELSE ((y - f) * b) \div BasisPoints
  BY DEF Shape, LoanShape, LoanRecords, KeepsPaying, TotalProtocolFee
<1>3. TotalProtocolFee(l)' = Fee(y, f, b)
  <2> HIDE DEF y, f, b
  <2>1. QED
    BY <1>1, <1>2, FeeCases
<1>4. LenderPayoutPool(l) = x - TotalProtocolFee(l) /\ LenderPayoutPool(l)' = y - TotalProtocolFee(l)'
  BY DEF LenderPayoutPool
<1> HIDE DEF x, y, f, b
<1>5. Fee(x, f, b) <= Fee(y, f, b) /\ x - Fee(x, f, b) <= y - Fee(y, f, b)
  BY <1>1, <1>2, FeeGrows
<1>6. Fee(y, f, b) \in Nat /\ y - Fee(y, f, b) \in Nat
  BY <1>1, <1>2, FeeNat
<1>7. QED
  BY <1>1, <1>3, <1>4, <1>5, <1>6

LEMMA PayingLoan ==
  ASSUME Shape, NEW l \in Loans, LoanInv(l), Settled(l)
  PROVE  loans[l].fundedAmount > 0
BY DEF Shape, LoanShape, LoanRecords, LoanInv, StageInv, Settled

LEMMA EntitlementGrows ==
  ASSUME ControlInv, ControlInv', LedgerInv, LedgerInv', UnusedInv, Market!TypeOK, [Next]_vars,
         NEW p \in PositionIds, positions[p].loanId \in Loans, Settled(positions[p].loanId),
         positions'[p].principalAmount = positions[p].principalAmount
  PROVE  TotalEntitlement(p) <= TotalEntitlement(p)'
<1>1. PICK l \in Loans : l = positions[p].loanId
  OBVIOUS
<1>2. /\ Shape /\ Shape' /\ Amounts /\ Amounts' /\ LoanInv(l)
      /\ positions[p].principalAmount \in Nat /\ positions'[p].loanId = l
  BY <1>1, UnusedNext DEF ControlInv, LedgerInv, Amounts
<1>3. KeepsPaying(l)
  <2>1. LoanMoves(l)
    BY <1>2, LoansMove
  <2>2. QED
    BY <1>1, <2>1 DEF LoanMoves, Settles, StaysOpen, Settled
<1> DEFINE pr == positions[p].principalAmount
           f == loans[l].fundedAmount
           pool == LenderPayoutPool(l)
           pool2 == LenderPayoutPool(l)'
<1>4. pr \in Nat /\ f \in Nat /\ f > 0 /\ pool \in Nat /\ pool2 \in Nat /\ pool <= pool2
  BY <1>1, <1>2, <1>3, LoanTerms, PoolGrows, PayingLoan
<1>5. TotalEntitlement(p) = (pool * pr) \div f
  BY <1>1 DEF TotalEntitlement, Settled
<1>6. TotalEntitlement(p)' = (pool2 * pr) \div f
  BY <1>2, <1>3 DEF TotalEntitlement, Settled, KeepsPaying
<1> HIDE DEF pr, f, pool, pool2
<1>7. (pool * pr) \div f <= (pool2 * pr) \div f
  BY <1>4, ShareGrows
<1>8. QED
  BY <1>5, <1>6, <1>7

THEOREM UnusedHolds == Spec => []UnusedInv
<1>1. Init => UnusedInv
  BY DEF Init, UnusedInv
<1>2. ControlInv /\ LedgerInv /\ UnusedInv /\ [Next]_vars => UnusedInv'
  BY UnusedNext DEF ControlInv
<1>3. QED
  BY <1>1, <1>2, ControlHolds, LedgerHolds, PTL DEF Spec

(* Payments, claims, fee claims, splits of other positions, redeemed           *)
(* collateral and changes of the platform fee only leave what a position of a  *)
(* settled loan can claim in all, or raise it.                                 *)
THEOREM EntitlementsHold == Spec => EntitlementsNeverShrink
<1>1. ASSUME ControlInv, ControlInv', LedgerInv, LedgerInv', UnusedInv, MarketProofs!IInv,
             [Next]_vars
      PROVE  [\A p \in PositionIds :
                /\ positions[p].loanId \in Loans
                /\ Settled(positions[p].loanId)
                /\ positions[p].principalAmount' = positions[p].principalAmount
                => TotalEntitlement(p)' >= TotalEntitlement(p)]_vars
  <2>1. Market!TypeOK
    BY <1>1, MarketTypes DEF MarketProofs!IInv
  <2>2. ASSUME NEW p \in PositionIds, positions[p].loanId \in Loans,
               Settled(positions[p].loanId),
               positions[p].principalAmount' = positions[p].principalAmount
        PROVE  TotalEntitlement(p) <= TotalEntitlement(p)'
    BY <1>1, <2>1, <2>2, EntitlementGrows
  <2>3. \A x, y : x <= y => y >= x
    OBVIOUS
  <2>4. QED
    BY <2>2, <2>3
<1>2. QED
  BY <1>1, ControlHolds, LedgerHolds, UnusedHolds, MarketInvariantHolds, PTL
  DEF Spec, EntitlementsNeverShrink

-----------------------------------------------------------------------------
(* By how much a position has claimed more than its share r of a principal f,  *)
(* when the pool is w and it has claimed c: f times that, to stay with         *)
(* integers.                                                                   *)

Over(f, c, w, r) == IF f * c <= w * r THEN 0 ELSE f * c - w * r

LEMMA Cancel ==
  ASSUME NEW c \in Nat, c > 0, NEW a \in Int, NEW b \in Int, c * a <= c * b
  PROVE  a <= b
OBVIOUS

LEMMA ScaleUp ==
  ASSUME NEW a \in Nat, NEW b \in Nat, NEW c \in Nat, a <= b
  PROVE  c * a <= c * b /\ a * c <= b * c
OBVIOUS

LEMMA QuotientTimes ==
  ASSUME NEW a \in Nat, NEW b \in Nat, b > 0
  PROVE  /\ a \div b \in Nat /\ (a \div b) * b <= a /\ a <= (a \div b) * b + b
         /\ b * (a \div b) <= a
OBVIOUS

LEMMA OverBounds ==
  ASSUME NEW f \in Nat, NEW c \in Nat, NEW w \in Nat, NEW r \in Nat
  PROVE  /\ Over(f, c, w, r) \in Nat
         /\ f * c <= w * r + Over(f, c, w, r)
<1>1. f * c \in Nat /\ w * r \in Nat
  BY ProductNat
<1>2. QED
  BY <1>1 DEF Over

LEMMA OverNothing ==
  ASSUME NEW f \in Nat, NEW w \in Nat, NEW r \in Nat
  PROVE  Over(f, 0, w, r) = 0
<1>1. f * 0 = 0 /\ w * r \in Nat
  BY ProductNat
<1>2. QED
  BY <1>1 DEF Over

(* A larger pool leaves less of an excess. *)
LEMMA OverFalls ==
  ASSUME NEW f \in Nat, NEW c \in Nat, NEW w \in Nat, NEW r \in Nat, NEW v \in Nat, w <= v
  PROVE  Over(f, c, v, r) <= Over(f, c, w, r)
<1>1. f * c \in Nat /\ w * r \in Nat /\ v * r \in Nat
  BY ProductNat
<1>2. w * r <= v * r
  BY ScaleUp
<1>3. QED
  BY <1>1, <1>2 DEF Over

LEMMA QuotientBelow ==
  ASSUME NEW a \in Nat, NEW b \in Nat, b > 0
  PROVE  a \div b \in Nat /\ (a \div b) * b <= a /\ a < (a \div b) * b + b
OBVIOUS

LEMMA ScaleAbove ==
  ASSUME NEW a \in Nat, NEW b \in Nat, NEW c \in Nat, c > 0, a < b
  PROVE  c * a < c * b
OBVIOUS

LEMMA CancelStrictly ==
  ASSUME NEW c \in Nat, c > 0, NEW a \in Int, NEW b \in Int, c * a < c * b
  PROVE  a < b
OBVIOUS

(* A position that is split in two, and its claims in proportion, rounded      *)
(* down for the part split off, exceeds its share by no more than it did and   *)
(* less than a unit, that is less than f after scaling.                        *)
LEMMA SplitOver ==
  ASSUME NEW f \in Nat, NEW c \in Nat, NEW w \in Nat, NEW r \in Nat, NEW s \in Nat,
         f > 0, s > 0, s < r
  PROVE  Over(f, (c * s) \div r, w, s) + Over(f, c - (c * s) \div r, w, r - s)
           <= Over(f, c, w, r) + (f - 1)
<1> DEFINE d == (c * s) \div r
           e1 == f * d - w * s
           e == f * c - w * r
           e2 == f * (c - d) - w * (r - s)
<1>1. c * s \in Nat /\ d \in Nat /\ d * r <= c * s /\ c * s < d * r + r
  BY ProductNat, QuotientBelow
<1>2. d <= c
  BY SplitShare
<1> HIDE DEF d
<1>3. c - d \in Nat /\ r - s \in Nat
  BY <1>1, <1>2
<1>4. /\ f * d \in Nat /\ w * s \in Nat /\ f * c \in Nat /\ w * r \in Nat
      /\ f * (c - d) \in Nat /\ w * (r - s) \in Nat
  BY <1>1, <1>3, ProductNat
<1>5. f * (c - d) = f * c - f * d /\ w * (r - s) = w * r - w * s
  BY <1>1
<1>6. e1 + e2 = e /\ e1 \in Int /\ e2 \in Int /\ e \in Int
  BY <1>4, <1>5
<1>7. r * e1 <= s * e
  <2>1. f * (d * r) <= f * (c * s)
    <3>1. d * r \in Nat
      BY <1>1, ProductNat
    <3>2. QED
      BY <1>1, <3>1, ScaleUp
  <2>2. r * e1 = f * (d * r) - (w * s) * r
    BY <1>1
  <2>3. s * e = f * (c * s) - (w * s) * r
    OBVIOUS
  <2>4. f * (d * r) \in Int /\ f * (c * s) \in Int /\ (w * s) * r \in Int
    BY <1>1
  <2> HIDE DEF e1, e
  <2>5. QED
    BY <2>1, <2>2, <2>3, <2>4
<1>8. s * e < r * (e1 + f)
  <2>1. f * (c * s) < f * (d * r + r)
    <3>1. d * r + r \in Nat
      BY <1>1
    <3>2. QED
      BY <1>1, <3>1, ScaleAbove
  <2>2. r * (e1 + f) = f * (d * r + r) - (w * s) * r
    BY <1>1
  <2>3. s * e = f * (c * s) - (w * s) * r
    OBVIOUS
  <2>4. f * (d * r + r) \in Int /\ f * (c * s) \in Int /\ (w * s) * r \in Int
    BY <1>1
  <2> HIDE DEF e1, e
  <2>5. QED
    BY <2>1, <2>2, <2>3, <2>4
<1>9. /\ Over(f, d, w, s) = IF e1 <= 0 THEN 0 ELSE e1
      /\ Over(f, c - d, w, r - s) = IF e2 <= 0 THEN 0 ELSE e2
      /\ Over(f, c, w, r) = IF e <= 0 THEN 0 ELSE e
  BY <1>4 DEF Over
<1> HIDE DEF e, e1, e2
<1>10. CASE e >= 0
  <2>1. s * e >= 0 /\ s * e <= r * e
    BY <1>6, <1>10
  <2>2. r * 0 < r * (e1 + f)
    <3>1. s * e \in Int /\ r * (e1 + f) \in Int /\ r * 0 = 0
      BY <1>6
    <3>2. QED
      BY <1>8, <2>1, <3>1
  <2>3. 0 < e1 + f
    BY <1>6, <2>2, CancelStrictly
  <2>4. r * e1 <= r * e
    <3>1. s * e \in Int /\ r * e1 \in Int /\ r * e \in Int
      BY <1>6
    <3>2. QED
      BY <1>7, <2>1, <3>1
  <2>5. e1 <= e
    BY <1>6, <2>4, Cancel
  <2>6. QED
    BY <1>6, <1>9, <1>10, <2>3, <2>5 DEF d
<1>11. CASE e < 0
  <2>1. s * e <= 0 /\ r * e <= s * e
    BY <1>6, <1>11
  <2>2. r * e1 <= r * 0
    <3>1. s * e \in Int /\ r * e1 \in Int /\ r * 0 = 0
      BY <1>6
    <3>2. QED
      BY <1>7, <2>1, <3>1
  <2>3. e1 <= 0
    BY <1>6, <2>2, Cancel
  <2>4. r * e < r * (e1 + f)
    <3>1. s * e \in Int /\ r * (e1 + f) \in Int /\ r * e \in Int
      BY <1>6
    <3>2. QED
      BY <1>8, <2>1, <3>1
  <2>5. e < e1 + f
    BY <1>6, <2>4, CancelStrictly
  <2>6. QED
    BY <1>6, <1>9, <1>11, <2>3, <2>5 DEF d
<1>12. QED
  BY <1>6, <1>10, <1>11

-----------------------------------------------------------------------------
(* The invariant of the payouts. *)

Held(p, l) == positions[p].loanId = l /\ positionOwner[p] # NoAddress

Excess(l) ==
  [p \in PositionIds |->
     IF Held(p, l)
     THEN Over(loans[l].fundedAmount, positions[p].claimedAmount, LenderPayoutPool(l),
               positions[p].principalAmount)
     ELSE 0]

FeeInv(l) ==
  IF Settled(l) THEN loans[l].feeClaimedAmount <= TotalProtocolFee(l)
  ELSE loans[l].feeClaimedAmount = 0

ExcessInv(l) ==
  Settled(l) => Total(Excess(l), PositionIds)
                  <= (loans[l].fundedAmount - 1) * Cardinality(SplitsAfterClaim(l))

PayoutInv == \A l \in Loans : FeeInv(l) /\ ExcessInv(l)

LEMMA FeeNext ==
  ASSUME Shape, Shape', Amounts, Amounts', NEW l \in Loans, FeeInv(l), LoanMoves(l)
  PROVE  FeeInv(l)'
<1>1. CASE KeepsPaying(l)
  <2>1. TotalProtocolFee(l) <= TotalProtocolFee(l)' /\ TotalProtocolFee(l)' \in Nat
    BY <1>1, PoolGrows
  <2>2. TotalProtocolFee(l) \in Nat /\ loans[l].feeClaimedAmount \in Nat
    BY LoanTerms
  <2>3. /\ loans'[l].feeClaimedAmount \in {loans[l].feeClaimedAmount, TotalProtocolFee(l)}
        /\ Settled(l) /\ Settled(l)'
    BY <1>1 DEF KeepsPaying
  <2>4. loans[l].feeClaimedAmount <= TotalProtocolFee(l)
    BY <2>3 DEF FeeInv
  <2>5. loans'[l].feeClaimedAmount <= TotalProtocolFee(l)'
    BY <2>1, <2>2, <2>3, <2>4
  <2>6. QED
    BY <2>3, <2>5 DEF FeeInv
<1>2. CASE Settles(l)
  <2>1. ~ Settled(l) /\ Settled(l)'
    BY <1>2 DEF Settles, Settled
  <2>2. loans'[l].feeClaimedAmount = 0
    BY <1>2, <2>1 DEF Settles, FeeInv
  <2>3. TotalProtocolFee(l)' \in Nat
    BY NextTerms
  <2>4. QED
    BY <2>1, <2>2, <2>3 DEF FeeInv
<1>3. CASE StaysOpen(l)
  BY <1>3 DEF StaysOpen, FeeInv
<1>4. QED
  BY <1>1, <1>2, <1>3 DEF LoanMoves

LEMMA ExcessNat ==
  ASSUME Shape, Amounts, NEW l \in Loans
  PROVE  \A p \in PositionIds : Excess(l)[p] \in Nat
<1>1. loans[l].fundedAmount \in Nat /\ LenderPayoutPool(l) \in Nat
  BY LoanTerms
<1>2. \A p \in PositionIds :
        positions[p].principalAmount \in Nat /\ positions[p].claimedAmount \in Nat
  BY DEF Amounts
<1>3. QED
  BY <1>1, <1>2, OverBounds DEF Excess

LEMMA SplitsFinite ==
  ASSUME NEW l
  PROVE  IsFiniteSet(SplitsAfterClaim(l)) /\ Cardinality(SplitsAfterClaim(l)) \in Nat
<1>1. SplitsAfterClaim(l) \in SUBSET PositionIds
  BY DEF SplitsAfterClaim
<1>2. IsFiniteSet(SplitsAfterClaim(l))
  BY <1>1, PositionsFinite, FS_Subset
<1>3. QED
  BY <1>2, FS_CardinalityType

LEMMA PayingNext ==
  ASSUME ControlInv', NEW l \in Loans, Settled(l)'
  PROVE  loans'[l].fundedAmount > 0
BY DEF ControlInv, Shape, LoanShape, LoanRecords, LoanInv, StageInv, Settled

(* A loan that is settled by a step has paid nothing yet. *)
LEMMA SettlesExcess ==
  ASSUME ControlInv', Amounts', LedgerInv, NEW l \in Loans, Settles(l)
  PROVE  ExcessInv(l)'
<1>1. UNCHANGED <<positions, positionOwner>> /\ loans[l].state \in Unclaimed
  BY DEF Settles, positionVars, Unclaimed
<1>2. loans'[l].fundedAmount \in Nat
  BY DEF Amounts
<1>3. ASSUME NEW p \in PositionIds PROVE Excess(l)'[p] = 0
  <2>1. Held(p, l) => positions[p].claimedAmount = 0
    BY <1>1 DEF LedgerInv, PositionInv, Held
  <2>2. /\ Held(p, l)' <=> Held(p, l)
        /\ positions'[p].claimedAmount = positions[p].claimedAmount
        /\ positions'[p].principalAmount = positions[p].principalAmount
        /\ positions[p].principalAmount \in Nat
    BY <1>1 DEF Held, LedgerInv, Amounts
  <2> DEFINE f == loans'[l].fundedAmount
             w == LenderPayoutPool(l)'
             r == positions[p].principalAmount
  <2>3. Held(p, l) => Excess(l)'[p] = Over(f, 0, w, r)
    BY <2>1, <2>2 DEF Excess
  <2>4. ~ Held(p, l) => Excess(l)'[p] = 0
    BY <2>2 DEF Excess
  <2>5. Over(f, 0, w, r) = 0
    <3>1. f \in Nat /\ w \in Nat /\ r \in Nat
      BY <1>2, <2>2, NextTerms DEF ControlInv
    <3> HIDE DEF f, w, r
    <3>2. f * 0 = 0 /\ w * r \in Nat
      BY <3>1, ProductNat
    <3>3. QED
      BY <3>2 DEF Over
  <2>6. QED
    BY <2>3, <2>4, <2>5
<1> DEFINE ex == Excess(l)'
           n == Cardinality(SplitsAfterClaim(l))'
<1>4. Total(ex, PositionIds) = 0
  <2>1. \A p \in PositionIds : ex[p] = 0
    BY <1>3
  <2> HIDE DEF ex
  <2>2. QED
    BY <2>1, TotalZero
<1>5. n \in Nat
  <2>1. SplitsAfterClaim(l)' = SplitsAfterClaim(l)
    BY <1>1 DEF SplitsAfterClaim
  <2>2. QED
    BY <2>1, SplitsFinite
<1>6. ExcessInv(l)' <=> (Settled(l)' => Total(ex, PositionIds) <= (loans'[l].fundedAmount - 1) * n)
  BY DEF ExcessInv
<1> HIDE DEF ex, n
<1>7. Settled(l)' => (loans'[l].fundedAmount - 1) * n \in Nat
  <2>1. Settled(l)' => loans'[l].fundedAmount > 0
    BY PayingNext
  <2>2. Settled(l)' => loans'[l].fundedAmount - 1 \in Nat
    BY <1>2, <2>1
  <2>3. QED
    BY <1>5, <2>2, ProductNat
<1>8. QED
  BY <1>4, <1>6, <1>7

(* What a step other than a split does to a position of a loan that is paying *)
(* out: nothing, or it pays up to the share of the position.                  *)
PositionMoves(p, l) ==
  Held(p, l)' =>
    \/ /\ Held(p, l)
       /\ positions'[p].principalAmount = positions[p].principalAmount
       /\ positions'[p].claimedAmount = positions[p].claimedAmount
    \/ loans[l].fundedAmount * positions'[p].claimedAmount
         <= LenderPayoutPool(l) * positions'[p].principalAmount

PositionsMove(l) ==
  /\ \A p \in PositionIds : PositionMoves(p, l)
  /\ SplitsAfterClaim(l) \subseteq SplitsAfterClaim(l)'

LEMMA PositionExcess ==
  ASSUME Shape, Shape', Amounts, Amounts', NEW l \in Loans, KeepsPaying(l),
         NEW p \in PositionIds, PositionMoves(p, l)
  PROVE  Excess(l)'[p] <= Excess(l)[p]
<1> DEFINE f == loans[l].fundedAmount
           w == LenderPayoutPool(l)
           v == LenderPayoutPool(l)'
           c == positions[p].claimedAmount
           r == positions[p].principalAmount
           c2 == positions'[p].claimedAmount
           r2 == positions'[p].principalAmount
           e == Excess(l)[p]
           e2 == Excess(l)'[p]
<1>1. f \in Nat /\ w \in Nat /\ v \in Nat /\ w <= v
  BY LoanTerms, PoolGrows
<1>2. c \in Nat /\ r \in Nat /\ c2 \in Nat /\ r2 \in Nat /\ e \in Nat
  BY ExcessNat DEF Amounts
<1>3. e2 = IF Held(p, l)' THEN Over(f, c2, v, r2) ELSE 0
  BY DEF Excess, KeepsPaying
<1>4. Held(p, l) => e = Over(f, c, w, r)
  BY DEF Excess
<1>5. Held(p, l)' => (Held(p, l) /\ r2 = r /\ c2 = c) \/ f * c2 <= w * r2
  BY DEF PositionMoves
<1> HIDE DEF f, w, v, c, r, c2, r2, e, e2
<1>6. CASE ~ Held(p, l)'
  BY <1>2, <1>3, <1>6 DEF e, e2
<1>7. CASE Held(p, l)' /\ Held(p, l) /\ r2 = r /\ c2 = c
  <2>1. Over(f, c, v, r) <= Over(f, c, w, r)
    BY <1>1, <1>2, OverFalls
  <2>2. QED
    BY <1>3, <1>4, <1>7, <2>1 DEF e, e2
<1>8. CASE Held(p, l)' /\ f * c2 <= w * r2
  <2>1. f * c2 \in Nat /\ w * r2 \in Nat /\ v * r2 \in Nat
    BY <1>1, <1>2, ProductNat
  <2>2. w * r2 <= v * r2
    BY <1>1, <1>2, ScaleUp
  <2>3. Over(f, c2, v, r2) = 0
    BY <1>8, <2>1, <2>2 DEF Over
  <2>4. QED
    BY <1>2, <1>3, <1>8, <2>3 DEF e, e2
<1>9. QED
  BY <1>5, <1>6, <1>7, <1>8

LEMMA PayingExcess ==
  ASSUME Shape, Shape', Amounts, Amounts', NEW l \in Loans, LoanInv(l), KeepsPaying(l),
         PositionsMove(l), ExcessInv(l)
  PROVE  ExcessInv(l)'
<1> DEFINE f == loans[l].fundedAmount
           ex == Excess(l)
           ex2 == Excess(l)'
           n == Cardinality(SplitsAfterClaim(l))
           n2 == Cardinality(SplitsAfterClaim(l))'
<1>1. \A p \in PositionIds : ex2[p] <= ex[p]
  BY PositionExcess DEF PositionsMove
<1>2. \A p \in PositionIds : ex[p] \in Nat
  BY ExcessNat
<1>3. \A p \in PositionIds : ex2[p] \in Nat
  <2>1. \A p \in PositionIds :
          positions'[p].principalAmount \in Nat /\ positions'[p].claimedAmount \in Nat
    BY DEF Amounts
  <2>2. loans'[l].fundedAmount \in Nat /\ LenderPayoutPool(l)' \in Nat
    BY PoolGrows DEF Amounts
  <2>3. QED
    BY <2>1, <2>2, OverBounds DEF Excess
<1>4. Total(ex2, PositionIds) <= Total(ex, PositionIds)
  <2> HIDE DEF ex, ex2
  <2>1. QED
    BY <1>1, <1>2, <1>3, PositionsFinite, TotalMonotone
<1>5. Total(ex2, PositionIds) \in Nat /\ Total(ex, PositionIds) \in Nat
  <2> HIDE DEF ex, ex2
  <2>1. QED
    BY <1>2, <1>3, PositionsFinite, TotalNat
<1>6. n \in Nat /\ n2 \in Nat /\ n <= n2
  <2>1. SplitsAfterClaim(l)' \in SUBSET PositionIds
    BY DEF SplitsAfterClaim
  <2>2. IsFiniteSet(SplitsAfterClaim(l)') /\ Cardinality(SplitsAfterClaim(l)') \in Nat
    BY <2>1, PositionsFinite, FS_Subset, FS_CardinalityType
  <2>3. Cardinality(SplitsAfterClaim(l)) <= Cardinality(SplitsAfterClaim(l)')
    BY <2>2, FS_Subset DEF PositionsMove
  <2>4. QED
    BY <2>2, <2>3, SplitsFinite
<1>7. f \in Nat /\ f > 0
  BY LoanTerms, PayingLoan DEF KeepsPaying
<1>8. Settled(l) /\ Total(ex, PositionIds) <= (f - 1) * n
  BY DEF KeepsPaying, ExcessInv
<1>9. ExcessInv(l)' <=> (Settled(l)' => Total(ex2, PositionIds) <= (f - 1) * n2)
  BY DEF ExcessInv, KeepsPaying
<1> HIDE DEF f, ex, ex2, n, n2
<1>10. (f - 1) * n <= (f - 1) * n2 /\ (f - 1) * n \in Nat /\ (f - 1) * n2 \in Nat
  <2>1. f - 1 \in Nat
    BY <1>7
  <2>2. QED
    BY <1>6, <2>1, ScaleUp, ProductNat
<1>11. QED
  BY <1>4, <1>5, <1>8, <1>9, <1>10

LEMMA PositionsTotal ==
  ASSUME NEW f, NEW g, NEW a \in PositionIds, NEW b \in PositionIds, a # b,
         \A x \in PositionIds : f[x] \in Nat, g[a] \in Nat, g[b] \in Nat,
         \A x \in PositionIds \ {a, b} : g[x] = f[x]
  PROVE  Total(g, PositionIds) = Total(f, PositionIds) - f[a] - f[b] + g[a] + g[b]
BY PositionsFinite, TotalUpdateTwo

(* A split of a position of a loan that is paying out. *)
LEMMA SplitExcess ==
  ASSUME ControlInv, LedgerInv, Amounts', UnusedInv, NEW p \in PositionIds, NEW u \in Users,
         NEW s \in SplitAmounts, SplitPosition(p, u, s),
         NEW l \in Loans, l = positions[p].loanId, Settled(l), ExcessInv(l)
  PROVE  ExcessInv(l)'
<1>1. PICK q \in PositionIds : q = nextPositionId
  BY DEF SplitPosition
<1> DEFINE c == positions[p].claimedAmount
           r == positions[p].principalAmount
           part == SplitClaimedAmount(p, s)
           f == loans[l].fundedAmount
           w == LenderPayoutPool(l)
           ex == Excess(l)
           ex2 == Excess(l)'
           n == Cardinality(SplitsAfterClaim(l))
           n2 == Cardinality(SplitsAfterClaim(l))'
<1>2. /\ Shape /\ Amounts /\ positions \in [PositionIds -> PositionRecords]
      /\ positionOwner \in [PositionIds -> Holders \cup {NoAddress}]
      /\ c \in Nat /\ r \in Nat /\ s \in Nat /\ u # NoAddress
  BY InputsAssumption, AccountsAssumption
  DEF ControlInv, Shape, PositionShape, LedgerInv, Amounts, Holders
<1>3. f \in Nat /\ f > 0 /\ w \in Nat
  <2>1. LoanInv(l)
    BY DEF ControlInv
  <2>2. QED
    BY <1>2, <2>1, LoanTerms, PayingLoan
<1>4. /\ s > 0 /\ s < r /\ positionOwner[p] = u /\ loans' = loans
      /\ positions' = [positions EXCEPT
           ![p].principalAmount = @ - s, ![p].claimedAmount = @ - part, ![p].split = TRUE,
           ![q] = [loanId |-> positions[p].loanId, principalAmount |-> s,
                   claimedAmount |-> part, split |-> TRUE,
                   splitAfterClaim |-> positions[p].claimedAmount > 0]]
      /\ positionOwner' = [positionOwner EXCEPT ![q] = u]
  BY <1>1 DEF SplitPosition
<1>5. part = (c * s) \div r
  BY DEF SplitClaimedAmount
<1> HIDE DEF part
<1>6. /\ p # q /\ positions[q] = UnsetPosition
  <2>1. ~ (p >= nextPositionId)
    BY <1>2, <1>4, HeldIsUsed
  <2>2. q >= nextPositionId
    BY <1>1 DEF PositionIds
  <2>3. QED
    BY <1>1, <2>1, <2>2 DEF UnusedInv
<1>7. /\ \A x \in PositionIds \ {p, q} :
           positions'[x] = positions[x] /\ positionOwner'[x] = positionOwner[x]
      /\ positions'[p].loanId = l /\ positions'[q].loanId = l
      /\ positions'[p].principalAmount = r - s /\ positions'[p].claimedAmount = c - part
      /\ positions'[q].principalAmount = s /\ positions'[q].claimedAmount = part
      /\ positions'[p].splitAfterClaim = positions[p].splitAfterClaim
      /\ positions'[q].splitAfterClaim = (c > 0)
      /\ positionOwner'[p] = u /\ positionOwner'[q] = u
  BY <1>2, <1>4, <1>6 DEF PositionRecords
<1>8. w' = w /\ f' = f
  BY <1>4 DEF LenderPayoutPool, TotalProtocolFee
<1> HIDE DEF c, r
<1>9. /\ ex[p] = Over(f, c, w, r) /\ ex[q] = 0
      /\ ex2[p] = Over(f, c - part, w, r - s) /\ ex2[q] = Over(f, part, w, s)
      /\ \A x \in PositionIds \ {p, q} : ex2[x] = ex[x]
  <2>1. ex[p] = Over(f, c, w, r)
    BY <1>2, <1>4 DEF Excess, Held, c, r
  <2>2. ex[q] = 0
    BY <1>6 DEF Excess, Held, UnsetPosition, Loans
  <2>3. ex2[p] = Over(f, c - part, w, r - s) /\ ex2[q] = Over(f, part, w, s)
    BY <1>2, <1>7, <1>8 DEF Excess, Held
  <2>4. \A x \in PositionIds \ {p, q} : ex2[x] = ex[x]
    BY <1>7, <1>8 DEF Excess, Held
  <2>5. QED
    BY <2>1, <2>2, <2>3, <2>4
<1>10. n \in Nat /\ n2 \in Nat /\ n <= n2 /\ (c > 0 => n + 1 <= n2)
  <2> DEFINE old == SplitsAfterClaim(l)
             new == SplitsAfterClaim(l)'
  <2>1. /\ new \in SUBSET PositionIds /\ old \in SUBSET new /\ q \notin old
        /\ c > 0 => old \cup {q} \in SUBSET new
    <3>1. \A x \in PositionIds \ {q} :
            /\ positions'[x].loanId = positions[x].loanId
            /\ positions'[x].splitAfterClaim = positions[x].splitAfterClaim
      BY <1>7
    <3>2. q \notin old
      BY <1>6 DEF SplitsAfterClaim, UnsetPosition
    <3>3. c > 0 => q \in new
      BY <1>7 DEF SplitsAfterClaim
    <3>4. old \subseteq new
      BY <3>1, <3>2 DEF SplitsAfterClaim
    <3>5. new \subseteq PositionIds
      BY DEF SplitsAfterClaim
    <3> HIDE DEF old, new
    <3>6. QED
      BY <3>2, <3>3, <3>4, <3>5
  <2>2. IsFiniteSet(old) /\ n \in Nat
    BY SplitsFinite
  <2> HIDE DEF old, new
  <2>3. IsFiniteSet(new) /\ Cardinality(new) \in Nat
    BY <2>1, PositionsFinite, FS_Subset, FS_CardinalityType
  <2>4. Cardinality(old) <= Cardinality(new)
    BY <2>1, <2>3, FS_Subset
  <2>5. Cardinality(old \cup {q}) = Cardinality(old) + 1
    BY <2>1, <2>2, FS_AddElement
  <2>6. c > 0 => Cardinality(old \cup {q}) <= Cardinality(new)
    BY <2>1, <2>3, FS_Subset
  <2>7. n = Cardinality(old) /\ n2 = Cardinality(new)
    BY DEF old, new
  <2> HIDE DEF n, n2
  <2>8. QED
    BY <2>2, <2>3, <2>4, <2>5, <2>6, <2>7
<1>11. \A x \in PositionIds : ex[x] \in Nat
  BY <1>2, ExcessNat
<1>12. Total(ex, PositionIds) <= (f - 1) * n
  BY DEF ExcessInv
<1>13. ExcessInv(l)' <=> Total(ex2, PositionIds) <= (f - 1) * n2
  BY <1>4 DEF ExcessInv, Settled
<1> HIDE DEF f, w, ex, ex2, n, n2
<1>14. part \in Nat /\ c - part \in Nat /\ r - s \in Nat
  <2>1. c \in Nat /\ r \in Nat
    BY <1>2 DEF c, r
  <2>2. s \in Nat /\ s <= r /\ r > 0
    BY <1>2, <1>4, <2>1 DEF r
  <2>3. part = (c * s) \div r
    BY <1>5 DEF c, r
  <2> HIDE DEF part
  <2>4. part <= c /\ part \in Nat
    BY <2>1, <2>2, <2>3, SplitShare
  <2>5. QED
    BY <2>1, <2>2, <2>4
<1>15. ex2[p] \in Nat /\ ex2[q] \in Nat 
       /\ ex2[q] + ex2[p] <= ex[p] + (IF c > 0 THEN f - 1 ELSE 0)
  <2>1. c \in Nat /\ r \in Nat /\ s < r
    BY <1>2, <1>4 DEF c, r
  <2>2. ex2[p] \in Nat /\ ex2[q] \in Nat
    <3>1. Over(f, c - part, w, r - s) \in Nat
      BY <1>3, <1>14, OverBounds
    <3>2. Over(f, part, w, s) \in Nat
      BY <1>2, <1>3, <1>14, OverBounds
    <3>3. QED
      BY <1>9, <3>1, <3>2
  <2>3. Over(f, part, w, s) + Over(f, c - part, w, r - s) <= Over(f, c, w, r) + (f - 1)
    BY <1>2, <1>3, <1>4, <1>5, <2>1, SplitOver
  <2>4. CASE c > 0
    BY <1>9, <2>2, <2>3, <2>4
  <2>5. CASE ~ (c > 0)
    <3>1. c = 0
      BY <2>1, <2>5
    <3>2. part = 0
      <4>1. part <= c
        BY <1>14, <2>1
      <4>2. QED
        BY <1>14, <3>1, <4>1
    <3>3. Over(f, 0, w, s) = 0 /\ Over(f, 0, w, r - s) = 0
      BY <1>2, <1>3, <1>14, OverNothing
    <3>4. ex2[q] = 0 /\ ex2[p] = 0
      BY <1>9, <3>1, <3>2, <3>3
    <3>5. ex[p] \in Nat
      BY <1>11
    <3>6. QED
      BY <2>5, <3>4, <3>5
  <2>6. QED
    BY <2>4, <2>5
<1>16. Total(ex2, PositionIds) = Total(ex, PositionIds) - ex[p] - ex[q] + ex2[p] + ex2[q]
  <2>1. \A x \in PositionIds \ {p, q} : ex2[x] = ex[x]
    BY <1>9
  <2>2. p # q
    BY <1>6
  <2>3. ex2[p] \in Nat /\ ex2[q] \in Nat
    BY <1>15
  <2>4. QED
    BY <1>11, <2>1, <2>2, <2>3, PositionsTotal
<1>17. Total(ex, PositionIds) \in Nat
  BY <1>11, PositionsFinite, TotalNat
<1>18. Total(ex2, PositionIds) <= Total(ex, PositionIds) + (IF c > 0 THEN f - 1 ELSE 0)
  BY <1>3, <1>9, <1>11, <1>15, <1>16, <1>17
<1>19. /\ (f - 1) * n <= (f - 1) * n2
       /\ c > 0 => (f - 1) * n + (f - 1) <= (f - 1) * n2
  <2>1. f - 1 \in Nat
    BY <1>3
  <2>2. (f - 1) * n <= (f - 1) * n2 /\ (c > 0 => (f - 1) * (n + 1) <= (f - 1) * n2)
    BY <1>10, <2>1, ScaleUp
  <2>3. (f - 1) * (n + 1) = (f - 1) * n + (f - 1)
    BY <1>10, <2>1
  <2>4. QED
    BY <2>2, <2>3
<1>20. (f - 1) * n \in Nat /\ (f - 1) * n2 \in Nat /\ Total(ex2, PositionIds) \in Int
  <2>1. f - 1 \in Nat
    BY <1>3
  <2>2. QED
    BY <1>3, <1>10, <1>11, <1>15, <1>16, <1>17, <2>1, ProductNat
<1>21. Total(ex2, PositionIds) <= (f - 1) * n2
  BY <1>3, <1>12, <1>17, <1>18, <1>19, <1>20
<1>22. QED
  BY <1>13, <1>21

LEMMA SamePositionsMove ==
  ASSUME UNCHANGED positions, NEW l,
         \A x \in PositionIds : positionOwner'[x] = NoAddress <=> positionOwner[x] = NoAddress
  PROVE  PositionsMove(l)
BY DEF PositionsMove, PositionMoves, Held, SplitsAfterClaim

LEMMA FundPositions ==
  ASSUME Shape, LedgerInv, UnusedInv, NEW k \in Loans, NEW u \in Users, NEW a \in FundAmounts,
         Fund(k, u, a), NEW l \in Loans, Settled(l)
  PROVE  PositionsMove(l)
<1>1. PICK q \in PositionIds : q = nextPositionId
  BY DEF Fund
<1>2. PICK x : positions' = [positions EXCEPT ![q] =
        [loanId |-> k, principalAmount |-> x, claimedAmount |-> 0, split |-> FALSE,
         splitAfterClaim |-> FALSE]]
  BY <1>1 DEF Fund
<1>3. positionOwner' = [positionOwner EXCEPT ![q] = u] /\ k # l
  BY <1>1 DEF Fund, Settled
<1>4. positions[q] = UnsetPosition
  BY <1>1 DEF UnusedInv, PositionIds
<1>5. /\ \A y \in PositionIds \ {q} :
           positions'[y] = positions[y] /\ positionOwner'[y] = positionOwner[y]
      /\ positions'[q].loanId = k
  BY <1>2, <1>3 DEF Shape, PositionShape
<1>6. ~ Held(q, l)'
  BY <1>3, <1>5 DEF Held
<1>7. q \notin SplitsAfterClaim(l)
  BY <1>4 DEF SplitsAfterClaim, UnsetPosition
<1>8. \A y \in PositionIds : PositionMoves(y, l)
  BY <1>5, <1>6 DEF PositionMoves, Held
<1>9. SplitsAfterClaim(l) \subseteq SplitsAfterClaim(l)'
  BY <1>5, <1>7 DEF SplitsAfterClaim
<1>10. QED
  BY <1>8, <1>9 DEF PositionsMove

(* A claim changes what one position has claimed, and nothing else of it.      *)
LEMMA ClaimedPosition ==
  ASSUME Shape, NEW p \in PositionIds, NEW c,
         positions' = [positions EXCEPT ![p].claimedAmount = c]
  PROVE  /\ \A x \in PositionIds \ {p} : positions'[x] = positions[x]
         /\ positions'[p].loanId = positions[p].loanId
         /\ positions'[p].principalAmount = positions[p].principalAmount
         /\ positions'[p].claimedAmount = c
         /\ positions'[p].splitAfterClaim = positions[p].splitAfterClaim
         /\ \A l : SplitsAfterClaim(l)' = SplitsAfterClaim(l)
<1>1. positions \in [PositionIds -> PositionRecords] /\ positions[p] \in PositionRecords
  BY DEF Shape, PositionShape
<1>2. /\ \A x \in PositionIds \ {p} : positions'[x] = positions[x]
      /\ positions'[p].loanId = positions[p].loanId
      /\ positions'[p].principalAmount = positions[p].principalAmount
      /\ positions'[p].claimedAmount = c
      /\ positions'[p].splitAfterClaim = positions[p].splitAfterClaim
  BY <1>1 DEF PositionRecords
<1>3. \A x \in PositionIds :
        /\ positions'[x].loanId = positions[x].loanId
        /\ positions'[x].splitAfterClaim = positions[x].splitAfterClaim
  BY <1>2
<1>4. \A l : SplitsAfterClaim(l)' = SplitsAfterClaim(l)
  BY <1>3 DEF SplitsAfterClaim
<1>5. QED
  BY <1>2, <1>4

LEMMA WithdrawnPositions ==
  ASSUME Shape, NEW p \in PositionIds, NEW u \in Users, ClaimFundingPrincipal(p, u),
         NEW l \in Loans
  PROVE  PositionsMove(l)
<1>1. PICK c : positions' = [positions EXCEPT ![p].claimedAmount = c]
  BY DEF ClaimFundingPrincipal
<1>2. /\ positionOwner' = [positionOwner EXCEPT ![p] = NoAddress]
      /\ positionOwner \in [PositionIds -> Holders \cup {NoAddress}]
  BY DEF ClaimFundingPrincipal, Shape, PositionShape
<1>3. /\ \A x \in PositionIds \ {p} :
           positions'[x] = positions[x] /\ positionOwner'[x] = positionOwner[x]
      /\ positionOwner'[p] = NoAddress
      /\ SplitsAfterClaim(l)' = SplitsAfterClaim(l)
  BY <1>1, <1>2, ClaimedPosition
<1>4. QED
  BY <1>3 DEF PositionsMove, PositionMoves, Held

LEMMA ClaimedPositions ==
  ASSUME ControlInv, LedgerInv, NEW p \in PositionIds, NEW u \in Users, ClaimSettled(p, u),
         NEW l \in Loans, Settled(l)
  PROVE  PositionsMove(l)
<1> DEFINE e == TotalEntitlement(p)
           c == positions[p].claimedAmount
           r == positions[p].principalAmount
           f == loans[l].fundedAmount
           w == LenderPayoutPool(l)
<1>1. /\ Shape /\ LoanInv(l) /\ Amounts /\ c \in Nat /\ r \in Nat
      /\ positionOwner \in [PositionIds -> Holders \cup {NoAddress}]
  BY DEF ControlInv, LedgerInv, Amounts, Shape, PositionShape
<1>2. /\ positions' = [positions EXCEPT ![p].claimedAmount = c + (e - c)]
      /\ \A x \in PositionIds \ {p} : positionOwner'[x] = positionOwner[x]
  BY <1>1 DEF ClaimSettled
<1>3. /\ \A x \in PositionIds \ {p} : positions'[x] = positions[x]
      /\ positions'[p].loanId = positions[p].loanId
      /\ positions'[p].principalAmount = r
      /\ positions'[p].claimedAmount = c + (e - c)
      /\ SplitsAfterClaim(l)' = SplitsAfterClaim(l)
  BY <1>1, <1>2, ClaimedPosition
<1>4. ASSUME positions[p].loanId = l PROVE f * positions'[p].claimedAmount <= w * r
  <2>1. f \in Nat /\ f > 0 /\ w \in Nat
    BY <1>1, LoanTerms, PayingLoan
  <2>2. e = (w * r) \div f
    BY <1>4 DEF TotalEntitlement, Settled
  <2> HIDE DEF e, f, w, r, c
  <2>3. w * r \in Nat
    BY <1>1, <2>1, ProductNat
  <2>4. e \in Nat /\ f * e <= w * r
    BY <2>1, <2>2, <2>3, QuotientTimes
  <2>5. c + (e - c) = e
    BY <1>1, <2>4
  <2>6. QED
    BY <1>3, <2>4, <2>5
<1>5. PositionMoves(p, l)
  BY <1>3, <1>4 DEF PositionMoves, Held
<1>6. \A x \in PositionIds \ {p} : PositionMoves(x, l)
  BY <1>2, <1>3 DEF PositionMoves, Held
<1>7. QED
  BY <1>3, <1>5, <1>6 DEF PositionsMove

(* A split of a position of another loan. *)
LEMMA OtherSplit ==
  ASSUME Shape, LedgerInv, UnusedInv, NEW p \in PositionIds, NEW u \in Users,
         NEW s \in SplitAmounts, SplitPosition(p, u, s), NEW l \in Loans, positions[p].loanId # l
  PROVE  PositionsMove(l)
<1>1. PICK q \in PositionIds : q = nextPositionId
  BY DEF SplitPosition
<1> DEFINE k == positions[p].loanId
           x == positions[p].principalAmount - s
           c == positions[p].claimedAmount - SplitClaimedAmount(p, s)
           rec == [loanId |-> k, principalAmount |-> s,
                   claimedAmount |-> SplitClaimedAmount(p, s), split |-> TRUE,
                   splitAfterClaim |-> positions[p].claimedAmount > 0]
<1>2. /\ positions' = [positions EXCEPT ![p].principalAmount = x, ![p].claimedAmount = c,
                                        ![p].split = TRUE, ![q] = rec]
      /\ positionOwner' = [positionOwner EXCEPT ![q] = u]
      /\ positionOwner[p] = u /\ u # NoAddress
  BY <1>1, AccountsAssumption DEF SplitPosition, Holders
<1>3. p # q /\ positions[q] = UnsetPosition
  <2>1. ~ (p >= nextPositionId)
    BY <1>2, HeldIsUsed
  <2>2. q >= nextPositionId
    BY <1>1 DEF PositionIds
  <2>3. QED
    BY <1>1, <2>1, <2>2 DEF UnusedInv
<1>4. /\ positions \in [PositionIds -> PositionRecords]
      /\ positionOwner \in [PositionIds -> Holders \cup {NoAddress}]
      /\ rec.loanId = k
  BY DEF Shape, PositionShape
<1> HIDE DEF k, x, c, rec
<1>5. /\ \A y \in PositionIds \ {p, q} :
           positions'[y] = positions[y] /\ positionOwner'[y] = positionOwner[y]
      /\ positions'[p].loanId = positions[p].loanId /\ positions'[q].loanId = k
  BY <1>2, <1>3, <1>4 DEF PositionRecords
<1>6. k # l /\ 0 # l
  BY DEF k, Loans
<1>7. /\ \A y \in PositionIds \ {p, q} : PositionMoves(y, l)
      /\ ~ Held(p, l)' /\ ~ Held(q, l)'
  BY <1>5, <1>6 DEF PositionMoves, Held
<1>8. SplitsAfterClaim(l) \subseteq SplitsAfterClaim(l)'
  BY <1>3, <1>5, <1>6 DEF SplitsAfterClaim, UnsetPosition
<1>9. QED
  BY <1>7, <1>8 DEF PositionsMove, PositionMoves

LEMMA TransferredPositions ==
  ASSUME Shape, NEW p \in PositionIds, NEW u \in Users, NEW to \in Holders,
         TransferPosition(p, u, to), NEW l
  PROVE  PositionsMove(l)
<1>1. /\ UNCHANGED positions /\ positionOwner' = [positionOwner EXCEPT ![p] = to]
      /\ positionOwner[p] = u /\ u # NoAddress /\ to # NoAddress
      /\ positionOwner \in [PositionIds -> Holders \cup {NoAddress}]
  BY AccountsAssumption DEF TransferPosition, Holders, Shape, PositionShape
<1>2. \A x \in PositionIds : positionOwner'[x] = NoAddress <=> positionOwner[x] = NoAddress
  BY <1>1
<1>3. QED
  BY <1>1, <1>2, SamePositionsMove

LEMMA PositionsMoveNext ==
  ASSUME ControlInv, LedgerInv, UnusedInv, [Next]_vars, NEW l \in Loans, Settled(l)
  PROVE  \/ PositionsMove(l)
         \/ \E p \in PositionIds, u \in Users, s \in SplitAmounts :
              SplitPosition(p, u, s) /\ positions[p].loanId = l
<1>1. Shape
  BY DEF ControlInv
<1>2. ASSUME UNCHANGED positionVars PROVE PositionsMove(l)
  BY <1>2, SamePositionsMove DEF positionVars
<1>3. CASE Tick \/ MarketUserStep \/ AdminNext \/ LifecycleNext \/ UNCHANGED vars
  <2>1. UNCHANGED positionVars
    BY <1>3
    DEF Tick, MarketUserStep, AdminNext, SetOutcomeToken, SetPlatformFeeBps,
        SetPlatformFeeRecipient, TransferOwnership, AcceptOwnership, ClaimPlatformFee,
        LifecycleNext, Activate, SettleRepaid, CancelExpiredLoan, MarkDefaulted,
        RedeemDefaultCollateral, vars, positionVars
  <2>2. QED
    BY <1>2, <2>1
<1>4. CASE LoanNext
  <2>1. ASSUME NEW u \in Users, NEW r \in LoanRequests, CreateLoan(u, r)
        PROVE  PositionsMove(l)
    BY <1>2, <2>1 DEF CreateLoan
  <2>2. ASSUME NEW k \in Loans, NEW a \in PayAmounts, DepositToLoan(k, a)
        PROVE  PositionsMove(l)
    BY <1>2, <2>2 DEF DepositToLoan
  <2>3. QED
    BY <1>1, <1>4, <2>1, <2>2, FundPositions DEF LoanNext
<1>5. CASE PositionNext
  <2>1. PICK p \in PositionIds, u \in Users :
          \/ ClaimFundingPrincipal(p, u) \/ ClaimSettled(p, u)
          \/ \E s \in SplitAmounts : SplitPosition(p, u, s)
          \/ \E to \in Holders : TransferPosition(p, u, to)
    BY <1>5 DEF PositionNext, Claim
  <2>2. CASE ClaimFundingPrincipal(p, u)
    BY <1>1, <2>2, WithdrawnPositions
  <2>3. CASE ClaimSettled(p, u)
    BY <2>3, ClaimedPositions
  <2>4. CASE \E s \in SplitAmounts : SplitPosition(p, u, s)
    BY <1>1, <2>4, OtherSplit
  <2>5. CASE \E to \in Holders : TransferPosition(p, u, to)
    BY <1>1, <2>5, TransferredPositions
  <2>6. QED
    BY <2>1, <2>2, <2>3, <2>4, <2>5
<1>6. QED
  BY <1>3, <1>4, <1>5 DEF Next

LEMMA PayoutNext ==
  ASSUME ControlInv, ControlInv', LedgerInv, LedgerInv', UnusedInv, Market!TypeOK, PayoutInv,
         [Next]_vars
  PROVE  PayoutInv'
<1>1. Shape /\ Shape' /\ Amounts /\ Amounts'
  BY DEF ControlInv, LedgerInv
<1>2. ASSUME NEW l \in Loans PROVE FeeInv(l)' /\ ExcessInv(l)'
  <2>1. LoanMoves(l) /\ FeeInv(l) /\ ExcessInv(l) /\ LoanInv(l)
    BY <1>1, LoansMove DEF PayoutInv, ControlInv
  <2>2. FeeInv(l)'
    BY <1>1, <2>1, FeeNext
  <2>3. CASE KeepsPaying(l)
    <3>1. Settled(l)
      BY <2>3 DEF KeepsPaying
    <3>2. CASE PositionsMove(l)
      BY <1>1, <2>1, <2>2, <2>3, <3>2, PayingExcess
    <3>3. ASSUME NEW p \in PositionIds, NEW u \in Users, NEW s \in SplitAmounts,
                 SplitPosition(p, u, s), positions[p].loanId = l
          PROVE  ExcessInv(l)'
      BY <1>1, <2>1, <3>1, <3>3, SplitExcess
    <3>4. ExcessInv(l)'
      BY <3>1, <3>2, <3>3, PositionsMoveNext
    <3>5. QED
      BY <2>2, <3>4
  <2>4. CASE Settles(l)
    BY <1>1, <2>2, <2>4, SettlesExcess
  <2>5. CASE StaysOpen(l)
    BY <2>2, <2>5 DEF StaysOpen, ExcessInv
  <2>6. QED
    BY <2>1, <2>3, <2>4, <2>5 DEF LoanMoves
<1>3. QED
  BY <1>2 DEF PayoutInv

THEOREM PayoutsHold == Spec => []PayoutInv
<1>1. Init => PayoutInv
  BY DEF Init, PayoutInv, FeeInv, ExcessInv, Settled, UnsetLoan
<1>2. ASSUME ControlInv, ControlInv', LedgerInv, LedgerInv', UnusedInv, MarketProofs!IInv,
             PayoutInv, [Next]_vars
      PROVE  PayoutInv'
  <2>1. MarketProofs!TypeOK
    BY <1>2 DEF MarketProofs!IInv
  <2>2. Market!TypeOK
    BY <2>1, MarketTypes
  <2>3. QED
    BY <1>2, <2>2, PayoutNext
<1>3. QED
  BY <1>1, <1>2, ControlHolds, LedgerHolds, UnusedHolds, MarketInvariantHolds, PTL DEF Spec

(* The invariant bounds what was paid: account by account, scaled by the       *)
(* principal, and then in total.                                               *)
LEMMA PayoutsFollow ==
  ASSUME ControlInv, LedgerInv, NEW l \in Loans, Settled(l), ExcessInv(l)
  PROVE  loans[l].fundedAmount * Total(DueLedger(l), PositionIds)
           <= loans[l].fundedAmount * LenderPayoutPool(l)
                + (loans[l].fundedAmount - 1) * Cardinality(SplitsAfterClaim(l))
<1> DEFINE f == loans[l].fundedAmount
           w == LenderPayoutPool(l)
           owed == DueLedger(l)
           stake == StakeLedger(l)
           ex == Excess(l)
           n == Cardinality(SplitsAfterClaim(l))
<1>1. Shape /\ Amounts /\ LoanInv(l) /\ FundedInv(l)
  BY DEF ControlInv, LedgerInv
<1>2. f \in Nat /\ f > 0 /\ w \in Nat /\ n \in Nat
  BY <1>1, LoanTerms, PayingLoan, SplitsFinite
<1>3. ASSUME NEW p \in PositionIds
      PROVE  /\ owed[p] \in Nat /\ stake[p] \in Nat /\ ex[p] \in Nat
             /\ f * owed[p] <= w * stake[p] + ex[p]
  <2> DEFINE c == positions[p].claimedAmount
             r == positions[p].principalAmount
             e == (w * r) \div f
  <2>1. c \in Nat /\ r \in Nat
    BY <1>1 DEF Amounts
  <2>2. Held(p, l) => /\ owed[p] = IF e > c THEN e ELSE c
                      /\ stake[p] = r /\ ex[p] = Over(f, c, w, r)
    BY DEF DueLedger, StakeLedger, Excess, Held, TotalEntitlement, Settled
  <2>3. ~ Held(p, l) => owed[p] = 0 /\ stake[p] = 0 /\ ex[p] = 0
    BY DEF DueLedger, StakeLedger, Excess, Held
  <2> HIDE DEF f, w, owed, stake, ex, c, r
  <2>4. w * r \in Nat
    BY <1>2, <2>1, ProductNat
  <2>5. e \in Nat /\ f * e <= w * r
    BY <1>2, <2>4, QuotientTimes
  <2>6. f * c <= w * r + Over(f, c, w, r) /\ Over(f, c, w, r) \in Nat
    BY <1>2, <2>1, OverBounds
  <2> HIDE DEF e
  <2>7. CASE Held(p, l) /\ e > c
    <3>1. owed[p] = e /\ stake[p] = r /\ ex[p] = Over(f, c, w, r)
      BY <2>2, <2>7
    <3>2. ex[p] \in Nat /\ f * e \in Nat
      BY <1>2, <2>5, <2>6, <3>1, ProductNat
    <3>3. f * e <= w * r + ex[p]
      BY <2>4, <2>5, <3>2
    <3>4. QED
      BY <2>1, <2>5, <3>1, <3>2, <3>3
  <2>8. CASE Held(p, l) /\ ~ (e > c)
    BY <2>1, <2>2, <2>6, <2>8
  <2>9. CASE ~ Held(p, l)
    <3>1. f * 0 <= w * 0 + 0
      BY <1>2
    <3>2. QED
      BY <2>3, <2>9, <3>1
  <2>10. QED
    BY <2>7, <2>8, <2>9
<1>4. Total(stake, PositionIds) = f
  BY <1>1 DEF FundedInv, Stake, Settled
<1>5. Total(ex, PositionIds) <= (f - 1) * n
  BY DEF ExcessInv
<1> HIDE DEF f, w, owed, stake, ex, n
<1>6. f * Total(owed, PositionIds) <= w * f + Total(ex, PositionIds)
  <2>1. f * Total(owed, PositionIds) <= w * Total(stake, PositionIds) + Total(ex, PositionIds)
    BY <1>2, <1>3, PositionsFinite, TotalCompare
  <2>2. QED
    BY <1>4, <2>1
<1>7. Total(owed, PositionIds) \in Nat /\ Total(ex, PositionIds) \in Nat
  BY <1>3, PositionsFinite, TotalNat
<1>8. f * Total(owed, PositionIds) <= f * w + (f - 1) * n
  <2>1. f - 1 \in Nat /\ f * w = w * f
    BY <1>2
  <2>2. w * f \in Nat /\ (f - 1) * n \in Nat /\ f * Total(owed, PositionIds) \in Nat
    BY <1>2, <1>7, <2>1, ProductNat
  <2>3. QED
    BY <1>5, <1>6, <1>7, <2>1, <2>2
<1>9. QED
  BY <1>8 DEF f, owed, w, n

(* claim, claimPlatformFee, splitPosition, depositToLoan and                   *)
(* redeemDefaultCollateral, in whatever order, pay the platform at most its    *)
(* fee, and what lenders have claimed and can still claim is at most the rest  *)
(* and less than a unit for every split of a position that had claimed.        *)
THEOREM PayoutsAreBounded == Spec => []PayoutsBounded
<1>1. ControlInv /\ LedgerInv /\ PayoutInv => PayoutsBounded
  BY PayoutsFollow DEF PayoutsBounded, PayoutInv, FeeInv
<1>2. QED
  BY <1>1, ControlHolds, LedgerHolds, PayoutsHold, PTL
=============================================================================
