-------------------------- MODULE LoanPositionToken -------------------------
(***************************************************************************)
(* The lending contract (contracts/LoanPositionToken.sol) together with    *)
(* the outcome token contract whose markets it opens, activates, cancels   *)
(* and resolves (module OutcomeToken, instantiated below as Market).       *)
(*                                                                         *)
(* Lenders fund a loan in positions, each an ERC-1155 token of supply one; *)
(* the borrower locks collateral in the loan's market; anyone may activate *)
(* a funded loan, pay into it, settle it, cancel it or mark it defaulted   *)
(* when its deadlines allow; and the holders of positions claim what the   *)
(* loan has earned.  All loans share the one USDC balance of the contract. *)
(*                                                                         *)
(* A transaction is one step; a call that reverts is a step not enabled.   *)
(* block.timestamp is "now", which only Tick advances, so transactions of  *)
(* one block and of any later block are both covered.                      *)
(*                                                                         *)
(* Left out: as in OutcomeToken, allowances, callers' wallets, USDC sent   *)
(* outside the handlers, events, URIs and ERC-1155 receiver callbacks.     *)
(***************************************************************************)
EXTENDS Totals

CONSTANTS
  Users,              \* borrowers, lenders, traders
  LoanContract,       \* the address of this contract
  NoAddress,          \* address(0)
  Deployer,           \* the owner the constructor is given
  OwnerCandidates,    \* whom ownership may be offered to
  FeeRecipients,      \* platform fee recipients in use
  FeeChoices,         \* platform fees in use, in basis points
  LoanRequests,       \* arguments of createLoan
  FundAmounts,        \* arguments of fund
  PayAmounts,         \* arguments of depositToLoan
  SplitAmounts,       \* arguments of splitPosition
  MarketAmounts,      \* arguments of the handlers of OutcomeToken
  MaxLoans,           \* bound: loan ids
  MaxPositions,       \* bound: position ids
  MaxCredited,        \* bound: what is ever paid into a loan
  MaxTime,            \* bound: block timestamps
  MaxCustody,         \* bounds of OutcomeToken
  MaxPending

Loans == 1 .. MaxLoans
PositionIds == 1 .. MaxPositions
Holders == Users \cup {LoanContract}
Admins == {Deployer} \cup OwnerCandidates
BasisPoints == 10000

ASSUME LoanBoundsAssumption ==
  /\ MaxLoans \in Nat /\ MaxPositions \in Nat /\ MaxCredited \in Nat
  /\ MaxTime \in Nat /\ MaxTime >= 1 /\ MaxCustody \in Nat /\ MaxPending \in Nat
ASSUME AccountsAssumption ==
  /\ IsFiniteSet(Users) /\ LoanContract \notin Users
  /\ NoAddress \notin Holders /\ NoAddress \notin Admins
ASSUME InputsAssumption ==
  /\ FundAmounts \subseteq Nat /\ PayAmounts \subseteq Nat
  /\ SplitAmounts \subseteq Nat /\ MarketAmounts \subseteq Nat
  /\ FeeChoices \subseteq 0 .. BasisPoints /\ FeeChoices # {} /\ FeeRecipients # {}
  /\ \A r \in LoanRequests :
       r \in [principal : Nat, interestBps : Nat, collateralBps : Nat,
              loanWithdrawFreezeDeadline : Nat, activationDeadline : Nat,
              repaymentDeadline : Nat]

VARIABLES
  owner, pendingOwner, platformFeeBps, platformFeeRecipient,
  outcomeTokenSet,    \* whether the owner has set the outcome token contract
  nextLoanId, loans,
  nextPositionId, positions,
  positionOwner,      \* who holds the token of a position, NoAddress if none
  loanUsdc,           \* USDC.balanceOf(LoanPositionToken)
  now,                \* block.timestamp
  markets, pendingPairCollateral, pairCollateralMinted,
  borrowerCollateralDeposited, balanceOf, custody

Market == INSTANCE OutcomeToken
            WITH Markets <- Loans, Amounts <- MarketAmounts, Collaterals <- Nat

adminVars == <<owner, pendingOwner, platformFeeBps, platformFeeRecipient, outcomeTokenSet>>
positionVars == <<nextPositionId, positions, positionOwner>>
marketVars == <<markets, pendingPairCollateral, pairCollateralMinted,
                borrowerCollateralDeposited, balanceOf, custody>>
vars == <<adminVars, nextLoanId, loans, positionVars, loanUsdc, now, marketVars>>

LoanState == {"Funding", "Funded", "Active", "Cancelled", "Repaid", "Defaulted"}

(* What the mappings hold for a loan id or a position id not used yet. *)
UnsetLoan ==
  [borrower |-> NoAddress, principal |-> 0, repaymentAmount |-> 0,
   loanWithdrawFreezeDeadline |-> 0, activationDeadline |-> 0, repaymentDeadline |-> 0,
   fundedAmount |-> 0, creditedAmount |-> 0, repaymentSatisfiedAt |-> 0,
   feeClaimedAmount |-> 0, state |-> "Funding",
   feeBps |-> 0, feeRecipient |-> NoAddress, collateralBps |-> 0]

(* splitAfterClaim is no field of the code: it marks, for PayoutsBounded, a    *)
(* position that was split off one that had claimed.                           *)
UnsetPosition ==
  [loanId |-> 0, principalAmount |-> 0, claimedAmount |-> 0, split |-> FALSE,
   splitAfterClaim |-> FALSE]

LoanTypeOK ==
  loans \in [Loans ->
    [borrower : Users \cup {NoAddress}, principal : Nat, repaymentAmount : Nat,
     loanWithdrawFreezeDeadline : Nat, activationDeadline : Nat, repaymentDeadline : Nat,
     fundedAmount : Nat, creditedAmount : Nat, repaymentSatisfiedAt : Nat,
     feeClaimedAmount : Nat, state : LoanState,
     feeBps : 0 .. BasisPoints, feeRecipient : FeeRecipients \cup {NoAddress},
     collateralBps : Nat]]

PositionTypeOK ==
  /\ positions \in [PositionIds -> [loanId : Loans \cup {0}, principalAmount : Nat,
                                    claimedAmount : Nat, split : BOOLEAN,
                                    splitAfterClaim : BOOLEAN]]
  /\ positionOwner \in [PositionIds -> Holders \cup {NoAddress}]

TypeOK ==
  /\ owner \in Admins /\ pendingOwner \in OwnerCandidates \cup {NoAddress}
  /\ platformFeeBps \in 0 .. BasisPoints /\ platformFeeRecipient \in FeeRecipients
  /\ outcomeTokenSet \in BOOLEAN
  /\ nextLoanId \in 1 .. MaxLoans + 1 /\ nextPositionId \in 1 .. MaxPositions + 1
  /\ LoanTypeOK /\ PositionTypeOK
  /\ loanUsdc \in Nat /\ now \in 1 .. MaxTime
  /\ Market!TypeOK

Init ==
  /\ owner = Deployer /\ pendingOwner = NoAddress /\ outcomeTokenSet = FALSE
  /\ platformFeeBps \in FeeChoices /\ platformFeeRecipient \in FeeRecipients
  /\ nextLoanId = 1 /\ loans = [l \in Loans |-> UnsetLoan]
  /\ nextPositionId = 1 /\ positions = [p \in PositionIds |-> UnsetPosition]
  /\ positionOwner = [p \in PositionIds |-> NoAddress]
  /\ loanUsdc = 0 /\ now = 1
  /\ Market!Init

-----------------------------------------------------------------------------
(* What a loan and a position are worth. *)

Created(l) == loans[l].borrower # NoAddress
Settled(l) == loans[l].state \in {"Repaid", "Defaulted"}

BorrowerCollateralAmount(principal, collateralBps) ==
  (principal * collateralBps) \div BasisPoints

TotalProtocolFeeNow(l) ==     \* slip: the fee of today, not that of the loan
  LET loan == loans[l] IN
  IF loan.creditedAmount <= loan.fundedAmount THEN 0
  ELSE ((loan.creditedAmount - loan.fundedAmount) * platformFeeBps) \div BasisPoints

(* _totalProtocolFee: the platform's part of what was paid above the principal. *)
TotalProtocolFee(l) ==
  LET loan == loans[l] IN
  IF loan.creditedAmount <= loan.fundedAmount THEN 0
  ELSE ((loan.creditedAmount - loan.fundedAmount) * loan.feeBps) \div BasisPoints

LenderPayoutPoolLessClaims(l) ==     \* slip: fees that were claimed count twice
  loans[l].creditedAmount - TotalProtocolFee(l) - loans[l].feeClaimedAmount
LenderPayoutPool(l) == loans[l].creditedAmount - TotalProtocolFee(l)

(* What a position of a cancelled or settled loan can claim in all. *)
TotalEntitlement(p) ==
  LET l == positions[p].loanId IN
  IF loans[l].state = "Cancelled" THEN positions[p].principalAmount
  ELSE (LenderPayoutPool(l) * positions[p].principalAmount) \div loans[l].fundedAmount

SplitClaimsNothing(p, splitPrincipal) == 0     \* slip
(* The part of what was claimed that goes with the part split off. *)
SplitClaimedAmount(p, splitPrincipal) ==
  (positions[p].claimedAmount * splitPrincipal) \div positions[p].principalAmount

-----------------------------------------------------------------------------
(* Handlers with a slip in them.  They are part of no behaviour: each, put in  *)
(* the place of the handler it resembles, is to be refuted by a property.      *)

FundTakesAll(l, lender, amount) ==     \* the unused part of the amount is taken too
  LET loan == loans[l]
      remaining == loan.principal - loan.fundedAmount
      accepted == IF amount > remaining THEN remaining ELSE amount
      p == nextPositionId
  IN
  /\ loan.state = "Funding" /\ now < loan.activationDeadline /\ amount > 0
  /\ p \in PositionIds /\ nextPositionId' = p + 1
  /\ positions' = [positions EXCEPT ![p] =
       [loanId |-> l, principalAmount |-> accepted, claimedAmount |-> 0, split |-> FALSE,
        splitAfterClaim |-> FALSE]]
  /\ positionOwner' = [positionOwner EXCEPT ![p] = lender]
  /\ loans' = [loans EXCEPT
       ![l].fundedAmount = @ + accepted,
       ![l].state = IF loan.fundedAmount + accepted = loan.principal THEN "Funded" ELSE @]
  /\ loanUsdc' = loanUsdc + amount
  /\ UNCHANGED <<adminVars, nextLoanId, now, marketVars>>

DepositLate(l, amount) ==     \* the deadline is not tested
  LET loan == loans[l] IN
  /\ loan.state \in {"Active", "Repaid", "Defaulted"}
  /\ amount > 0 /\ loan.creditedAmount + amount <= MaxCredited
  /\ loans' = [loans EXCEPT
       ![l].creditedAmount = @ + amount,
       ![l].repaymentSatisfiedAt =
          IF loan.state = "Active" /\ @ = 0 /\ loan.creditedAmount + amount >= loan.repaymentAmount
          THEN now ELSE @]
  /\ loanUsdc' = loanUsdc + amount
  /\ UNCHANGED <<adminVars, nextLoanId, positionVars, now, marketVars>>

CancelLoanOnly(l) ==     \* the market of the loan stays open
  /\ loans[l].state \in {"Funding", "Funded"}
  /\ now > loans[l].activationDeadline /\ outcomeTokenSet
  /\ loans' = [loans EXCEPT ![l].state = "Cancelled"]
  /\ UNCHANGED <<adminVars, nextLoanId, positionVars, loanUsdc, now, marketVars>>

MarkUnpaidDefaulted(l) ==     \* a loan paid in part is not defaulted
  /\ loans[l].state = "Active" /\ now > loans[l].repaymentDeadline
  /\ loans[l].creditedAmount = 0 /\ outcomeTokenSet
  /\ loans' = [loans EXCEPT ![l].state = "Defaulted"]
  /\ Market!ResolveMarket(l, "No")
  /\ UNCHANGED <<adminVars, nextLoanId, positionVars, loanUsdc, now>>

MarkPaidDefaulted(l) ==     \* a loan paid in time and not settled yet is defaulted
  /\ loans[l].state = "Active" /\ now > loans[l].repaymentDeadline /\ outcomeTokenSet
  /\ loans' = [loans EXCEPT ![l].state = "Defaulted"]
  /\ Market!ResolveMarket(l, "No")
  /\ UNCHANGED <<adminVars, nextLoanId, positionVars, loanUsdc, now>>

RedeemUncredited(l) ==     \* the lenders are not credited
  LET amount == balanceOf[Market!NoTokenId(l)][LoanContract] IN
  /\ loans[l].state = "Defaulted" /\ outcomeTokenSet
  /\ Market!Redeem(l, LoanContract, "No", amount)
  /\ loanUsdc' = loanUsdc + amount
  /\ UNCHANGED <<adminVars, nextLoanId, loans, positionVars, now>>

RedeemOnce(l) ==     \* NO tokens that arrive after the first redemption are left
  LET amount == balanceOf[Market!NoTokenId(l)][LoanContract] IN
  /\ loans[l].state = "Defaulted" /\ outcomeTokenSet
  /\ loans[l].creditedAmount = 0
  /\ Market!Redeem(l, LoanContract, "No", amount)
  /\ loans' = [loans EXCEPT ![l].creditedAmount = @ + amount]
  /\ loanUsdc' = loanUsdc + amount
  /\ UNCHANGED <<adminVars, nextLoanId, positionVars, now>>

WithdrawKeepsFunded(p, caller) ==     \* a funded loan stays Funded
  LET l == positions[p].loanId
      amount == positions[p].principalAmount - positions[p].claimedAmount
  IN
  /\ positionOwner[p] = caller /\ loans[l].state \in {"Funding", "Funded"}
  /\ now < loans[l].loanWithdrawFreezeDeadline
  /\ amount > 0 /\ amount <= loanUsdc
  /\ positions' = [positions EXCEPT ![p].claimedAmount = @ + amount]
  /\ loans' = [loans EXCEPT ![l].fundedAmount = @ - amount]
  /\ positionOwner' = [positionOwner EXCEPT ![p] = NoAddress]
  /\ loanUsdc' = loanUsdc - amount
  /\ UNCHANGED <<adminVars, nextLoanId, nextPositionId, now, marketVars>>

WithdrawWholeLoan(p, caller) ==     \* the whole principal leaves the funded amount
  LET l == positions[p].loanId
      amount == positions[p].principalAmount - positions[p].claimedAmount
  IN
  /\ positionOwner[p] = caller /\ loans[l].state \in {"Funding", "Funded"}
  /\ now < loans[l].loanWithdrawFreezeDeadline
  /\ amount > 0 /\ amount <= loanUsdc
  /\ positions' = [positions EXCEPT ![p].claimedAmount = @ + amount]
  /\ loans' = [loans EXCEPT ![l].fundedAmount = @ - loans[l].principal, ![l].state = "Funding"]
  /\ positionOwner' = [positionOwner EXCEPT ![p] = NoAddress]
  /\ loanUsdc' = loanUsdc - amount
  /\ UNCHANGED <<adminVars, nextLoanId, nextPositionId, now, marketVars>>

-----------------------------------------------------------------------------
(* Administration by the owner of the contract. *)

SetOutcomeToken(caller) ==
  /\ caller = owner
  /\ ~outcomeTokenSet
  /\ outcomeTokenSet' = TRUE
  /\ UNCHANGED <<owner, pendingOwner, platformFeeBps, platformFeeRecipient,
                 nextLoanId, loans, positionVars, loanUsdc, now, marketVars>>

SetPlatformFeeBps(caller, newFeeBps) ==
  /\ caller = owner
  /\ platformFeeBps' = newFeeBps
  /\ UNCHANGED <<owner, pendingOwner, platformFeeRecipient, outcomeTokenSet,
                 nextLoanId, loans, positionVars, loanUsdc, now, marketVars>>

SetPlatformFeeRecipient(caller, newRecipient) ==
  /\ caller = owner
  /\ platformFeeRecipient' = newRecipient
  /\ UNCHANGED <<owner, pendingOwner, platformFeeBps, outcomeTokenSet,
                 nextLoanId, loans, positionVars, loanUsdc, now, marketVars>>

TransferOwnership(caller, newOwner) ==
  /\ caller = owner
  /\ pendingOwner' = newOwner
  /\ UNCHANGED <<owner, platformFeeBps, platformFeeRecipient, outcomeTokenSet,
                 nextLoanId, loans, positionVars, loanUsdc, now, marketVars>>

AcceptOwnership(caller) ==
  /\ caller = pendingOwner
  /\ owner' = pendingOwner
  /\ pendingOwner' = NoAddress
  /\ UNCHANGED <<platformFeeBps, platformFeeRecipient, outcomeTokenSet,
                 nextLoanId, loans, positionVars, loanUsdc, now, marketVars>>

-----------------------------------------------------------------------------
(* The life of a loan. *)

CreateLoan(borrower, request) ==
  LET l == nextLoanId IN
  /\ l \in Loans
  /\ outcomeTokenSet
  /\ request.principal > 0 /\ request.collateralBps > 0
  /\ now < request.activationDeadline
  /\ request.loanWithdrawFreezeDeadline <= request.activationDeadline
  /\ request.activationDeadline < request.repaymentDeadline
  /\ nextLoanId' = l + 1
  /\ loans' = [loans EXCEPT
       ![l].borrower = borrower,
       ![l].principal = request.principal,
       ![l].repaymentAmount =
          request.principal + (request.principal * request.interestBps) \div BasisPoints,
       ![l].loanWithdrawFreezeDeadline = request.loanWithdrawFreezeDeadline,
       ![l].activationDeadline = request.activationDeadline,
       ![l].repaymentDeadline = request.repaymentDeadline,
       ![l].state = "Funding",
       ![l].feeBps = platformFeeBps,
       ![l].feeRecipient = platformFeeRecipient,
       ![l].collateralBps = request.collateralBps]
  /\ Market!CreateProtoMarket(l, borrower,
       BorrowerCollateralAmount(request.principal, request.collateralBps))
  /\ UNCHANGED <<adminVars, positionVars, loanUsdc, now>>

Fund(l, lender, amount) ==
  LET loan == loans[l]
      remaining == loan.principal - loan.fundedAmount
      accepted == IF amount > remaining THEN remaining ELSE amount
      p == nextPositionId
  IN
  /\ loan.state = "Funding"
  /\ now < loan.activationDeadline
  /\ amount > 0
  /\ p \in PositionIds
  /\ nextPositionId' = p + 1
  /\ positions' = [positions EXCEPT ![p] =
       [loanId |-> l, principalAmount |-> accepted, claimedAmount |-> 0, split |-> FALSE,
        splitAfterClaim |-> FALSE]]
  /\ positionOwner' = [positionOwner EXCEPT ![p] = lender]
  /\ loans' = [loans EXCEPT
       ![l].fundedAmount = @ + accepted,
       ![l].state = IF loan.fundedAmount + accepted = loan.principal THEN "Funded" ELSE @]
  /\ loanUsdc' = loanUsdc + accepted
  /\ UNCHANGED <<adminVars, nextLoanId, now, marketVars>>

Activate(l) ==
  /\ loans[l].state = "Funded"
  /\ loans[l].loanWithdrawFreezeDeadline <= now
  /\ now <= loans[l].activationDeadline
  /\ outcomeTokenSet
  /\ loans[l].principal <= loanUsdc
  /\ loanUsdc' = loanUsdc - loans[l].principal
  /\ loans' = [loans EXCEPT ![l].state = "Active"]
  /\ Market!ActivateMarket(l)
  /\ UNCHANGED <<adminVars, nextLoanId, positionVars, now>>

DepositToLoan(l, amount) ==
  LET loan == loans[l]
      satisfies == /\ loan.state = "Active"
                   /\ loan.repaymentSatisfiedAt = 0
                   /\ loan.creditedAmount + amount >= loan.repaymentAmount
  IN
  /\ loan.state \in {"Active", "Repaid", "Defaulted"}
  /\ loan.state = "Active" => now <= loan.repaymentDeadline
  /\ amount > 0
  /\ loan.creditedAmount + amount <= MaxCredited
  /\ loans' = [loans EXCEPT
       ![l].creditedAmount = @ + amount,
       ![l].repaymentSatisfiedAt = IF satisfies THEN now ELSE @]
  /\ loanUsdc' = loanUsdc + amount
  /\ UNCHANGED <<adminVars, nextLoanId, positionVars, now, marketVars>>

SettleRepaid(l) ==
  LET loan == loans[l] IN
  /\ loan.state = "Active"
  /\ loan.creditedAmount >= loan.repaymentAmount
  /\ loan.repaymentSatisfiedAt # 0
  /\ loan.repaymentSatisfiedAt <= loan.repaymentDeadline
  /\ outcomeTokenSet
  /\ loans' = [loans EXCEPT ![l].state = "Repaid"]
  /\ Market!ResolveMarket(l, "Yes")
  /\ UNCHANGED <<adminVars, nextLoanId, positionVars, loanUsdc, now>>

(* There is no test that the loan exists: an id not opened yet can be          *)
(* cancelled, and createLoan opens it all the same.                            *)
CancelExpiredLoan(l) ==
  /\ loans[l].state \in {"Funding", "Funded"}
  /\ now > loans[l].activationDeadline
  /\ outcomeTokenSet
  /\ loans' = [loans EXCEPT ![l].state = "Cancelled"]
  /\ Market!CancelMarket(l)
  /\ UNCHANGED <<adminVars, nextLoanId, positionVars, loanUsdc, now>>

MarkDefaulted(l) ==
  LET loan == loans[l] IN
  /\ loan.state = "Active"
  /\ now > loan.repaymentDeadline
  /\ ~ (loan.repaymentSatisfiedAt # 0 /\ loan.repaymentSatisfiedAt <= loan.repaymentDeadline)
  /\ outcomeTokenSet
  /\ loans' = [loans EXCEPT ![l].state = "Defaulted"]
  /\ Market!ResolveMarket(l, "No")
  /\ UNCHANGED <<adminVars, nextLoanId, positionVars, loanUsdc, now>>

RedeemDefaultCollateral(l) ==
  LET amount == balanceOf[Market!NoTokenId(l)][LoanContract] IN
  /\ loans[l].state = "Defaulted"
  /\ outcomeTokenSet
  /\ Market!Redeem(l, LoanContract, "No", amount)
  /\ loans' = [loans EXCEPT ![l].creditedAmount = @ + amount]
  /\ loanUsdc' = loanUsdc + amount
  /\ UNCHANGED <<adminVars, nextLoanId, positionVars, now>>

-----------------------------------------------------------------------------
(* Positions. *)

(* claim while the loan still raises funds: the principal is withdrawn, the    *)
(* position burnt, and a fully funded loan is open for funding again.          *)
ClaimFundingPrincipal(p, caller) ==
  LET l == positions[p].loanId
      amount == positions[p].principalAmount - positions[p].claimedAmount
  IN
  /\ positionOwner[p] = caller
  /\ loans[l].state \in {"Funding", "Funded"}
  /\ now < loans[l].loanWithdrawFreezeDeadline
  /\ amount > 0 /\ amount <= loanUsdc
  /\ positions' = [positions EXCEPT ![p].claimedAmount = @ + amount]
  /\ loans' = [loans EXCEPT ![l].fundedAmount = @ - amount, ![l].state = "Funding"]
  /\ positionOwner' = [positionOwner EXCEPT ![p] = NoAddress]
  /\ loanUsdc' = loanUsdc - amount
  /\ UNCHANGED <<adminVars, nextLoanId, nextPositionId, now, marketVars>>

(* claim of a cancelled loan, which burns the position, or of a settled one.   *)
(* A position that has claimed more than its entitlement reverts, by the       *)
(* checked subtraction.                                                        *)
ClaimSettled(p, caller) ==
  LET l == positions[p].loanId
      amount == TotalEntitlement(p) - positions[p].claimedAmount
  IN
  /\ positionOwner[p] = caller
  /\ loans[l].state \in {"Cancelled", "Repaid", "Defaulted"}
  /\ amount > 0 /\ amount <= loanUsdc
  /\ positions' = [positions EXCEPT ![p].claimedAmount = @ + amount]
  /\ positionOwner' = [positionOwner EXCEPT
       ![p] = IF loans[l].state = "Cancelled" THEN NoAddress ELSE @]
  /\ loanUsdc' = loanUsdc - amount
  /\ UNCHANGED <<adminVars, nextLoanId, loans, nextPositionId, now, marketVars>>

Claim(p, caller) == ClaimFundingPrincipal(p, caller) \/ ClaimSettled(p, caller)

ClaimPlatformFee(l, caller) ==
  LET amount == TotalProtocolFee(l) - loans[l].feeClaimedAmount IN
  /\ caller = owner
  /\ Settled(l)
  /\ amount > 0 /\ amount <= loanUsdc
  /\ loans' = [loans EXCEPT ![l].feeClaimedAmount = @ + amount]
  /\ loanUsdc' = loanUsdc - amount
  /\ UNCHANGED <<adminVars, nextLoanId, positionVars, now, marketVars>>

(* splitPosition asks nothing of the state of the loan. *)
SplitPosition(p, caller, splitPrincipal) ==
  LET q == nextPositionId
      splitClaimed == SplitClaimedAmount(p, splitPrincipal)
  IN
  /\ positionOwner[p] = caller
  /\ splitPrincipal > 0 /\ splitPrincipal < positions[p].principalAmount
  /\ q \in PositionIds
  /\ nextPositionId' = q + 1
  /\ positions' = [positions EXCEPT
       ![p].principalAmount = @ - splitPrincipal,
       ![p].claimedAmount = @ - splitClaimed,
       ![p].split = TRUE,
       ![q] = [loanId |-> positions[p].loanId, principalAmount |-> splitPrincipal,
               claimedAmount |-> splitClaimed, split |-> TRUE,
               splitAfterClaim |-> positions[p].claimedAmount > 0]]
  /\ positionOwner' = [positionOwner EXCEPT ![q] = caller]
  /\ UNCHANGED <<adminVars, nextLoanId, loans, loanUsdc, now, marketVars>>

(* ERC-1155 safeTransferFrom of a position token. *)
TransferPosition(p, caller, to) ==
  /\ positionOwner[p] = caller
  /\ positionOwner' = [positionOwner EXCEPT ![p] = to]
  /\ UNCHANGED <<adminVars, nextLoanId, loans, nextPositionId, positions,
                 loanUsdc, now, marketVars>>

-----------------------------------------------------------------------------
Tick ==
  /\ now < MaxTime
  /\ now' = now + 1
  /\ UNCHANGED <<adminVars, nextLoanId, loans, positionVars, loanUsdc, marketVars>>

MarketUserStep ==
  /\ Market!UserNext
  /\ UNCHANGED <<adminVars, nextLoanId, loans, positionVars, loanUsdc, now>>

AdminNext ==
  \E caller \in Admins :
    \/ SetOutcomeToken(caller)
    \/ \E f \in FeeChoices : SetPlatformFeeBps(caller, f)
    \/ \E r \in FeeRecipients : SetPlatformFeeRecipient(caller, r)
    \/ \E a \in OwnerCandidates : TransferOwnership(caller, a)
    \/ AcceptOwnership(caller)
    \/ \E l \in Loans : ClaimPlatformFee(l, caller)

(* The calls anyone may make about a loan; the platform's keeper makes them. *)
LifecycleNext ==
  \E l \in Loans :
    \/ Activate(l)
    \/ SettleRepaid(l)
    \/ CancelExpiredLoan(l)
    \/ MarkDefaulted(l)
    \/ RedeemDefaultCollateral(l)

LoanNext ==
  \/ \E u \in Users, r \in LoanRequests : CreateLoan(u, r)
  \/ \E u \in Users, l \in Loans, a \in FundAmounts : Fund(l, u, a)
  \/ \E l \in Loans, a \in PayAmounts : DepositToLoan(l, a)

PositionNext ==
  \E p \in PositionIds, u \in Users :
    \/ Claim(p, u)
    \/ \E s \in SplitAmounts : SplitPosition(p, u, s)
    \/ \E to \in Holders : TransferPosition(p, u, to)

Next == Tick \/ MarketUserStep \/ AdminNext \/ LifecycleNext \/ LoanNext \/ PositionNext

Spec == Init /\ [][Next]_vars

-----------------------------------------------------------------------------
(* Ledgers of the contract, as functions to be totalled. *)
PrincipalLedger == [p \in PositionIds |-> positions[p].principalAmount]
ClaimedLedger == [p \in PositionIds |-> positions[p].claimedAmount]
CreditedLedger == [l \in Loans |-> loans[l].creditedAmount]
FeeLedger == [l \in Loans |-> loans[l].feeClaimedAmount]

(* The principal the borrower has drawn. *)
DrawnLedger ==
  [l \in Loans |-> IF loans[l].state \in {"Active", "Repaid", "Defaulted"}
                   THEN loans[l].principal ELSE 0]

(* The principal of the positions of a loan that have a holder. *)
StakeLedger(l) ==
  [p \in PositionIds |-> IF positions[p].loanId = l /\ positionOwner[p] # NoAddress
                         THEN positions[p].principalAmount ELSE 0]

(* What those positions have claimed or can still claim (one that withdrew its *)
(* principal while the loan was raising funds is burnt, and not among them).   *)
DueLedger(l) ==
  [p \in PositionIds |->
     IF positions[p].loanId # l \/ positionOwner[p] = NoAddress THEN 0
     ELSE IF TotalEntitlement(p) > positions[p].claimedAmount THEN TotalEntitlement(p)
     ELSE positions[p].claimedAmount]

(* One for every split of a position that had claimed. *)
SplitsAfterClaim(l) ==
  {p \in PositionIds : positions[p].loanId = l /\ positions[p].splitAfterClaim}

(* Every unit of USDC of the contract is accounted for over all loans: what   *)
(* it holds and what it paid out to holders, to the platform and to borrowers *)
(* is what positions brought in and what was paid into loans, whatever the    *)
(* order of withdrawals, re-funding, splits, settlement and late payments.    *)
UsdcAccounted ==
  loanUsdc + Total(ClaimedLedger, PositionIds) + Total(FeeLedger, Loans)
           + Total(DrawnLedger, Loans)
    = Total(PrincipalLedger, PositionIds) + Total(CreditedLedger, Loans)

(* The funded amount of a loan is the principal of the positions that have a  *)
(* holder (until a cancelled loan pays them back), and the loan is past       *)
(* Funding exactly when that reaches the principal: withdrawals, splits and   *)
(* transfers between fundings neither lose nor duplicate a stake.             *)
FundingLedger ==
  \A l \in Loans :
    /\ loans[l].state # "Cancelled" =>
         loans[l].fundedAmount = Total(StakeLedger(l), PositionIds)
    /\ loans[l].state = "Funding" /\ Created(l) =>
         loans[l].fundedAmount < loans[l].principal
    /\ loans[l].state \in {"Funded", "Active", "Repaid", "Defaulted"} =>
         loans[l].fundedAmount = loans[l].principal

(* The loan and its market, in two contracts, are always in the same stage,   *)
(* with the same borrower and collateral: one is never cancelled, activated   *)
(* or resolved without the other, nor resolved to the other side.             *)
LoanMarketAgree ==
  \A l \in Loans :
    LET stage == <<markets[l].state, markets[l].winningOutcome>> IN
    /\ markets[l].borrower = loans[l].borrower
    /\ markets[l].borrowerCollateralAmount =
         BorrowerCollateralAmount(loans[l].principal, loans[l].collateralBps)
    /\ loans[l].state \in {"Funding", "Funded"} => stage = <<"Proto", "None">>
    /\ loans[l].state = "Active" => stage = <<"Active", "None">>
    /\ loans[l].state = "Cancelled" => stage = <<"Cancelled", "None">>
    /\ loans[l].state = "Repaid" => stage = <<"Resolved", "Yes">>
    /\ loans[l].state = "Defaulted" => stage = <<"Resolved", "No">>

(* A loan is repaid only if the payments made up to its deadline reached the  *)
(* repayment amount, and defaulted only if they did not; payments made after  *)
(* the deadline change neither.                                               *)
SettledByDeadline ==
  \A l \in Loans :
    LET loan == loans[l]
        satisfied == loan.repaymentSatisfiedAt # 0
    IN
    /\ satisfied => /\ loan.repaymentSatisfiedAt <= loan.repaymentDeadline
                    /\ loan.repaymentAmount <= loan.creditedAmount
    /\ loan.state = "Active" /\ loan.repaymentAmount <= loan.creditedAmount => satisfied
    /\ loan.state = "Repaid" => satisfied
    /\ loan.state = "Defaulted" => ~satisfied /\ now > loan.repaymentDeadline

(* The borrower's collateral stays within reach of the lenders: while a loan  *)
(* is active the contract holds NO tokens for all of it, and after a default  *)
(* it holds them still or has credited their value to the loan.               *)
CollateralBehindLenders ==
  \A l \in Loans :
    LET held == balanceOf[Market!NoTokenId(l)][LoanContract]
        collateral == BorrowerCollateralAmount(loans[l].principal, loans[l].collateralBps)
    IN
    /\ loans[l].state = "Active" => collateral <= held
    /\ loans[l].state = "Defaulted" => collateral <= held + loans[l].creditedAmount

(* The markets of all loans together are covered by the collateral of the     *)
(* outcome token contract, with the loan contract deciding when each is       *)
(* activated, cancelled and resolved, and redeeming the NO tokens it holds.   *)
MarketsCovered == Market!CustodyCoversClaims

(* A settled loan pays the platform no more than its fee, and what its lenders *)
(* have claimed and can still claim is no more than the rest: each can be paid *)
(* without the USDC of another loan.  But each split of a position that has    *)
(* already claimed may round less than one more unit to the lenders (the bound *)
(* is scaled by the principal): one such split never takes the payouts past    *)
(* the pool, only several may.  Claims, late payments, redeemed collateral,    *)
(* splits and changes of the platform fee interleave.                          *)
PayoutsBounded ==
  \A l \in Loans :
    Settled(l) =>
      LET funded == loans[l].fundedAmount IN
      /\ loans[l].feeClaimedAmount <= TotalProtocolFee(l)
      /\ funded * Total(DueLedger(l), PositionIds) <=
           funded * LenderPayoutPool(l) + (funded - 1) * Cardinality(SplitsAfterClaim(l))

(* What a holder can claim of a settled loan never shrinks by what others do: *)
(* payments, claims, fee claims and changes of the fee only leave it or raise *)
(* it, unless the position itself is split.                                   *)
EntitlementsNeverShrink ==
  [][\A p \in PositionIds :
       /\ positions[p].loanId \in Loans
       /\ Settled(positions[p].loanId)
       /\ positions[p].principalAmount' = positions[p].principalAmount
       => TotalEntitlement(p)' >= TotalEntitlement(p)]_vars

Claimable(p) ==
  LET amount == TotalEntitlement(p) - positions[p].claimedAmount
  IN  IF amount < 0 THEN 0 ELSE amount

(* Splitting preserves the accounting of payouts, as docs/lending-side-spec.md *)
(* says of a split after partial claims: the new position and what remains of  *)
(* the old one cannot claim more together than the old one could.              *)
SplitKeepsClaimable ==
  [][\A p, q \in PositionIds :
       /\ positions[p].loanId \in Loans
       /\ Settled(positions[p].loanId)
       /\ positions[p].principalAmount' < positions[p].principalAmount
       /\ q = nextPositionId
       => Claimable(p)' + Claimable(q)' <= Claimable(p)]_vars

-----------------------------------------------------------------------------
(* Time passes, and the calls open to anyone are made when they are possible: *)
(* the platform runs a keeper that scans the loans and makes them.            *)
Fairness ==
  /\ WF_vars(Tick)
  /\ \A l \in Loans : /\ WF_vars(SettleRepaid(l))
                       /\ WF_vars(CancelExpiredLoan(l))
                       /\ WF_vars(MarkDefaulted(l))
                       /\ WF_vars(RedeemDefaultCollateral(l))

FairSpec == Spec /\ Fairness

(* Every loan opened comes to an end: no combination of funding, collateral,  *)
(* payments and deadlines leaves it where nothing can cancel or settle it.    *)
EveryLoanEnds ==
  \A l \in Loans :
    Created(l) ~> loans[l].state \in {"Cancelled", "Repaid", "Defaulted"}

(* The collateral of a defaulted loan does not stay in its market: the        *)
(* lenders' pool gets it.                                                     *)
CollateralReachesLenders ==
  \A l \in Loans :
    loans[l].state = "Defaulted" ~> balanceOf[Market!NoTokenId(l)][LoanContract] = 0

=============================================================================
