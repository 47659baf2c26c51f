----------------------------- MODULE WalletForms ----------------------------
(***************************************************************************)
(* What a user can do about a loan: the tests that decide which buttons of *)
(* the page are enabled (frontend/src/lib/preflight.ts and the forms under *)
(* components/) and the transactions the buttons send (chainWrites.ts).    *)
(* The chain is LoanPositionToken, which others move too.                  *)
(*                                                                         *)
(* One wallet and the page it has open on one loan and its market.  A form *)
(* is busy from the click until its promise resolves: with the receipt, or *)
(* with an error after 120 seconds, when the transaction is still in       *)
(* flight.  Selecting another loan, or leaving the screen, forgets that a  *)
(* form is busy.                                                           *)
(*                                                                         *)
(* A click is on what the page has read of the chain.  That the chain has  *)
(* moved on since is modelled where it matters, between the click and the  *)
(* block: anything happens before a transaction of the wallet is mined.    *)
(* While new balances are read the old ones stay, which may be of another  *)
(* market or account.  How the page comes to show the loan is in PageState. *)
(*                                                                         *)
(* Left out: the wallet's USDC (it never runs out), prompts the user       *)
(* declines (nothing happens), messages and links.                         *)
(***************************************************************************)
EXTENDS LoanPositionToken

CONSTANTS
  Wallet,             \* the account of the page
  FormAmounts,        \* what is typed into the amount fields
  InitAllowances,     \* bound: USDC that each contract may take at first
  MaxSends            \* bound: transactions the page sends

ASSUME WalletAssumption ==
  /\ Wallet \in Users /\ FormAmounts \subseteq Nat \ {0}
  /\ InitAllowances \subseteq Nat /\ MaxSends \in Nat

VARIABLES
  busy,               \* forms that wait for a transaction, and for which call
  sends,              \* transactions the page has sent
  sent,               \* those in flight
  allowance           \* USDC.allowance(Wallet, contract)

formVars == <<busy, sends, sent, allowance>>
allVars == <<vars, formVars>>

FormsInit ==
  /\ Init
  /\ busy = {} /\ sends = 0 /\ sent = {}
  /\ allowance \in {[c \in {"loan", "outcome"} |-> a] : a \in InitAllowances}

-----------------------------------------------------------------------------
(* What the page reads. *)

View(loan, deposited) == [loan |-> loan, deposited |-> deposited]
LoanView(l) == View(loans[l], borrowerCollateralDeposited[l])

(* readWalletBalances: the allowances, and the wallet's part of the market.    *)
Readable(l, states, value) == IF markets[l].state \in states THEN value ELSE 0

SelectedMarket(l) ==
  [marketState |-> markets[l].state, winningOutcome |-> markets[l].winningOutcome,
   yesBalance |-> balanceOf[Market!YesTokenId(l)][Wallet],
   noBalance |-> balanceOf[Market!NoTokenId(l)][Wallet],
   pairMintable |-> Readable(l, {"Active"}, Market!UnmintedPairDeposit(l, Wallet)),
   unmintedPairDeposit |->
     Readable(l, {"Proto", "Active", "Resolved"}, Market!UnmintedPairDeposit(l, Wallet))]

Balances(l) == [allowance |-> allowance, selectedMarket |-> SelectedMarket(l)]

(* What the page still has while it reads the balances of another market or    *)
(* account, or reads these again, which it may do at any time.  They may have  *)
(* any value: tests compare each with an amount, so that nothing and plenty    *)
(* stand for all, and the state of the market with two.                        *)
Plenty == CHOOSE a \in FormAmounts : \A b \in FormAmounts : b <= a
OldBalances ==
  {[allowance |-> [c \in {"loan", "outcome"} |-> a],
    selectedMarket |-> [marketState |-> s, winningOutcome |-> "Yes", yesBalance |-> a, noBalance |-> a,
                        pairMintable |-> a, unmintedPairDeposit |-> a]] :
     a \in {0, Plenty}, s \in {"Active", "Resolved"}}

-----------------------------------------------------------------------------
(* Which buttons are enabled: the preflight tests and the tests of the forms,  *)
(* of the view v of a loan, of the balances b and of an amount a.              *)

IsAllowed(b, contract, a) == a <= b.allowance[contract]

(* LoanDetailPanel shows the form of a loan that still needs principal.        *)
CanFund(v, b, a) ==
  /\ v.loan.state = "Funding"
  /\ a <= v.loan.principal - v.loan.fundedAmount
  /\ IsAllowed(b, "loan", a)

CollateralRequired(v) == BorrowerCollateralAmount(v.loan.principal, v.loan.collateralBps)

CollateralUncapped(v, b, a) ==     \* slip: the amount that remains is not tested
  /\ v.loan.borrower = Wallet /\ v.loan.state \in {"Funding", "Funded"}
  /\ v.deposited < CollateralRequired(v)
  /\ IsAllowed(b, "outcome", a)
CanDepositCollateral(v, b, a) ==
  /\ v.loan.borrower = Wallet /\ v.loan.state \in {"Funding", "Funded"}
  /\ v.deposited + a <= CollateralRequired(v)
  /\ IsAllowed(b, "outcome", a)

CanActivate(v) ==
  /\ v.loan.state = "Funded"
  /\ v.deposited >= CollateralRequired(v)
  /\ v.loan.loanWithdrawFreezeDeadline <= now /\ now <= v.loan.activationDeadline

CanPay(v, b, a) ==
  v.loan.state \in {"Active", "Repaid", "Defaulted"} /\ IsAllowed(b, "loan", a)

Satisfied(v) ==
  v.loan.repaymentSatisfiedAt # 0 /\ v.loan.repaymentSatisfiedAt <= v.loan.repaymentDeadline
CanSettle(v) ==
  v.loan.state = "Active" /\ v.loan.creditedAmount >= v.loan.repaymentAmount /\ Satisfied(v)
CanMarkDefaulted(v) ==
  v.loan.state = "Active" /\ now > v.loan.repaymentDeadline /\ ~Satisfied(v)
CanRedeemDefault(v) == v.loan.state = "Defaulted"

(* toMarketStateFromLoan: the state of the market, of the database's copy.     *)
MarketStateFromLoan(v) ==
  CASE v.loan.state = "Active" -> "Active"
    [] v.loan.state = "Cancelled" -> "Cancelled"
    [] v.loan.state \in {"Repaid", "Defaulted"} -> "Resolved"
    [] OTHER -> "Proto"

CanDepositPair(v, b, a) ==
  MarketStateFromLoan(v) \in {"Proto", "Active"} /\ IsAllowed(b, "outcome", a)
CanMint(v, b) ==
  MarketStateFromLoan(v) = "Active" /\ b.selectedMarket.pairMintable # 0
WithdrawBeforeResolution(v, b, a) ==     \* slip: a resolved market is forgotten
  /\ MarketStateFromLoan(v) \in {"Proto", "Active"}
  /\ b.selectedMarket.unmintedPairDeposit # 0 /\ a <= b.selectedMarket.unmintedPairDeposit
CanWithdrawPair(v, b, a) ==
  /\ MarketStateFromLoan(v) \in {"Proto", "Active", "Resolved"}
  /\ b.selectedMarket.unmintedPairDeposit # 0 /\ a <= b.selectedMarket.unmintedPairDeposit

(* The state of the market, of the chain.                                      *)
CanMerge(b, a) ==
  /\ b.selectedMarket.marketState = "Active"
  /\ a <= b.selectedMarket.yesBalance /\ a <= b.selectedMarket.noBalance
CanRedeemOutcome(b, a) ==
  /\ b.selectedMarket.marketState = "Resolved"
  /\ b.selectedMarket.winningOutcome # "None"
  /\ a <= IF b.selectedMarket.winningOutcome = "Yes" THEN b.selectedMarket.yesBalance
          ELSE b.selectedMarket.noBalance

SaturatingSub(x, y) == IF x > y THEN x - y ELSE 0

(* calculateClaimableAmount: what the server says a position can claim.        *)
ClaimableAmount(p) ==
  LET loan == loans[positions[p].loanId]
      l == positions[p].loanId
  IN
  CASE loan.state \in {"Funding", "Funded"} ->
         IF now >= loan.loanWithdrawFreezeDeadline THEN 0
         ELSE SaturatingSub(positions[p].principalAmount, positions[p].claimedAmount)
    [] loan.state = "Cancelled" ->
         SaturatingSub(positions[p].principalAmount, positions[p].claimedAmount)
    [] loan.state \in {"Repaid", "Defaulted"} ->
         SaturatingSub(
           (SaturatingSub(loan.creditedAmount, TotalProtocolFee(l)) * positions[p].principalAmount)
             \div loan.fundedAmount,
           positions[p].claimedAmount)
    [] OTHER -> 0

(* The positions are read from the chain when the account is refreshed; the    *)
(* button tests what the server computed then, here at once.                   *)
CanClaim(p) == positionOwner[p] = Wallet /\ ClaimableAmount(p) # 0

-----------------------------------------------------------------------------
(* The buttons of each form.  Approvals are of the amount typed, and offered   *)
(* while too little is allowed.                                                *)

Tx(form, call, id, amount) ==
  [form |-> form, call |-> call, id |-> id, amount |-> amount, awaited |-> TRUE]

With(form, call, l, amounts) == {Tx(form, call, l, a) : a \in amounts}
Plain(form, call, l, can) == IF can THEN {Tx(form, call, l, 0)} ELSE {}

FundingForm(l, v, b) ==
  IF v.loan.state # "Funding" THEN {}
  ELSE With("funding", "approveUsdcLoanContract", l, {a \in FormAmounts : ~IsAllowed(b, "loan", a)})
       \cup With("funding", "fund", l, {a \in FormAmounts : CanFund(v, b, a)})

CollateralForm(l, v, b) ==
  IF v.deposited >= CollateralRequired(v) \/ v.loan.state \notin {"Funding", "Funded"} THEN {}
  ELSE With("collateral", "approveUsdcOutcomeToken", l, {a \in FormAmounts : ~IsAllowed(b, "outcome", a)})
       \cup With("collateral", "depositBorrowerCollateral", l,
                 {a \in FormAmounts : CanDepositCollateral(v, b, a)})

LoanActivationAction(l, v) == Plain("activation", "activate", l, CanActivate(v))

LoanPaymentAction(l, v, b) ==
  IF v.loan.state \notin {"Active", "Repaid", "Defaulted"} THEN {}
  ELSE With("payment", "approveUsdcLoanContract", l, {a \in FormAmounts : ~IsAllowed(b, "loan", a)})
       \cup With("payment", "depositToLoan", l, {a \in FormAmounts : CanPay(v, b, a)})
       \cup Plain("payment", "settleRepaid", l, CanSettle(v))
       \cup Plain("payment", "markDefaulted", l, CanMarkDefaulted(v))
       \cup Plain("payment", "redeemDefaultCollateral", l, CanRedeemDefault(v))

PairCollateralPanel(l, v, b) ==
  With("pairs", "approveUsdcOutcomeToken", l, {a \in FormAmounts : ~IsAllowed(b, "outcome", a)})
  \cup With("pairs", "depositPairCollateral", l, {a \in FormAmounts : CanDepositPair(v, b, a)})
  \cup Plain("pairs", "mintActivatedPair", l, CanMint(v, b))
  \cup With("pairs", "withdrawPairDeposit", l, {a \in FormAmounts : CanWithdrawPair(v, b, a)})

OutcomePositionPanel(l, b) ==
  With("outcomes", "mergePositions", l, {a \in FormAmounts : CanMerge(b, a)})
  \cup With("outcomes", "redeem", l, {a \in FormAmounts : CanRedeemOutcome(b, a)})

LoanPositionsPanel(l) ==
  {Tx("positions", "claim", p, 0) : p \in {q \in PositionIds : positions[q].loanId = l /\ CanClaim(q)}}

(* The buttons whose tests hold, of a loan, its market and its positions.      *)
ButtonsWith(l, b) ==
  LET v == LoanView(l)
  IN  FundingForm(l, v, b) \cup CollateralForm(l, v, b) \cup LoanActivationAction(l, v)
      \cup LoanPaymentAction(l, v, b) \cup PairCollateralPanel(l, v, b)
      \cup OutcomePositionPanel(l, b) \cup LoanPositionsPanel(l)
Buttons(l) == ButtonsWith(l, Balances(l))
OldButtons(l) == UNION {ButtonsWith(l, b) : b \in OldBalances}

(* While a form waits its buttons are disabled; an approval and a claim are    *)
(* so only while the same is waited for.                                       *)
Waits(t) == <<t.form, t.call, t.id>>
NotWaiting(t) ==
  IF t.call \in {"approveUsdcLoanContract", "approveUsdcOutcomeToken", "claim"}
  THEN Waits(t) \notin busy
  ELSE \A w \in busy : w[1] # t.form

Shown == {l \in Loans : Created(l)}
EnabledButtons ==
  {t \in UNION {Buttons(l) \cup OldButtons(l) : l \in Shown} : NotWaiting(t)}

-----------------------------------------------------------------------------
(* What the buttons send (chainWrites.ts), and what it does. *)

(* A step of the contracts in which "contract" takes USDC from the wallet.     *)
Pull(contract, before, after) ==
  /\ after - before <= allowance[contract]
  /\ allowance' = [allowance EXCEPT ![contract] = @ - (after - before)]

LoanContractAside == UNCHANGED <<adminVars, nextLoanId, loans, positionVars, loanUsdc, now>>

ApproveUsdcLoanContractTx(t) ==
  t.call = "approveUsdcLoanContract"
  /\ allowance' = [allowance EXCEPT !.loan = t.amount] /\ UNCHANGED vars
ApproveUsdcOutcomeTokenTx(t) ==
  t.call = "approveUsdcOutcomeToken"
  /\ allowance' = [allowance EXCEPT !.outcome = t.amount] /\ UNCHANGED vars
FundLoanTx(t) ==
  t.call = "fund" /\ Fund(t.id, Wallet, t.amount) /\ Pull("loan", loanUsdc, loanUsdc')
DepositToLoanTx(t) ==
  t.call = "depositToLoan" /\ DepositToLoan(t.id, t.amount) /\ Pull("loan", loanUsdc, loanUsdc')
DepositBorrowerCollateralTx(t) ==
  /\ t.call = "depositBorrowerCollateral" /\ Market!DepositBorrowerCollateral(t.id, Wallet, t.amount)
  /\ Pull("outcome", custody, custody') /\ LoanContractAside
DepositPairCollateralTx(t) ==
  /\ t.call = "depositPairCollateral" /\ Market!DepositPairCollateral(t.id, Wallet, t.amount)
  /\ Pull("outcome", custody, custody') /\ LoanContractAside
MintActivatedPairTx(t) ==
  /\ t.call = "mintActivatedPair" /\ Market!MintActivatedPair(t.id, Wallet)
  /\ LoanContractAside /\ UNCHANGED allowance
WithdrawPairDepositTx(t) ==
  /\ t.call = "withdrawPairDeposit" /\ Market!WithdrawPairDeposit(t.id, Wallet, t.amount)
  /\ LoanContractAside /\ UNCHANGED allowance
MergeOutcomePositionsTx(t) ==
  /\ t.call = "mergePositions" /\ Market!MergePositions(t.id, Wallet, t.amount)
  /\ LoanContractAside /\ UNCHANGED allowance
RedeemOutcomeTx(t) ==
  /\ t.call = "redeem" /\ \E o \in {"Yes", "No"} : Market!Redeem(t.id, Wallet, o, t.amount)
  /\ LoanContractAside /\ UNCHANGED allowance
ActivateLoanTx(t) == t.call = "activate" /\ Activate(t.id) /\ UNCHANGED allowance
SettleRepaidLoanTx(t) == t.call = "settleRepaid" /\ SettleRepaid(t.id) /\ UNCHANGED allowance
MarkLoanDefaultedTx(t) == t.call = "markDefaulted" /\ MarkDefaulted(t.id) /\ UNCHANGED allowance
RedeemDefaultCollateralTx(t) ==
  t.call = "redeemDefaultCollateral" /\ RedeemDefaultCollateral(t.id) /\ UNCHANGED allowance
ClaimLoanPositionTx(t) == t.call = "claim" /\ Claim(t.id, Wallet) /\ UNCHANGED allowance

Effect(t) ==
  \/ ApproveUsdcLoanContractTx(t) \/ ApproveUsdcOutcomeTokenTx(t)
  \/ FundLoanTx(t) \/ DepositToLoanTx(t)
  \/ DepositBorrowerCollateralTx(t) \/ DepositPairCollateralTx(t)
  \/ MintActivatedPairTx(t) \/ WithdrawPairDepositTx(t)
  \/ MergeOutcomePositionsTx(t) \/ RedeemOutcomeTx(t)
  \/ ActivateLoanTx(t) \/ SettleRepaidLoanTx(t) \/ MarkLoanDefaultedTx(t)
  \/ RedeemDefaultCollateralTx(t) \/ ClaimLoanPositionTx(t)

(* Another loan is selected, or the same one again after another screen: the   *)
(* forms start afresh.                                                         *)
SelectLoan == busy # {} /\ busy' = {} /\ UNCHANGED <<vars, sends, sent, allowance>>

(* The handler of a button; the form now waits for this call alone.            *)
Others(t) == {w \in busy : w[1] # t.form}
Click(t) ==
  /\ sends' = sends + 1
  /\ sent' = sent \cup {t} /\ busy' = Others(t) \cup {Waits(t)}
  /\ UNCHANGED <<vars, allowance>>

(* sendAndWait resolves: the form is free, whatever it was waiting for.        *)
Freed(t) == IF t.awaited THEN Others(t) ELSE busy
Resolved(t) == sent' = sent \ {t} /\ busy' = Freed(t) /\ UNCHANGED sends

Succeed(t) == Effect(t) /\ Resolved(t)
Revert(t) == ~ENABLED Effect(t) /\ Resolved(t) /\ UNCHANGED <<vars, allowance>>

NotMinedInTime(t) ==
  /\ t.awaited
  /\ sent' = (sent \ {t}) \cup {[t EXCEPT !.awaited = FALSE]}
  /\ busy' = Freed(t)
  /\ UNCHANGED <<vars, sends, allowance>>

(* Everybody else, and the same wallet on another page; tokens change hands by *)
(* funding, minting and paying out, and are not given away.                    *)
ElsewhereNext ==
  /\ \/ Tick \/ SetOutcomeToken(Deployer) \/ LifecycleNext \/ LoanNext
     \/ \E p \in PositionIds, u \in Users : Claim(p, u)
     \/ /\ \E l \in Loans, u \in Users :
             \/ \E a \in MarketAmounts :
                  \/ Market!DepositBorrowerCollateral(l, u, a)
                  \/ Market!DepositPairCollateral(l, u, a)
                  \/ Market!WithdrawPairDeposit(l, u, a)
                  \/ Market!MergePositions(l, u, a)
                  \/ \E o \in {"Yes", "No"} : Market!Redeem(l, u, o, a)
             \/ Market!RefundBorrowerCollateral(l, u)
             \/ Market!RefundPairCollateral(l, u)
             \/ Market!MintActivatedPair(l, u)
        /\ UNCHANGED <<adminVars, nextLoanId, loans, positionVars, loanUsdc, now>>
  /\ UNCHANGED formVars

PageNext ==
  \/ SelectLoan
  \/ sends < MaxSends /\ \E t \in EnabledButtons : Click(t)
ChainNext == \E t \in sent : Succeed(t) \/ Revert(t) \/ NotMinedInTime(t)

FormsNext == PageNext \/ ChainNext \/ ElsewhereNext
FormsSpec == FormsInit /\ [][FormsNext]_allVars

-----------------------------------------------------------------------------
(* The preflight tests leave to the contract the activation deadline of a      *)
(* funding, the repayment deadline of a payment, and whether the collateral of *)
(* a defaulted loan was already redeemed.                                      *)
LeftToContract(t) ==
  LET loan == loans[t.id] IN
  \/ t.call = "fund" /\ now >= loan.activationDeadline
  \/ t.call = "depositToLoan" /\ loan.state = "Active" /\ now > loan.repaymentDeadline
  \/ t.call = "redeemDefaultCollateral" /\ balanceOf[Market!NoTokenId(t.id)][LoanContract] = 0

(* The bounds of the model, which the contracts do not have. *)
BeyondBounds(t) ==
  \/ t.call = "fund" /\ nextPositionId \notin PositionIds
  \/ t.call = "depositToLoan" /\ loans[t.id].creditedAmount + t.amount > MaxCredited
  \/ t.call \in {"depositBorrowerCollateral", "depositPairCollateral"}
       /\ custody + t.amount > MaxCustody
  \/ t.call = "depositPairCollateral"
       /\ pendingPairCollateral[t.id][Wallet] + t.amount > MaxPending

(* Every button the page offers on the balances the wallet has sends a         *)
(* transaction that the contracts accept: the conditions written in            *)
(* TypeScript, over the states and ledgers that two contracts keep, imply      *)
(* those written in Solidity, for every form.  A button offered on old         *)
(* balances alone may well send one that reverts.                              *)
EnabledButtonsSucceed ==
  \A t \in UNION {Buttons(l) : l \in Shown} :
    NotWaiting(t) => LeftToContract(t) \/ BeyondBounds(t) \/ ENABLED Effect(t)

(* And what the contracts accept of the wallet, the page offers: no condition  *)
(* in TypeScript keeps a lender or a borrower from what is theirs once the     *)
(* page has the wallet's balances.  Calls are those that chainWrites.ts can    *)
(* make: the refunds of a cancelled market, the splitting and the giving away  *)
(* of a position have no button at all.                                        *)
Calls(l) ==
  {Tx("", c, l, a) : c \in {"fund", "depositBorrowerCollateral", "depositToLoan",
                            "depositPairCollateral", "withdrawPairDeposit",
                            "mergePositions", "redeem"}, a \in FormAmounts}
  \cup {Tx("", c, l, 0) : c \in {"activate", "settleRepaid", "markDefaulted",
                                 "redeemDefaultCollateral", "mintActivatedPair"}}
  \cup {Tx("", "claim", p, 0) : p \in {q \in PositionIds : positions[q].loanId = l}}

(* The loan contract cuts a funding to the principal that remains; the page    *)
(* asks for no more than that.                                                 *)
MoreThanRemains(t) ==
  t.call = "fund" /\ t.amount > loans[t.id].principal - loans[t.id].fundedAmount

Withheld(l) == Calls(l) \ {[button EXCEPT !.form = ""] : button \in Buttons(l)}
NothingWithheld ==
  \A l \in Shown : \A t \in Withheld(l) : MoreThanRemains(t) \/ ~ENABLED Effect(t)
=============================================================================
