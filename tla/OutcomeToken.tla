---------------------------- MODULE OutcomeToken ----------------------------
(***************************************************************************)
(* The outcome token contract (contracts/OutcomeToken.sol): one market per *)
(* loan, in which a unit of USDC buys a pair of one YES and one NO token.  *)
(*                                                                         *)
(* Every market keeps its collateral in the one USDC balance of the        *)
(* contract.  A market is opened, activated, cancelled and resolved by the *)
(* loan contract alone; every other handler is called by users, in any     *)
(* order.  A transaction of the chain is one step, so a handler that       *)
(* reverts is a step that is not enabled.                                  *)
(*                                                                         *)
(* Left out: allowances and the wallets of the callers (transferFrom may   *)
(* fail, which is a revert), USDC sent to the contract outside its         *)
(* handlers, token URIs, events and the receiver callbacks of ERC-1155.    *)
(***************************************************************************)
EXTENDS Totals

CONSTANTS
  Markets,          \* market ids: the hash of a loan id, one to one
  Users,            \* accounts that call the contracts
  LoanContract,     \* the address of LoanPositionToken
  NoAddress,        \* address(0)
  Amounts,          \* amounts a caller passes
  Collaterals,      \* amounts the loan contract asks of a borrower
  MaxCustody,       \* bound: USDC the contract holds at once
  MaxPending        \* bound: pair collateral pending for one account of a market

Holders == Users \cup {LoanContract}

ASSUME MarketsAssumption == IsFiniteSet(Markets)
ASSUME UsersAssumption == /\ IsFiniteSet(Users)
                          /\ LoanContract \notin Users
                          /\ NoAddress \notin Holders
ASSUME AmountsAssumption == /\ Amounts \subseteq Nat
                            /\ Collaterals \subseteq Nat
                            /\ MaxCustody \in Nat /\ MaxPending \in Nat

VARIABLES
  markets,                      \* markets[marketId]
  pendingPairCollateral,        \* [marketId][account]
  pairCollateralMinted,         \* [marketId][account]
  borrowerCollateralDeposited,  \* [marketId]
  balanceOf,                    \* ERC-1155 balances: [token id][holder]
  custody                       \* USDC.balanceOf(OutcomeToken)

vars == <<markets, pendingPairCollateral, pairCollateralMinted,
          borrowerCollateralDeposited, balanceOf, custody>>

MarketState == {"Proto", "Active", "Cancelled", "Resolved"}
Outcome == {"Yes", "No"}
WinningOutcome == Outcome \cup {"None"}

TokenIds == Markets \X Outcome
YesTokenId(m) == <<m, "Yes">>
NoTokenId(m) == <<m, "No">>

(* What the mapping holds for an id that no loan has opened yet. *)
UnsetMarket == [borrower |-> NoAddress, borrowerCollateralAmount |-> 0,
                winningOutcome |-> "None", state |-> "Proto"]

TypeOK ==
  /\ markets \in [Markets -> [borrower : Users \cup {NoAddress},
                              borrowerCollateralAmount : Nat,
                              winningOutcome : WinningOutcome,
                              state : MarketState]]
  /\ pendingPairCollateral \in [Markets -> [Users -> Nat]]
  /\ pairCollateralMinted \in [Markets -> [Users -> Nat]]
  /\ borrowerCollateralDeposited \in [Markets -> Nat]
  /\ balanceOf \in [TokenIds -> [Holders -> Nat]]
  /\ custody \in Nat

Init ==
  /\ markets = [m \in Markets |-> UnsetMarket]
  /\ pendingPairCollateral = [m \in Markets |-> [u \in Users |-> 0]]
  /\ pairCollateralMinted = [m \in Markets |-> [u \in Users |-> 0]]
  /\ borrowerCollateralDeposited = [m \in Markets |-> 0]
  /\ balanceOf = [t \in TokenIds |-> [h \in Holders |-> 0]]
  /\ custody = 0

-----------------------------------------------------------------------------
(* Transfers of USDC in and out of the contract, and ERC-1155 mint and burn. *)

Receive(amount) ==
  /\ amount > 0
  /\ custody + amount <= MaxCustody
  /\ custody' = custody + amount

Pay(amount) ==
  /\ amount > 0
  /\ amount <= custody
  /\ custody' = custody - amount

Credit(balances, t, h, amount) == [balances EXCEPT ![t][h] = @ + amount]
Debit(balances, t, h, amount) == [balances EXCEPT ![t][h] = @ - amount]

(* Both sides of a pair, for one holder. *)
CreditPair(m, h, amount) ==
  Credit(Credit(balanceOf, YesTokenId(m), h, amount), NoTokenId(m), h, amount)

DebitYesOnly(m, h, amount) == Debit(balanceOf, YesTokenId(m), h, amount)   \* slip
DebitPair(m, h, amount) ==
  Debit(Debit(balanceOf, YesTokenId(m), h, amount), NoTokenId(m), h, amount)

PendingPairDeposit(m, u) == pendingPairCollateral[m][u]   \* slip
UnmintedPairDeposit(m, u) ==
  pendingPairCollateral[m][u] - pairCollateralMinted[m][u]

-----------------------------------------------------------------------------
(* Handlers with a slip in them.  They are part of no behaviour: each, put in  *)
(* the place of the handler it resembles, is to be refuted by a property.      *)

ResolveAgain(m, outcome) ==     \* the state of the market is not tested
  /\ markets[m].state \in {"Active", "Resolved"}
  /\ markets' = [markets EXCEPT ![m].winningOutcome = outcome, ![m].state = "Resolved"]
  /\ UNCHANGED <<pendingPairCollateral, pairCollateralMinted,
                 borrowerCollateralDeposited, balanceOf, custody>>

DepositAnyCollateral(m, u, amount) ==     \* no cap on the borrower's collateral
  /\ markets[m].state = "Proto"
  /\ u = markets[m].borrower
  /\ borrowerCollateralDeposited' = [borrowerCollateralDeposited EXCEPT ![m] = @ + amount]
  /\ Receive(amount)
  /\ UNCHANGED <<markets, pendingPairCollateral, pairCollateralMinted, balanceOf>>

RefundBorrowerAgain(m, u) ==     \* the deposit is not reset
  /\ markets[m].state = "Cancelled"
  /\ u = markets[m].borrower
  /\ Pay(borrowerCollateralDeposited[m])
  /\ UNCHANGED <<markets, pendingPairCollateral, pairCollateralMinted,
                 borrowerCollateralDeposited, balanceOf>>

RefundPairAgain(m, u) ==     \* the deposit is not reset
  /\ markets[m].state = "Cancelled"
  /\ Pay(pendingPairCollateral[m][u])
  /\ UNCHANGED <<markets, pendingPairCollateral, pairCollateralMinted,
                 borrowerCollateralDeposited, balanceOf>>

MergeYes(m, u, amount) ==     \* the NO tokens of the caller are not tested
  /\ markets[m].state = "Active"
  /\ amount <= balanceOf[YesTokenId(m)][u]
  /\ balanceOf' = DebitPair(m, u, amount)
  /\ Pay(amount)
  /\ UNCHANGED <<markets, pendingPairCollateral, pairCollateralMinted,
                 borrowerCollateralDeposited>>

-----------------------------------------------------------------------------
(* Handlers only the loan contract may call.  None of them moves USDC. *)

CreateProtoMarket(m, borrower, collateral) ==
  /\ markets[m].borrower = NoAddress
  /\ markets' = [markets EXCEPT ![m] =
                  [borrower |-> borrower, borrowerCollateralAmount |-> collateral,
                   winningOutcome |-> "None", state |-> "Proto"]]
  /\ UNCHANGED <<pendingPairCollateral, pairCollateralMinted,
                 borrowerCollateralDeposited, balanceOf, custody>>

ActivateMarket(m) ==
  LET collateral == markets[m].borrowerCollateralAmount IN
  /\ markets[m].state = "Proto"
  /\ markets[m].borrower # NoAddress    \* ERC-1155 does not mint to address(0)
  /\ borrowerCollateralDeposited[m] >= collateral
  /\ markets' = [markets EXCEPT ![m].state = "Active"]
  /\ balanceOf' = Credit(Credit(balanceOf, YesTokenId(m), markets[m].borrower, collateral),
                         NoTokenId(m), LoanContract, collateral)
  /\ UNCHANGED <<pendingPairCollateral, pairCollateralMinted,
                 borrowerCollateralDeposited, custody>>

CancelMarket(m) ==
  /\ markets[m].state = "Proto"
  /\ markets' = [markets EXCEPT ![m].state = "Cancelled"]
  /\ UNCHANGED <<pendingPairCollateral, pairCollateralMinted,
                 borrowerCollateralDeposited, balanceOf, custody>>

ResolveMarket(m, outcome) ==
  /\ markets[m].state = "Active"
  /\ markets' = [markets EXCEPT ![m].winningOutcome = outcome, ![m].state = "Resolved"]
  /\ UNCHANGED <<pendingPairCollateral, pairCollateralMinted,
                 borrowerCollateralDeposited, balanceOf, custody>>

-----------------------------------------------------------------------------
(* Handlers users call. *)

DepositBorrowerCollateral(m, u, amount) ==
  /\ markets[m].state = "Proto"
  /\ u = markets[m].borrower
  /\ borrowerCollateralDeposited[m] + amount <= markets[m].borrowerCollateralAmount
  /\ borrowerCollateralDeposited' = [borrowerCollateralDeposited EXCEPT ![m] = @ + amount]
  /\ Receive(amount)
  /\ UNCHANGED <<markets, pendingPairCollateral, pairCollateralMinted, balanceOf>>

DepositPairCollateral(m, u, amount) ==
  /\ markets[m].state \in {"Proto", "Active"}
  /\ pendingPairCollateral[m][u] + amount <= MaxPending
  /\ pendingPairCollateral' = [pendingPairCollateral EXCEPT ![m][u] = @ + amount]
  /\ Receive(amount)
  /\ UNCHANGED <<markets, pairCollateralMinted, borrowerCollateralDeposited, balanceOf>>

WithdrawPairDeposit(m, u, amount) ==
  /\ markets[m].state \in {"Proto", "Active", "Resolved"}
  /\ amount <= UnmintedPairDeposit(m, u)
  /\ pendingPairCollateral' = [pendingPairCollateral EXCEPT ![m][u] = @ - amount]
  /\ Pay(amount)
  /\ UNCHANGED <<markets, pairCollateralMinted, borrowerCollateralDeposited, balanceOf>>

RefundBorrowerCollateral(m, u) ==
  /\ markets[m].state = "Cancelled"
  /\ u = markets[m].borrower
  /\ borrowerCollateralDeposited' = [borrowerCollateralDeposited EXCEPT ![m] = 0]
  /\ Pay(borrowerCollateralDeposited[m])
  /\ UNCHANGED <<markets, pendingPairCollateral, pairCollateralMinted, balanceOf>>

RefundPairCollateral(m, u) ==
  /\ markets[m].state = "Cancelled"
  /\ pendingPairCollateral' = [pendingPairCollateral EXCEPT ![m][u] = 0]
  /\ Pay(pendingPairCollateral[m][u])
  /\ UNCHANGED <<markets, pairCollateralMinted, borrowerCollateralDeposited, balanceOf>>

MintActivatedPair(m, u) ==
  LET amount == UnmintedPairDeposit(m, u) IN
  /\ markets[m].state = "Active"
  /\ amount > 0
  /\ pairCollateralMinted' = [pairCollateralMinted EXCEPT ![m][u] = @ + amount]
  /\ balanceOf' = CreditPair(m, u, amount)
  /\ UNCHANGED <<markets, pendingPairCollateral, borrowerCollateralDeposited, custody>>

MergePositions(m, u, amount) ==
  /\ markets[m].state = "Active"
  /\ amount <= balanceOf[YesTokenId(m)][u]
  /\ amount <= balanceOf[NoTokenId(m)][u]
  /\ balanceOf' = DebitPair(m, u, amount)
  /\ Pay(amount)
  /\ UNCHANGED <<markets, pendingPairCollateral, pairCollateralMinted,
                 borrowerCollateralDeposited>>

(* redeem, which the loan contract calls too, for the NO tokens it holds. *)
Redeem(m, h, outcome, amount) ==
  /\ markets[m].state = "Resolved"
  /\ outcome = markets[m].winningOutcome
  /\ amount <= balanceOf[<<m, outcome>>][h]
  /\ balanceOf' = Debit(balanceOf, <<m, outcome>>, h, amount)
  /\ Pay(amount)
  /\ UNCHANGED <<markets, pendingPairCollateral, pairCollateralMinted,
                 borrowerCollateralDeposited>>

(* ERC-1155 safeTransferFrom by the holder; the loan contract accepts tokens. *)
TransferOutcome(t, u, to, amount) ==
  /\ amount > 0
  /\ amount <= balanceOf[t][u]
  /\ balanceOf' = Credit(Debit(balanceOf, t, u, amount), t, to, amount)
  /\ UNCHANGED <<markets, pendingPairCollateral, pairCollateralMinted,
                 borrowerCollateralDeposited, custody>>

-----------------------------------------------------------------------------
(* The steps of users, and those of a loan contract that may call at any time. *)
UserNext ==
  \E m \in Markets, u \in Users :
    \/ \E a \in Amounts : \/ DepositBorrowerCollateral(m, u, a)
                          \/ DepositPairCollateral(m, u, a)
                          \/ WithdrawPairDeposit(m, u, a)
                          \/ MergePositions(m, u, a)
                          \/ \E o \in Outcome : Redeem(m, u, o, a)
                          \/ \E o \in Outcome, to \in Holders :
                               TransferOutcome(<<m, o>>, u, to, a)
    \/ RefundBorrowerCollateral(m, u)
    \/ RefundPairCollateral(m, u)
    \/ MintActivatedPair(m, u)

LoanContractNext ==
  \E m \in Markets :
    \/ \E u \in Users, c \in Collaterals : CreateProtoMarket(m, u, c)
    \/ ActivateMarket(m)
    \/ CancelMarket(m)
    \/ \E o \in Outcome : ResolveMarket(m, o)
    \/ Redeem(m, LoanContract, "No", balanceOf[NoTokenId(m)][LoanContract])

Next == UserNext \/ LoanContractNext

Spec == Init /\ [][Next]_vars

-----------------------------------------------------------------------------
(* What the contract owes for a market: deposits not yet minted into pairs,   *)
(* and one unit for the borrower's deposit, the pairs out, or the winning     *)
(* tokens out, by the state the market is in.                                 *)
Supply(t) == Total(balanceOf[t], Holders)

Unminted(m) == Total([u \in Users |-> UnmintedPairDeposit(m, u)], Users)

Backing(m) ==
  IF markets[m].state = "Active" THEN Supply(YesTokenId(m))
  ELSE IF markets[m].state = "Resolved" THEN Supply(<<m, markets[m].winningOutcome>>)
  ELSE borrowerCollateralDeposited[m]

Owed(m) == Unminted(m) + Backing(m)

(* The one USDC balance is, to the unit, what all markets together owe: no    *)
(* order of deposits, withdrawals, mints, merges, refunds and redemptions in  *)
(* one market spends or strands the collateral of another.                    *)
CustodyCoversClaims ==
  custody = Total([m \in Markets |-> Owed(m)], Markets)

(* YES and NO exist only as pairs until the market resolves: none before it   *)
(* is activated, and as many of one as of the other while it trades, however  *)
(* the tokens are spread over the holders.                                    *)
PairsBacked ==
  \A m \in Markets :
    /\ markets[m].state = "Active" => Supply(YesTokenId(m)) = Supply(NoTokenId(m))
    /\ markets[m].state \in {"Proto", "Cancelled"} =>
         Supply(YesTokenId(m)) = 0 /\ Supply(NoTokenId(m)) = 0

(* A deposit that was minted into pairs can be withdrawn no more: withdrawals *)
(* and mints of the same account, interleaved, share one deposit.  Before     *)
(* activation nothing is minted, so a refund returns the whole deposit.       *)
MintedWithinDeposit ==
  \A m \in Markets, u \in Users :
    /\ pairCollateralMinted[m][u] <= pendingPairCollateral[m][u]
    /\ markets[m].state \in {"Proto", "Cancelled"} => pairCollateralMinted[m][u] = 0

(* A borrower never has more collateral in the contract than the loan asks    *)
(* for, and an id no loan was opened for holds no borrower collateral, even   *)
(* when it was cancelled before it was opened.                                *)
CollateralWithinRequirement ==
  \A m \in Markets :
    /\ borrowerCollateralDeposited[m] <= markets[m].borrowerCollateralAmount
    /\ markets[m].borrower = NoAddress => markets[m].state \in {"Proto", "Cancelled"}

(* A resolved market stays resolved the same way, and no token of the losing  *)
(* side is ever burnt for collateral.                                         *)
ResolutionFinal ==
  [][\A m \in Markets :
       markets[m].state = "Resolved" =>
         /\ markets[m]' = markets[m]
         /\ \A o \in Outcome \ {markets[m].winningOutcome} :
              Supply(<<m, o>>)' = Supply(<<m, o>>)]_vars

=============================================================================
