# StopDownLoans in TLA+

Specifications of the StopDownLoans contracts and backend, the TLC models that
check them, and proofs checked by TLAPS.

StopDownLoans is a lending market. A borrower opens a loan with a principal, an
interest, a collateral and three deadlines. Lenders fund it in positions. Every
loan has an outcome market in which a unit of USDC buys a pair of one YES token
(the loan is repaid) and one NO token (it defaults); the borrower's collateral
buys such pairs when the loan is activated, YES for the borrower and NO for the
lenders. An off-chain order book matches signed orders for these tokens and
settles the matches through an exchange contract.

## 1. Inventory

| Component | Source | State | Operations | What makes it correct |
|---|---|---|---|---|
| Lending contract | `contracts/LoanPositionToken.sol` | loans, positions, position tokens, fee settings, owner, one USDC balance | create, fund, withdraw, activate, pay, settle, cancel, default, redeem, claim, split, fee and owner calls | all USDC accounted for; repaid or defaulted by the deadline; nobody is paid more than the loan earned |
| Outcome token contract | `contracts/OutcomeToken.sol` | markets, pair deposits, minted amounts, borrower deposits, ERC-1155 balances, one USDC balance | deposits, withdrawals, refunds, mint, merge, redeem, and four calls of the loan contract | every token and deposit is covered; pairs stay pairs; resolution is final |
| Exchange contract | `contracts/OutcomeExchange.sol` | filled amount per order, operators | matchOrders, setOperator | no order is filled beyond its amount or at a worse price |
| Matching | `backend/src/clob/matching.ts`, `orderMath.ts`, `book.ts` | none (a function of the book) | match a taker, derive amounts | price-time priority, no self-trade, no over-fill |
| Orders and reservations | `backend/src/clob/db/orders.ts`, `db/reservations.ts`, `reservationAccounting.ts` | remaining and pending amount and status of an order; reserved balance of a maker | insert, match, cancel, expire, confirm, release | reservation = what open orders may still spend |
| Admission, submission, cancellation, expiry | `admission.ts`, `orderSubmission.ts`, `orderCancellation.ts`, `expiredOrders.ts` | the tables above | one transaction each, concurrent | no order is admitted beyond its maker's balance |
| Settlement executor | `executor/*.ts`, `db/trades.ts`, `db/settlementAttempts.ts` | trades, settlement attempts | claim a trade, broadcast, retry, clean up | a trade settles at most once; a failed one gives back what it held |
| Chain reconciliation | `receiptSweep.ts`, `reconciliation.ts`, `reconciliationLoop.ts` | processed events, block cursor | sweep receipts, apply events | the tables converge to the chain; the cursor never sticks |
| Reservation reconciliation | `reservationReconciliation*.ts` | the tables above | scan, plan, cancel | only orders that lost their balance are cancelled |
| Market configuration | `db/marketConfigs.ts`, `db/marketConfigEvents.ts`, `marketConfigEventLoop.ts` | configurations, outbox | open, close, update ticks, publish | every change is announced, in order |
| Lending keeper | `lending/keeper.ts` | none (reads the chain) | scan the newest loans, make one call per loan | every loan that can be ended is ended |
| Read models, API, book feed | `api/*.ts`, `db/loanSnapshots.ts`, `lending/loanSnapshotSync.ts` | caches, sockets | read, publish | messages in order, cursors stable |
| Rate limiter | `platform/rateLimit.ts` | window counters | admit | limits hold per window |
| Web frontend | `frontend/src/` | what is shown, forms that wait, requests under way | forms with preflight, order ticket, polls, feed | offers what the contracts and the server accept, and shows what is selected |
| Wallets, scripts | `circle-wallet/`, `scripts/` | none of their own | wallet requests, operator tools | |

Interaction. `LoanPositionToken` calls `OutcomeToken` to open, activate, cancel
and resolve the market of a loan, and holds NO tokens there. The backend calls
`OutcomeExchange` as an operator and learns what happened from receipts and
events. The keeper calls `LoanPositionToken` as anyone may. The backend's
loops, its HTTP handlers and the chain share the Postgres tables. The page reads
the chain through the API and through the wallet's provider, listens to the book
feed, and sends transactions and signed orders.

Where it is hard: transactions of many accounts in any order around deadlines;
two contracts with one USDC balance each, shared by all loans; rounding of
shares, fees, splits, fills and reservations; a payout pool that still grows
while it is claimed from; crashes between the chain and the database, late and
dropped transactions; concurrent transactions on the same order and the same
maker; views that are stale when they are used, and answers that come after the
question has changed. The entries under `hazards` in `PROJECT.json` name the
lines.

## 2. Modules

The contracts:

| Module | Role |
|---|---|
| `Totals` | the total of a ledger over a finite set of accounts, without recursion |
| `OutcomeToken` | the outcome token contract, with a loan contract that may call it at any time |
| `LoanPositionToken` | the lending contract, composed with `OutcomeToken` (instance `Market`) whose markets it decides about |
| `LoanLifecycle` | abstract specification: what a loan promises |
| `LoanRefinement` | the mapping under which `LoanPositionToken` implements `LoanLifecycle` |
| `OutcomeExchange` | the settlement contract, over the order tables whose orders it fills |

The exchange's server:

| Module | Role |
|---|---|
| `OrderMath` | prices, ticks, amounts and what fills release of a reservation, as operators |
| `Matching` | a taker against its makers; the levels a book shows |
| `OrderTables` | each SQL statement on orders and reservations: its WHERE clause and its SET |
| `OrderLedger` | the tables as variables, and the transactions that order entry and settlement share |
| `OrderEntry` | submission, cancellation, expiry and reservation reconciliation, concurrent |
| `ClobSettlement` | executor, receipt sweep, indexer and chain, over `OutcomeExchange` |
| `BookFeed` | market configuration with its events, publisher and subscribers |

Keeper and page:

| Module | Role |
|---|---|
| `LendingKeeper` | the keeper's batches over `LoanPositionToken` |
| `WalletForms` | the loan, pair and outcome forms over `LoanPositionToken` |
| `OrderTicket` | the order ticket against the admission of `OrderEntry` |
| `PageState` | loan snapshots, API views, and what the page fetches and shows |

`MC*` are the instances for TLC. The theorems are in modules beside them:

| Module | Theorems about |
|---|---|
| `Totals_proofs` | totals of ledgers |
| `OutcomeToken_proofs` | the outcome token contract |
| `LoanPositionToken_proofs` | the control of a loan, its market and the refinement of `LoanLifecycle`; the ledgers, types and collateral of the lending contract; what a settled loan pays out |
| `OrderLedger_proofs` | the tables that order entry and settlement share: what folds go through, what a statement leaves of a row, what a reservation has to spare |
| `OrderEntry_proofs` | order entry, the reservation reconciliation and the order ticket |
| `ClobSettlement_proofs` | settlement, indexer and exchange contract |
| `BookFeed_proofs`, `PageState_proofs` | what a replica and the page show |

Conventions. A transaction is one step, because the chain executes it so. A
call that reverts is a step that is not enabled. State variables and actions
have the names of the contracts' variables and functions. Definitions marked
*slip* are faulty variants of a handler or helper; they are part of no
behaviour and exist to show that a property would notice the fault.

`OutcomeToken`. `markets[m]`, `pendingPairCollateral`, `pairCollateralMinted`
and `borrowerCollateralDeposited` are the mappings of the contract; `balanceOf`
is its ERC-1155 balances, `custody` its USDC balance. A market id is the hash of
a loan id, so the loan id stands for it, and a token id is the pair of a market
and an outcome. `UserNext` holds the handlers anyone may call,
`LoanContractNext` those reserved to the loan contract, at any time.

`LoanPositionToken`. `loans[l]` holds the `Loan` record and the mappings
`loanFeeBps`, `loanFeeRecipient` and `loanCollateralBps` (`loanInterestBps` is
only displayed). A position token has a supply of one, so `positionOwner`
replaces its balances. `loanUsdc` is the USDC balance. `now` is the timestamp of
the block; `Tick` advances it between transactions. The calls into
`OutcomeToken` are conjuncts of the handler that makes them. `claim` is two
actions, as its code is two paths.

Left out of both: allowances and the wallets of the callers (a failing transfer
is a revert), USDC sent to a contract outside its handlers, events and URIs, and
the ERC-1155 receiver callback of a holder that is itself a contract. Amounts
are natural numbers: Solidity's checked arithmetic reverts where they would
leave 256 bits, and where a subtraction would go below zero the model has the
test as a guard (`amount > 0` in `ClaimSettled`). Two fields are history and not
in the code: `split` marks the halves of a split, and `splitAfterClaim` the new
half if the position had claimed by then.

`LoanLifecycle`. Per loan a `phase`, the `verdict` of its market, whether it was
paid up (`paidUp`) and whether it is `due`. A loan that is Live becomes Repaid
only if it was paid up, and Defaulted only if it is due and was not; it can be
paid up only while it is not due. `LoanRefinement` maps `repaymentSatisfiedAt # 0`
to `paidUp` and `now > repaymentDeadline` to `due`.

`OrderMath`, `Matching`, `OrderTables`, `OrderLedger`. An order is a row: side,
amounts, what remains, what is pending, status, sequence and expiration.
`Signed[h]` is the content of the order with hash `h`, so neither hashes nor
signatures appear. Prices are integers of `PriceScale` to the USDC. Each
statement of `db/orders.ts` and `db/reservations.ts` is a pair of operators:
when its WHERE clause finds the row, and the table after it. A transaction folds
them over a record of the tables with a flag `ok`; one that throws is a step that
is not enabled, because Postgres rolls it back.

`OrderEntry`. `submission[p]` is a request: it has passed the checks, has read
the balance, has read the reservation under the advisory lock (in either order,
as the code awaits both), has matched, and commits or rolls back. The lock is
held from the read to the end. Between any two of these steps other requests,
cancellations, the expiry sweep, the end of a trade, withdrawals from wallets and
the steps of the reservation reconciliation happen. A trade ends here in one
step, confirmed or failed. `marketState` is what the chain says of the market of
a book: admission reads it with its other checks, and the market may be
activated, cancelled or resolved (`MarketMoves`) between that and the commit.

`OutcomeExchange`, `ClobSettlement`. `MatchOrders` is the whole transaction with
its checks, transfers and events. The executor is a sequence of steps cut where
the code awaits: claim a batch, count attempts, create an attempt, send, record
the hash in the attempt, record it in the trade, retry, read the failed trade,
release it. The trades of a batch are served in any order: the statement that
claims them takes the oldest first, and returns them in no particular order. The
receipt sweep and the indexer run beside it, each never twice at once. To the
sweep any error of the read is a receipt that does not exist, so a transaction
that is pending or mined may be taken for dropped as well as a lost one. `sent`,
`mempool`, `receipts` and `blocks` are the chain. A restart loses what the loops
carry and nothing else. What may disturb the settlement (`lost`, `slow`,
`crash`, `unanswered`, `write`, `wallet`, `operator`, `clock`, `cancel`) is
chosen with the initial tables, each kind at most once.

`LendingKeeper`. One step per read of the batch, one for the write, one for the
receipt. The view is what was read; the clock of the server may be apart from
that of the chain (`Skews`). A read that fails, a write that would revert and a
receipt that does not come end the batch, as the code throws.

`WalletForms`. `Buttons(l)` is, from the conditions of `preflight.ts` and of the
forms, the set of transactions the page offers; a click broadcasts one, which
succeeds, reverts or is not mined in time. Everybody else, and the same wallet on
another page, acts between. While the wallet's balances are read the page goes on
with those it had, which may be of another market or account: at any time a button
may be one of any old balances (`OldButtons`), and its transaction is sent too. `OrderTicket` has the conditions of the ticket of an
order, against `OrderEntry`'s admission, over views and balances of the moment; a
market of a loan (`LoanBooks`) has the state of its loan there, another one the
state that its configuration suggests.

`BookFeed`. A publication is two steps, as the code takes the sequence number
before it awaits the book. Subscribers are members of a set that is dropped from
the map when the last one leaves, and a publication under way keeps the set it
had. A client that keeps a replica applies what it receives.

`PageState`. Requests are records with what they ask for, an answer once the
server has read it, and whether the effect that made them was cleaned up. A batch
of the snapshot loop goes down from the loan that was the newest when it began.

## 3. Runs

| Run | Instance | Question |
|---|---|---|
| `outcome_token` | 1 market, 2 accounts, amounts 1 and 2, collateral 0 to 2 | collateral, pairs, resolution of the outcome contract |
| `lending` | 1 loan of 2 for 3, collateral 1, 2 accounts, 2 fee recipients, 3 positions, timestamps 1 to 5 | ledgers, deadlines, agreement with the market, collateral, entitlements |
| `splitting` | 1 loan of 6, up to 4 positions, stakes of 3, splits of 2, payments of 3 and 9, 2 owners, fees 0 and 50% | what a loan pays in all when positions are split between claims and the owner changes the fee |
| `loan_refinement` | 2 loans of 1, with and without collateral, fairness | refinement, liveness, both loans' share of one USDC balance |
| `order_entry` | 2 requests at once, a seller with 2 asks, a buyer with a bid and an ask, 2 orders that no rule admits, 3 sequences; beside the market of a loan one switched off and one without a loan, in the states they come to | reservations, matching, admission, reconciliation, and the page's rules against the server's |
| `settlement` | 2 trades of one bid, 2 attempts, one disturbance a run (two with a cancellation), fairness | what a trade comes to, and what it leaves behind |
| `keeper` | 2 loans of 1, clocks one second apart either way, one fault, a newer loan that reverts, fairness | selection and service of loans |
| `wallet_forms` | 1 loan of 1 with collateral 1, the page's wallet and another, amounts 1 and 2, an allowance of 2 at first, one transaction, balances fresh or old | forms against contracts |
| `book_feed` | 2 books of one price, 2 clients, 7 numbers, 2 changes | replica and publisher |
| `page_state` | 2 books, 1 account, 1 loan, 2 changes, 2 requests at once, fairness | what the page shows |
| `split_rounding`, `settlement_stuck` | | expected violations, see section 6 |

Why the bounds are enough for the question. Contracts: with a principal of 2 or 6
and positions of part of it, a loan can be filled by one lender or several,
partly withdrawn, over-offered, paid in part, exactly and beyond. Deadlines 2, 3
and 4 with timestamps to 5 give a block before, at and after each one. Three
positions allow one lender to split and another to fund. Two loans are enough
for one to take what belongs to the other. `MaxCredited` bounds what is paid into
a loan, `MaxCustody` and `MaxPending` the USDC of the outcome contract: they are
guards of the model, not of the code, and are above what one loan needs.
`MaxPositions` bounds position ids.

The run `splitting` has four positions so that both of two positions can be split after a
claim, which is what it takes to exceed the pool.

Orders: two asks at different prices, the better one newer, and a bid that
crosses both and is filled by the two in part give every case of priority;
amounts of which the price is no divisor make fills round; a third sequence
number lets an order be refused or rolled back after another used its liquidity.
The markets of other
books add states of the market (`InitMarkets`, `MarketChanges`): that of the orders
is activated or cancelled, another one resolved under a request. Two requests are what a lock is for. Two trades of one maker, matched before
either settled, are the least that can be mined in the other order; two attempts
are one retry. More disturbances at a time multiply the states and were not
needed for any mutant. One batch limit of two trades lets the first fail under
the second.

Keeper: a scan limit of two with two loans lets one loan stop the other's
service. That a loan beyond the limit is not served needs no run. Page: two
requests for the same list are what an answer out of order takes; two changes
are one the page has seen and one it has not. The limit on sequences in
`book_feed` lets a gap appear between any two messages of a subscription.

Accounts, and the requests of `order_entry`, are interchangeable where a run
declares symmetry; no run with a liveness property does. Deadlock is not checked:
every instance has an end. A contract with nothing left to call, a book whose
sequence numbers are used up, a settled trade or a page that shows everything
are where these instances stop.

Properties, and what would break them.

* `CustodyCoversClaims` / `MarketsCovered`: the USDC of the outcome contract is
  exactly what its markets owe (deposits not minted, the borrower's deposit,
  pairs out, or winning tokens out). A deposit refunded twice, or a unit
  withdrawn after it was minted, breaks it.
* `PairsBacked`, `MintedWithinDeposit`, `CollateralWithinRequirement`,
  `ResolutionFinal`: pairs stay pairs until resolution; withdrawal and mint share
  one deposit; the borrower's deposit is capped, also for an id that was cancelled
  before it was opened; a resolution is final and burns no losing token.
* `UsdcAccounted`, `FundingLedger`, `LoanMarketAgree`, `SettledByDeadline`,
  `CollateralBehindLenders` / `CollateralReachesLenders`, `EntitlementsNeverShrink`:
  what the loan contract holds and has paid out is what came in, as one sum over
  all loans (the ledger of each loan is `FundingLedger`'s and, once it is settled,
  `PayoutsBounded`'s); the funded amount
  is the sum of live stakes; the two contracts are in the same stage; repaid
  exactly by payments up to the deadline; the collateral of a defaulted loan
  reaches the pool of its lenders; nobody else's call lowers what a position can
  claim.
* `PayoutsBounded`: the platform never gets more than its fee; what the lenders have
  claimed and may still claim is together never more than the rest, but for less
  than one unit per split of a position that had claimed (`(principal - 1) /
  principal` of a unit). One such split is therefore always within the rest.
* `LedgerBalances`: a reservation covers what its maker's live orders and open
  trades may still take, and the pending amount of an order is what open trades
  will fill. For USDC this is short by at most one unit for each fill of a failed
  trade: the release of a failed fill is rounded apart from the others.
* `AdmissionSerialized`: an order is stored only within the balance its own
  admission read, with all that was committed meanwhile. Without the advisory lock
  two requests spend one balance.
* `MatchesHonourBook`: each crossing order, by price and then age, gives all it
  has of what those ahead of it left, but for a fill worth less than one unit;
  the taker is within his limit but for one unit a fill.
* `ReconciliationKeepsPriority`: no older order goes before a newer one, none goes
  that need not, nothing pending goes; and whether it cancels anything or not, a
  step leaves the reservation within the balance it read or nothing to cancel.
* `TicketAgreesWithAdmission`: what the server would admit the ticket lets the
  user sign, in every state of the market. What it lets him sign the server
  admits, but for three things the ticket does not look at: what is reserved for
  his other orders, the switch `clobEnabled` of the market of a loan, and the
  state on the chain of a market without one. Section 7 has these cases.
* `ConfirmedIsProcessed`, `NoEventSkipped`: confirmed amounts are those of the
  last event applied, whatever was applied twice or after a crash; the cursor
  passes no event that was not applied.
* `AttemptsBounded`, `MakersPaidTheirPrice`: no trade is attempted more often than
  the policy says over all batches and restarts; on the chain no order is filled
  beyond its amount and a maker's fills cost what his limit says of their total.
* `AmountsFollowTrades`, `ReservationsCoverTrades`: as long as every trade was
  settled or given up at most once, and not both (`Regular`), pending and confirmed
  amounts are the order's part of its trades, and reservations cover what they need,
  short by at most one unit of USDC for each part of a trade given up. These are the
  trades whose release has committed, not those that say FAILED, as a status may be
  written over.
* `ConfirmedStays`: a confirmed trade is only undone when it was attempted more
  than once, or when the sweep has taken, or now takes, a transaction of it for
  dropped. A reverted transaction never undoes one.
* `TradesEnd`: every trade is confirmed or failed in the end, unless the indexer
  meets an event it can never apply, or a late write of the executor covers the
  verdict of another loop. The two exceptions are behaviours of the code,
  section 7.
* `SelectionMatchesContract`: what the keeper selects of the present state is what
  the contract accepts, for each of the four calls that decide about a loan.
  `LoansServed`: loans end with nobody but the keeper calling.
* `EnabledButtonsSucceed`, `NothingWithheld`: an offered transaction succeeds if
  nothing changes, but for three conditions the page leaves to the contract; and
  what the contracts accept of the wallet is offered. Both are said of
  the balances the wallet has; a button that only old balances enable may send a
  transaction that reverts, which the run includes as one more thing that happens.
* `ReplicaFollowsPublisher`: a client that has every number since its snapshot has
  the publisher's book. A message lost to a dropped set always shows as a gap.
* `PageShowsSelection`, `EverythingShown`: nothing is shown under another
  selection, and every change comes to be shown with the feed down.
* `ImplementsLifecycle`, `EveryLoanEnds`: section 2 and section 4.

`MatchesHonourBook`, `AdmissionSerialized`, `ReconciliationKeepsPriority`,
`ConfirmedStays`, `ResolutionFinal` and `EntitlementsNeverShrink` are about steps;
the others about states, or about what happens in the end.

## 4. Fairness and timing

`loan_refinement`. Time passes, and `settleRepaid`, `cancelExpiredLoan`,
`markDefaulted` and `redeemDefaultCollateral` are called when they stay possible:
the contract lets anyone make these calls. `activate` is not assumed: a funded
loan nobody activates is ended by cancellation.

`keeper`. Only the process, the mining of what is sent and time are fair; nobody
else is asked to call anything. The keeper is a timer that starts a batch when
none runs, whatever became of the last one. The number of failed reads and late
receipts is bounded by `MaxFaults`: `LoansServed` holds when failures stop. A loan
whose activation reverts (`RefusingLoans`: a borrower that is a contract and
refuses ERC-1155 tokens) ends each batch until its activation deadline has
passed; then it is cancelled and the others are served.

`settlement`. Executor and indexer are strongly fair, the sweep and the mining of
what is in the mempool weakly: the three are timers that run again after any
error, and rows locked by another transaction become free again and again. One
assumption on time: a transaction sent and not yet recorded, or recorded just
now, is not taken for dropped (`JustSent`). The dropped timeout is 60 s, the
executor's own pauses are 5 and 15 s, so an executor that is not stuck for a
minute satisfies it.

`page_state`. The timers fire and requests are answered. A request for a list may
be cancelled by the next one, so answers are strongly fair: now and then one comes
before it is cancelled. A server that always takes more than the 15 s between
polls, or a feed that is always faster than the answers, would not satisfy this;
then the page never shows the book.

## 5. Proofs

TLC checks the instances above; the theorems hold for every number of markets,
loans, positions, accounts, orders, trades, attempts and blocks and for all
amounts. They assume what the modules' `ASSUME`s say and nothing else: finite sets
of accounts and markets, distinct addresses, natural amounts, fees of at most
10000 basis points, signed orders of positive amounts, no outcome token that is
the USDC (the type of an asset is in the key of a reservation), and for the
settlement that the tables start as matching leaves them (`ScenariosAssumption`:
rows that satisfy the constraints of the schema, trades of orders in the table,
each for the sum of its fills, with each maker once and no order on both sides,
none of them sent; nothing of any order confirmed, pending of it what the trades
take, and reserved what the orders need). Order entry starts from empty tables
(`OrderEntryAssumption`: balances are natural numbers, and no two reservation keys
have one place in the order in which the reconciliation pages through them, as
they are the primary key of the table). That every trade satisfies what
`ScenariosAssumption` says of it is part of what `OrderEntry_proofs` proves of the
trades a commit stores (`TradeOfOrders`).

**`Totals_proofs`.** `Total(f, S)` is the number of units in a ledger, so the
facts about it (`TotalUpdate`, `TotalSplit`, `TotalZero`) follow from those about
cardinalities. Where an induction over a set is needed (`SubsetInduction`) it is
one with a set of sets in place of a predicate, which the provers can
instantiate: take a smallest subset outside it. `TotalCompare` and
`TotalMonotone` come from it.

**`OutcomeToken_proofs`.** `Spec => []IInv` where `IInv` is `TypeOK`,
`CustodyCoversClaims`, and for every market `MarketInv`: minted within deposit,
the borrower's deposit within the requirement, no tokens before activation,
equal supplies while active. None of these is inductive alone: that custody
covers the claims after `activateMarket` needs that no token existed before and
that the borrower's deposit is exactly the requirement, and after `resolveMarket`
that the two supplies are equal, as what is owed changes from one supply to the
other. The proof has a lemma per handler; `OneMarketStep` carries the total over
the markets from the change in one of them. The properties of the run are its
consequences; `ResolutionIsFinal` adds that a step in a resolved market only
burns winning tokens.

**`LoanPositionToken_proofs`.** First, the composition: every step of the loan
contract is, for the markets, a step of `OutcomeToken` or none
(`LoanStepInMarket`), so its invariant carries over through an instance of its
proof module (`MarketInvariantHolds`, `LoanMarketsCovered`). Second, the control
of a loan: `ControlInv` says of each loan what holds in its stage. It
strengthens `LoanMarketAgree` and `SettledByDeadline` by `StageInv`: an id not
opened has no deadline, so nobody can fund it; a loan that was not activated has
no payments; one that was is funded by its principal, which is positive. Without
that, `activate` could make a loan Active that already counts as paid up, and
the share of a position could divide by zero. `ControlInv` leaves the ledgers
alone: the amounts of positions need only be integers. Third, the refinement
`RefinesLifecycle`, `Spec => Lifecycle!Spec`: every call maps to a step of
`LoanLifecycle` or a stutter. A loan activated is not due because `ControlInv`
has the activation deadline before the repayment deadline; a tick maps to all
loans that fall due with it.

Ledgers. `Spec => []LedgerInv`, with `ControlInv` as what is known
already. `LedgerInv` is `UsdcAccounted` and, for every loan, that its funded
amount is the stake of its positions (`FundedInv`); neither is inductive without
`PositionInv`, about one position: an id not used is empty, one that is held is of
a loan that was opened, and nothing was claimed from it before its loan ended, so
that what a lender withdraws is the whole of his stake. Each handler changes one
loan and at most two positions; lemmas like `OneLoanLedgerStep` reduce the totals
to these. `TypesHold` follows: that no subtraction
of a handler goes below zero is a consequence of the ledgers and not of the
types. `CollateralStaysBehindLenders` follows the NO tokens that `activateMarket`
mints to the loan contract (`CollateralInv`): no call of a user moves one, and
redemption burns them for as much USDC.

Payouts: what a settled loan pays. Fee and pool are functions
of what was credited that grow with it (`PartGrows`, `FeeCases`), so no
entitlement shrinks (`EntitlementsHold`). For `PayoutsAreBounded` the fee taken
is at most the fee now (`FeeInv`). The lenders' side needs an invariant that
bounds what roundings may add up to: the *excess* of a position is by how much
`funded * claimed` is above `pool * principal`, or 0. A claim leaves none. A split
of a position that had claimed nothing adds none either; one of a position that
had leaves, in the old and the new position together, at most `funded - 1` more
than there was (`SplitExcess`: what rounding takes is less than a unit). So
`ExcessInv`: the total excess of a loan is at most `funded - 1` for each position
that was split off after a claim. What a position may still claim leaves no excess
at all, which is why the bound holds for what is due (`DueLedger`) and not only
for what was paid.

**`OrderLedger_proofs`.** What order entry and settlement both rest on. `FoldExists`
gives the sequence of tables a folded transaction goes through and `UpTo` the
induction over it, again with a set in place of a predicate. The *spare* of a
reservation (`Spare`) is what it has beyond what its orders need. `Needed` of a SELL
order are the tokens that are open, and of a BUY order the cost, rounded down, of
what is confirmed and open less the cost of what is confirmed. The lemmas say what each statement
does to it: a confirmed fill and a cancelled or expired remainder lose none
(`NoSpareLost`), as the release is the difference of two needs; the release of a
failed fill is rounded apart from the rest and may take one unit of USDC too many
for each order the trade had a part of, and no more (`SpareBut`, `FailedTrade`).
`Covered` says that no spare is below zero but for these units, and is what both
components keep. Transactions that release by a row read in an earlier statement
work with a copy of it: `CopyOf` says what a copy has in common with its row for
good (the signed content, and that an order that has ended does not come back),
every statement preserves it (`Aged`), and it is all that the release needs of
the copy.

**`OrderEntry_proofs`.** `Spec => []EntryInv`, for any tickets, requests, prices,
balances and sweep and page limits. The first part of `EntryInv` is `LedgerInv`: the
rows satisfy the constraints of the schema, pending of an order is its part of
the open trades, the trades are of orders in the table, and `Covered`. It is not
inductive alone: a commit adds to what is pending of an order what the match took
of it, and to its part of the open trades what the stored trade says, and the two
agree only if the match takes each maker once and adds up. That each is
taken once needs that the sorted makers exist (`SortedExists`: `SortedBy` is a
`CHOOSE` over permutations), and that needs a strict and total order: price by
cross-multiplication is transitive (`FractionsInOrder`) and age decides between
equal prices only if no two orders have one sequence number. This is
`SequencesInv`, which rests on `OneSequence`: two requests that wait to commit
have different numbers. `RequestsInv` says of a request that holds the advisory
lock that what is reserved now, with its own amount, is within the balance it
read, although other transactions wrote the row in between: they only lowered
it, since who raises it holds the lock (`OneHolder`). `LedgerBalances`,
`AdmissionSerialized` and `TypeOK` follow. `MatchedTable` and `Committed` follow
one commit through match, insertion, increases and reservation; `Swept` and
`Reconciled` do so for the expiry sweep and for the reconciliation.

`EntryMatching` (`MatchesHonourBook`) is about one match. The loop is followed
round by round (`MatchTakes`): of maker i it takes what `Taken` says of what is
left by then, and he is in no other round. As the makers are sorted
(`InPriority`), those ahead of him are those of the rounds before
(`MatchIsBest`), so that what is left when his turn comes is the taker's amount
less what they gave. The limit is kept fill by fill: a fill costs its part of
the maker's price but for a unit (`FillCosts`), and that price crosses the
taker's (`CrossedLimit`). That the query for candidates leaves out the taker's
own hash hides no match: a row of that hash, if another request has stored it
meanwhile, has the side its maker signed (`SignedInv`) and crosses nothing of
that side (`CrossingRows`).

`EntryReconciliation` is about the plan: it takes orders newest first until what is
reserved is within the balance (`PlanSteps`, `FirstAdds`), so that what it cancels
is newer than what it leaves, the last one it took was still needed, and it takes
only what is available. `ReconcilerInv` says that the balance a batch carries is one
number; the plan is made and applied in one transaction.

`TicketAgrees` compares two programs: the page derives amounts, ticks and limits
from its own copy of the rules. The lemmas show that the two copies agree
(`InputIsValid`, for the state of the market too: that of the chain for a loan's,
that of the configuration for another) and that what the page asks of the balance
is what admission reserves (`TicketAmount`). What is left between them are the
three exceptions the property names, each needed: `order_entry` has states where
the ticket signs and admission refuses for each of them.

**`ClobSettlement_proofs`.** `Spec => []IInv`, for any orders, trades, batches
and disturbances. `IInv` is a conjunction of what each part promises the others:
`TablesInv` (the tables of orders, reservations, trades and attempts, a hash
only of what was sent), `ExecutorInv` and `SweepInv` (what the loops carry: the
copies of orders are those of all the orders of the trade), `ChainInv` (what is
mined was sent, a block ends within the logs), `ContractInv` (an order is filled
within its amount, no log says more of it than that, and a maker's logs cost
what his limit says of them), `IndexInv` (the events up to the cursor, and those
the indexer has passed, are processed). `ConfirmedIsProcessed` is inductive
together with it: what is confirmed is the greatest total of the processed
events, which the first application of an event can raise and a repeated one
cannot. The number of attempts is a second invariant (`AttemptsInv`): what has
been created and what the batch may still create are together within the policy.
Thirty actions over twenty variables would be many cases, so `NextWriters` says
once which actions write which variables, and each conjunct only looks at those.
`MakersPaid` is where the telescoping of rounded amounts is proved: one fill costs
the difference of two roundings, the fills of an order cost the rounding of their
sum.

`ConfirmedIsKept` is about steps that overwrite a status without reading it. Its
invariant, `SettledInv`, ties statuses to the chain: a trade is confirmed only
with a hash that was mined and succeeded, and a hash has one receipt
(`MinedInv`); the hash of a trade is that of one of its attempts (`TracesInv`);
the attempt the executor works on is never the one whose hash its trade has, and
it gives up only after all attempts were made (`CurrentInv`); the sweep says
REVERTED only of a failed receipt (`VerdictInv`). A writer that undoes a
confirmed trade therefore has another attempt than the one that settled it in
hand, so that there are two, or writes the verdict DROPPED. The policy of one
attempt needs `OnceInv`: the last attempt is then also the first, and a trade
that was sent once is not taken again.

`AmountsAccounted` is about sums over trades. Its invariant, `AmountsInv`, says of
a regular history that the contract has filled of an order its parts of the
settled trades, and that what is confirmed and pending of it are its parts of the
open trades, those not given up. The first is needed because a fill event moves
to confirmed what pending allows: the total it brings is at most what was filled,
a sum over settled trades, all of which are open. `HistoryInv` says what matching
makes of a trade: its amount is the sum of its fills, and no order is on both
sides of it. From that, `BatchFills` computes by induction over a batch that it
fills of each order its part of the trade, and `CleanupReleases` that a cleanup
takes exactly that part from pending. Histories only grow, so that a regular
state has only regular states before it (`RegularBefore`), and each trade enters
a history once.

`ReservationsCover` adds the reservations: in a regular history they are
`Covered`, with the trades taken as given up when their release has committed
(`Closings`) and not when they say so. Executor and sweep read the orders of a
failed trade before the transaction that releases them, and makers cancel,
orders expire and other trades of the same orders settle in between; `CopiesInv`
says that the copies they carry are still copies of their rows (`CopyOf`), from
which the release differs from the true one by no more than the rounding. A
transaction that applies an event, a cancellation and an action that leaves the
tables alone lose no spare; one that gives up a trade does so the first time, so
that the units it may cost are counted for it now and were not before
(`GivenUpOnce`, `CoverGivesUp`). `FillIsPending` is where the two invariants meet:
a fill that is confirmed was pending, because of `AmountsInv`.

**`BookFeed_proofs`.** `ReplicaFollows`: `FeedInv` says that a replica has the
levels the publisher read last, or there is a number since its snapshot that it
has not received and that no publication under way will bring it. The second is
a gap; without the publications under way in it, a message that is only late
would count as one.

**`PageState_proofs`.** `PageShowsWhatIsSelected`: `SelectionInv` says that a
request that was not cancelled is for the present selection. What is shown was set
by such an answer or emptied when the selection changed.

Only model-checked. `SelectionMatchesContract`, `EnabledButtonsSucceed` and `NothingWithheld` compare
a view with whether an action can be taken, by `ENABLED`, which the provers do
not know. And what is about fairness (`LoansServed`, `TradesEnd`, `EveryLoanEnds`,
`CollateralReachesLenders`, `EverythingShown`) is out of their reach: of
`ImplementsLifecycle`, `RefinesLifecycle` proves the safety part.

## 6. Findings

`split_rounding`. `docs/lending-side-spec.md:365` says that a split "preserves
payout accounting when a position is split after partial claims".
`splitPosition` rounds down the claimed amount it moves to the new position. In
the run a loan of principal 6 in two positions of 3 has a pool of 3. The holder of
one claims 1 and splits off 2: the new position carries no claimed amount and may
claim 1 more, while the old one is over-claimed and its `claim` reverts. The three
positions may then claim 1 + 1 + 1, the whole pool, where before the split two
could claim 1 + 1: the split changed what was to be preserved. It takes nothing
from anybody else, as a single split adds less than one unit to a sum that was
rounded down. Splits of several positions do add up: if the holder of the other
position does the same, 2 + 2 is due of a pool of 3. The run `splitting` reaches
that state, and `PayoutsBounded` holds there only for its last term, which is the
bound on what several splits come to.

`settlement_stuck`. `docs/clob-matching-spec.md:1276` and `:1293` say that an
event of a known trade confirms it and that the cursor advances once the logs of
a block are applied. A trade is priced when it is matched, as the difference of
the maker's cumulative amounts before and after it, where "before" is what the
database holds as confirmed then. The contract takes the difference when the
transaction is mined. Two trades of one maker that are matched before either is
settled are priced from the same point. In the run a bid of 8 tokens for 6 USDC
meets two takers of 2: both trades say 1 USDC, and the second mined moves
floor(6\*4/8) - floor(6\*2/8) = 2. `assertOrdersMatchedEventMatchesTrade` throws,
the block is rolled back, and every later scan meets the same event: the second
trade stays SUBMITTED, its fills are never confirmed, and no later event of any
trade is applied. The run `settlement` has amounts for which the two prices
agree, so that what lies beyond can be checked.

## 7. What the checks do not forbid

Behaviours met while modelling that no property excludes, either because the code
has no rule against them or because a property names them as its exception.

Settlement. A sweep that reads a reverted receipt between the two records of a
hash (`executor/service.ts:58` and `:63`) is overwritten by the second record:
the trade says SUBMITTED, with no attempt left to sweep (`Overwritten` in
`TradesEnd`). A transaction taken for dropped and mined after all may settle a
trade that was sent again or given up: its fills then count although the pending
amount was released, and if the hash was replaced no trade is found and the
indexer stops there. A crash between broadcast and record leaves a transaction
the tables do not know, with the same consequences. A trade put back after a
crash with its attempts used up is failed while it may be in flight
(`worker.ts:53`). A trade that is given up while some of its fills are confirmed
already, or by executor and sweep at once, is released as a whole
(`failureCleanup.ts:33`): the release takes what is pending for other trades of
the order, although `clob-matching-spec.md:999` and `:1001` have the pending
amount be the matched part. `Regular` excludes it. A release that rounds to zero
is refused by `decreaseReservation` and fails its transaction on every retry.
The docs (`clob-matching-spec.md:1145`, `:1155`) speak of rebuilt batches; the
code sends the same fills again. Crossing orders that were admitted at the same
time may rest crossed. One order that cannot be released stops a whole expiry
sweep.

Keeper. Loans that have ended still count against `scanLimit`. A server clock
ahead of the chain makes a call revert in the gas estimate, which ends the batch.

Page. Buttons for the refunds of a cancelled market, for splitting and for giving
away positions do not exist. Funding ignores the activation deadline, payment the
repayment deadline, and redeeming default collateral whether it was done.
Switching loans forgets that a transaction is in flight, and a transaction not
mined in 120 s is reported as failed: in both cases it can be sent twice. While
the balances of another market or account are read the old ones stay
(`useAppController.ts:542`), and forms offer what these allow: such a transaction
reverts, or is withheld until the read is answered. The ticket signs for the
market of a loan with `clobEnabled` off, and for a market without a loan that is
switched on but not active; admission refuses both (`admission.ts:73`, `:81`). The
ticket does not know reservations: a maker with a live BUY order may sign a second
that admission refuses, and the page asks for no higher allowance because it
approves one order's amount. Older pages of lists are appended to whatever list
is shown when they come. Messages about a market's configuration are reported as
unsupported, and show the feed as failed, although the feed is meant to send
them. Loans older than a sync batch are not refreshed.

Feed. Numbers are given before the book is read, so messages do not leave in the
order of their numbers, which `docs/clob-matching-spec.md:1502` calls monotonic.
The last snapshot loaded may be the older one, and stays until the next change.
Trades and books changed by the receipt sweep are not published. Configuration
events are announced before their transaction commits and in the order of
`created_at`.

## 8. Not modelled

* Rate limiter: one SQL statement increments a counter and returns it; no
  interleaving within it and no other reader.
* Circle wallet clients, injected wallets: requests to a service without protocol
  state here.
* Parsing, DTOs, cursors and paging of the API; HTTP status codes. Listed as part
  of components that are "partly" modelled.
* Hashing and signing of orders (a ticket is an order its maker signed), token
  ids, events' encodings; the test of `matchOrders` that the market is active (that
  of admission is modelled).
* A ticket signed on views or balances that are older than the chain:
  `order_entry` compares the rules on the same facts.
* Two backend processes at once: each loop is taken to run in one process, as
  `scripts/serve-clob.ts` starts them.
* Reorganisations of the chain: the indexer works behind `confirmationDepth` and
  has no code for them.
* Operator scripts, deployment, mocks, rendering.

Worth having next: a settlement run with a market that resolves while trades are
in flight, and one with three trades of one maker; the abstract specification of a trade that settles at most once, which `Regular`
in `ClobSettlement` stands for now.
