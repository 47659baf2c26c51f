--------------------------- MODULE OutcomeExchange ---------------------------
(***************************************************************************)
(* The settlement contract (contracts/OutcomeExchange.sol): an operator    *)
(* settles a taker with its makers; the contract checks both signed orders *)
(* again, caps what each may be filled in all, prices a fill from what it  *)
(* has filled of the maker before, and moves the tokens and the USDC.      *)
(*                                                                         *)
(* wallet[<<a, asset>>] is what the exchange may move for account a: its   *)
(* balance while the approval stands.  A transaction that reverts is not   *)
(* enabled.  Signatures are those of the tickets; balances of accounts     *)
(* outside Makers and the receiver callbacks of ERC-1155 are left out.     *)
(***************************************************************************)
EXTENDS OrderLedger

CONSTANTS
  InitWallet,     \* InitWallet[<<maker, asset>>]: balances at the start
  Operators,      \* accounts the owner may let settle trades
  Executor        \* the account of the server's executor

VARIABLES
  filledAmounts,  \* filledAmounts[hash]
  wallet,
  operators,      \* accounts that may settle
  logs            \* the events of the mined transactions, in order

exchangeVars == <<filledAmounts, wallet, operators, logs>>

ASSUME ExchangeAssumption ==
  /\ InitWallet \in [ReservationKeys -> Nat]
  /\ Executor \in Operators

ExchangeInit ==
  /\ filledAmounts = [h \in Tickets |-> 0]
  /\ wallet = InitWallet
  /\ operators = {Executor}
  /\ logs = <<>>

SetOperator(account, allowed) ==
  /\ operators' = IF allowed THEN operators \cup {account} ELSE operators \ {account}
  /\ UNCHANGED <<filledAmounts, wallet, logs>>

(* Math.mulDiv of the buyer's limit, rounded down, against the seller's. *)
ContractCrosses(taker, maker) ==
  IF taker.side = "BUY"
  THEN (taker.usdcAmount * maker.outcomeAmount) \div taker.outcomeAmount >= maker.usdcAmount
  ELSE (maker.usdcAmount * taker.outcomeAmount) \div maker.outcomeAmount >= taker.usdcAmount

ValidateOrder(order, timestamp) == timestamp <= order.expiration
ValidateMatch(taker, maker) ==
  /\ taker.book = maker.book
  /\ taker.side # maker.side
  /\ ContractCrosses(taker, maker)

(* _consumeOrder: no order is filled beyond what its maker signed. *)
ConsumeUnbounded(filled, h, amount) == amount > 0      \* slip
CanConsume(filled, h, amount) ==
  amount > 0 /\ filled[h] + amount <= Signed[h].outcomeAmount

CumulativeUsdcFill(order, previous, new) ==
  BuyReservation(order, new) - BuyReservation(order, previous)

Transfer(balances, from, to, asset, amount) ==
  [[balances EXCEPT ![<<from, asset>>] = @ - amount] EXCEPT ![<<to, asset>>] = @ + amount]

(* One maker of the batch, after `x', the outcome of those before. *)
MatchMakerOrder(x, takerHash, fill, timestamp, tx) ==
  LET taker == Signed[takerHash]
      maker == Signed[fill.maker]
      buyer == IF taker.side = "BUY" THEN taker.maker ELSE maker.maker
      seller == IF taker.side = "BUY" THEN maker.maker ELSE taker.maker
      previous == x.filled[fill.maker]
      filled == [[x.filled EXCEPT ![takerHash] = @ + fill.amount] EXCEPT ![fill.maker] = @ + fill.amount]
      usdc == CumulativeUsdcFill(maker, previous, previous + fill.amount)
      delivered == Transfer(x.wallet, seller, buyer, maker.book, fill.amount)
  IN [ok |-> /\ x.ok
             /\ ValidateOrder(maker, timestamp)
             /\ ValidateMatch(taker, maker)
             /\ CanConsume(x.filled, takerHash, fill.amount)
             /\ CanConsume(x.filled, fill.maker, fill.amount)
             /\ usdc > 0
             /\ x.wallet[<<seller, maker.book>>] >= fill.amount
             /\ x.wallet[<<buyer, "USDC">>] >= usdc,
      filled |-> filled,
      wallet |-> Transfer(delivered, buyer, seller, "USDC", usdc),
      usdc |-> x.usdc + usdc,
      logs |-> Append(x.logs, [event |-> "OrderFilled", tx |-> tx, order |-> fill.maker,
                               total |-> previous + fill.amount, usdc |-> usdc])]

(* matchOrders: the batch, the taker's event and the event of the batch. *)
MatchBatch(trade, timestamp, tx) ==
  LET x == FoldLeft(LAMBDA y, fill : MatchMakerOrder(y, trade.taker, fill, timestamp, tx),
                    [ok |-> ValidateOrder(Signed[trade.taker], timestamp) /\ trade.fills # <<>>,
                     filled |-> filledAmounts, wallet |-> wallet, usdc |-> 0, logs |-> <<>>],
                    trade.fills)
  IN [x EXCEPT !.logs = @ \o
        <<[event |-> "OrderFilled", tx |-> tx, order |-> trade.taker,
           total |-> x.filled[trade.taker], usdc |-> x.usdc],
          [event |-> "OrdersMatched", tx |-> tx, order |-> trade.taker,
           total |-> trade.amount, usdc |-> x.usdc]>>]

MatchOrdersSucceeds(operator, trade, timestamp) ==
  operator \in operators /\ MatchBatch(trade, timestamp, 0).ok

MatchOrders(operator, trade, timestamp, tx) ==
  /\ operator \in operators
  /\ LET x == MatchBatch(trade, timestamp, tx) IN
       /\ x.ok
       /\ filledAmounts' = x.filled
       /\ wallet' = x.wallet
       /\ logs' = logs \o x.logs
  /\ UNCHANGED operators

-----------------------------------------------------------------------------
(* The holder of an asset moves it away, or withdraws its approval. *)
WalletDrops(key, left) ==
  /\ left < wallet[key]
  /\ wallet' = [wallet EXCEPT ![key] = left]
  /\ UNCHANGED <<filledAmounts, operators, logs>>

=============================================================================
