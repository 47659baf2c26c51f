---------------------------- MODULE OrderLedger ----------------------------
(***************************************************************************)
(* The order tables of the exchange's server and the transactions on them  *)
(* that order entry and settlement share: what a match adds, what the      *)
(* confirmation of a fill and the cleanup of a failed trade take away.     *)
(*                                                                         *)
(* A transaction is one step: PostgreSQL commits it whole, and its row     *)
(* locks let no other transaction change the rows between its statements.  *)
(* What a transaction read BEFORE it locked is part of the state of the    *)
(* modules that extend this one.  A statement that throws rolls the        *)
(* transaction back: the step is then not enabled.                         *)
(***************************************************************************)
EXTENDS OrderTables, Totals

CONSTANTS
  Tickets,        \* orders makers have signed, by order hash
  Signed,         \* Signed[h]: the content of ticket h
  Makers,         \* accounts that sign orders
  Books,          \* (outcome token, market, outcome) triples
  Config          \* Config[b]: the market configuration of a book

VARIABLES
  orders,         \* orders[hash]: rows of the orders table
  reservations,   \* reservations[<<maker, asset>>]: reserved_amount
  trades          \* trades[i]: the row of trade_id i with its fills

ledgerVars == <<orders, reservations, trades>>

Assets == {"USDC"} \cup Books
ReservationKeys == Makers \X Assets

ASSUME TicketsAssumption ==
  /\ IsFiniteSet(Tickets) /\ "USDC" \notin Books
  /\ Signed \in [Tickets -> [maker : Makers, side : OrderSide, book : Books,
                             outcomeAmount : Nat \ {0}, usdcAmount : Nat \ {0},
                             price : Nat, expiration : Nat]]

(* A row of the orders table: what was signed, and what the server keeps. *)
OrderRow == [maker : Makers, side : OrderSide, book : Books, outcomeAmount : Nat \ {0},
             usdcAmount : Nat \ {0}, expiration : Nat, timeInForce : {"GTC", "FAK"},
             remaining : Nat, pending : Nat, status : OrderStatus, acceptedSequence : Nat]

TradeStatus == {"MATCHED", "EXECUTING", "SUBMITTED", "CONFIRMED", "RETRYING", "FAILED"}
NoTx == 0       \* tx_hash IS NULL; transactions are numbered from 1

(* createTradeWithFills: one trade of a taker with all the makers it met. *)
NewTrade(taker, match, book) ==
  [taker |-> taker, fills |-> match.fills, book |-> book,
   amount |-> FoldLeft(LAMBDA sum, f : sum + f.amount, 0, match.fills),
   usdc |-> match.usdc, status |-> "MATCHED", tx |-> NoTx]

-----------------------------------------------------------------------------
(* Parts of a trade, and sums over trades and orders. *)

TradeIds == DOMAIN trades
OrdersOf(t) == {trades[t].taker} \cup {trades[t].fills[i].maker : i \in DOMAIN trades[t].fills}

SumOver(S, f(_)) == Total([x \in S |-> f(x)], S)

(* How much of order h a trade fills: a fill is its maker's and its taker's. *)
FillsOfOrder(trade, h) == {i \in DOMAIN trade.fills : h \in {trade.taker, trade.fills[i].maker}}
AmountIn(trade, h) == SumOver(FillsOfOrder(trade, h), LAMBDA i : trade.fills[i].amount)

(* A trade is for the sum of its fills, and no order is on both sides of it. *)
MadeByMatch(trade) ==
  /\ \A i \in DOMAIN trade.fills : trade.fills[i].maker # trade.taker
  /\ trade.amount = SumOver(DOMAIN trade.fills, LAMBDA i : trade.fills[i].amount)

(* And it fills each maker once. *)
EachMakerOnce(trade) ==
  \A i, j \in DOMAIN trade.fills : trade.fills[i].maker = trade.fills[j].maker => i = j

-----------------------------------------------------------------------------
(* The pending amounts a match adds: the taker's, then each maker's.  Every *)
(* update tests again that its order is live and has as much available.     *)

CanIncreaseAll(table, taker, match) ==
  /\ CanIncreasePending(table, taker, Available(table[taker]) - match.left)
  /\ \A i \in DOMAIN match.fills :
        CanIncreasePending(table, match.fills[i].maker, match.fills[i].amount)
IncreaseAll(table, taker, match) ==
  FoldLeft(LAMBDA o, f : IncreaseOrderPending(o, f.maker, f.amount),
           IncreaseOrderPending(table, taker, Available(table[taker]) - match.left),
           match.fills)

-----------------------------------------------------------------------------
(* A transaction under way is a table: the rows it has written so far, and *)
(* whether every statement found its row.                                 *)

Tables == [ok |-> TRUE, orders |-> orders, reservations |-> reservations]

CommitTables(table) ==
  /\ table.ok
  /\ orders' = table.orders
  /\ reservations' = table.reservations

(* The confirmation of `amount' more of order h (applyOrderFilledEvent). *)
ConfirmFill(table, h, amount) ==
  LET key == BuildOrderReservationKey(table.orders[h])
      release == ConfirmedFillRelease(table.orders[h], amount)
      ok == /\ table.ok
            /\ CanDecreaseReservation(table.reservations, key, release)
            /\ CanConfirmFill(table.orders, h, amount)
  IN IF ~ok THEN [table EXCEPT !.ok = FALSE]
     ELSE [ok |-> TRUE,
           orders |-> ConfirmOrderFill(table.orders, h, amount),
           reservations |-> DecreaseReservation(table.reservations, key, release)]

-----------------------------------------------------------------------------
(* finalizeFailedTradeTx.  `seen' is the copy of the orders the transaction *)
(* read, without locks, before its first update.  The reservation of an     *)
(* order it saw live stays with the order.                                  *)

ReleasePending(table, seen, h, amount) ==
  LET key == BuildOrderReservationKey(seen[h])
      release == FailedPendingRelease(seen[h], amount)
      live == seen[h].status = "LIVE"
      ok == /\ table.ok
            /\ live \/ CanDecreaseReservation(table.reservations, key, release)
            /\ CanReleasePending(table.orders, h, amount)
  IN IF ~ok THEN [table EXCEPT !.ok = FALSE]
     ELSE [ok |-> TRUE,
           orders |-> ReleaseOrderPending(table.orders, h, amount),
           reservations |-> IF live THEN table.reservations
                            ELSE DecreaseReservation(table.reservations, key, release)]

(* Gives back the makers' part and forgets the taker's. *)
CleanupMakersOnly(t, seen) ==      \* slip
  FoldLeft(LAMBDA table, f : ReleasePending(table, seen, f.maker, f.amount),
           Tables, trades[t].fills)
Cleanup(t, seen) ==
  FoldLeft(LAMBDA table, f : ReleasePending(table, seen, f.maker, f.amount),
           ReleasePending(Tables, seen, trades[t].taker, trades[t].amount),
           trades[t].fills)

EligibleForCleanup(trade) == trade.status \in {"MATCHED", "EXECUTING", "RETRYING"}

FinalizeFailedTrade(t, seen) ==
  /\ CommitTables(Cleanup(t, seen))
  /\ trades' = [trades EXCEPT ![t].status = "FAILED"]

-----------------------------------------------------------------------------
(* cancelOrderTx: what is available of a live order goes, with what it had *)
(* reserved; what is pending stays until its trades end.                   *)

CancelOrderTx(h) ==
  LET key == BuildOrderReservationKey(orders[h])
      release == AvailableRemainderRelease(orders[h])
  IN /\ h \in DOMAIN orders
     /\ CanCancelRemainder(orders, h)
     /\ CanReleaseRemainder(reservations, key, release)
     /\ reservations' = ReleaseRemainder(reservations, key, release)
     /\ orders' = CancelOrderAvailableRemainder(orders, h)

-----------------------------------------------------------------------------
(* What an order still needs reserved: a live one its whole remainder at   *)
(* its limit price, any other one the part that open trades may still fill. *)

Needed(order) ==
  IF order.side = "SELL"
  THEN IF order.status = "LIVE" THEN order.remaining ELSE order.pending
  ELSE (IF order.status = "LIVE" THEN order.usdcAmount
        ELSE BuyReservation(order, Confirmed(order) + order.pending))
       - BuyReservation(order, Confirmed(order))

OrdersWithKey(key) == {h \in DOMAIN orders : BuildOrderReservationKey(orders[h]) = key}
NeededFor(key) == SumOver(OrdersWithKey(key), LAMBDA h : Needed(orders[h]))

(* The fills of failed trades, each of which may be rounded the other way. *)
FailedFills(key) ==
  SumOver(OrdersWithKey(key),
          LAMBDA h : Cardinality({t \in TradeIds : trades[t].status = "FAILED" /\ h \in OrdersOf(t)}))
=============================================================================
