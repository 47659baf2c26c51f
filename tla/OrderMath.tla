----------------------------- MODULE OrderMath -----------------------------
(***************************************************************************)
(* The arithmetic of limit orders (clob/orderMath.ts) and of what their    *)
(* fills release of a reservation (clob/reservationAccounting.ts).         *)
(*                                                                         *)
(* An order offers usdcAmount for outcomeAmount; its price is the quotient *)
(* and is never computed.  Amounts of USDC are rounded down from the       *)
(* cumulative outcome amount filled, so fills of an order telescope.       *)
(***************************************************************************)
EXTENDS Integers

CONSTANT PriceScale     \* PRICE_SCALE: price units in one USDC per outcome token
ASSUME PriceScaleAssumption == PriceScale \in Nat \ {0}

Smaller(a, b) == IF a < b THEN a ELSE b
Larger(a, b) == IF a > b THEN a ELSE b

(* deriveUsdcAmount throws unless the product divides exactly. *)
UsdcAmountExact(price, outcomeAmount) == price * outcomeAmount % PriceScale = 0
DeriveUsdcAmount(price, outcomeAmount) == (price * outcomeAmount) \div PriceScale

GetTickUnits(price, config) ==
  IF price <= config.lowerEdge \/ price >= config.upperEdge
  THEN config.edgeTick ELSE config.defaultTick
ValidTick(price, config) == price > 0 /\ price % GetTickUnits(price, config) = 0

BuyPriceCrossesSellPrice(buy, sell) ==
  buy.usdcAmount * sell.outcomeAmount >= sell.usdcAmount * buy.outcomeAmount

(* What the first `filled' tokens of an order are worth at its own price. *)
BuyReservation(order, filled) == (order.usdcAmount * filled) \div order.outcomeAmount

-----------------------------------------------------------------------------
(* The reservation an order no longer needs.  `remaining' is what the chain *)
(* has not confirmed, `pending' the part of it in unsettled trades.         *)

Available(order) == order.remaining - order.pending
Confirmed(order) == order.outcomeAmount - order.remaining

ConfirmedFillRelease(order, fill) ==
  IF order.side = "SELL" THEN fill
  ELSE BuyReservation(order, Confirmed(order) + fill) - BuyReservation(order, Confirmed(order))

(* Releases the part that open trades still need. *)
RemainderReleaseWithPending(order) ==      \* slip
  IF order.side = "SELL" THEN order.remaining
  ELSE order.usdcAmount - BuyReservation(order, Confirmed(order))
AvailableRemainderRelease(order) ==
  IF Available(order) <= 0 THEN 0
  ELSE IF order.side = "SELL" THEN Available(order)
  ELSE order.usdcAmount - BuyReservation(order, Confirmed(order) + order.pending)

FailedPendingRelease(order, amount) ==
  IF order.side = "SELL" THEN amount
  ELSE BuyReservation(order, Confirmed(order) + amount) - BuyReservation(order, Confirmed(order))
=============================================================================
