------------------------------ MODULE Matching ------------------------------
(***************************************************************************)
(* The matching of one taker with the resting orders (clob/matching.ts)    *)
(* and the price levels a reader of the book is shown (clob/book.ts).      *)
(*                                                                         *)
(* An order is a row of the orders table: what its maker signed (maker,    *)
(* side, book, outcomeAmount, usdcAmount, expiration, timeInForce) and     *)
(* what the server keeps (remaining, pending, status, acceptedSequence).   *)
(***************************************************************************)
EXTENDS OrderMath, FiniteSets, SequencesExt

OrderSide == {"BUY", "SELL"}
OrderStatus == {"LIVE", "FILLED", "CANCELLED", "EXPIRED", "FAILED"}
Opposite(side) == IF side = "BUY" THEN "SELL" ELSE "BUY"

Crosses(taker, maker) ==
  IF taker.side = "BUY" THEN BuyPriceCrossesSellPrice(taker, maker)
  ELSE BuyPriceCrossesSellPrice(maker, taker)

CanMatchCandidate(taker, maker) ==
  /\ maker.status = "LIVE"
  /\ Available(maker) > 0
  /\ taker.book = maker.book
  /\ taker.side # maker.side
  /\ Crosses(taker, maker)

(* left has a better price for the taker than right. *)
BetterPrice(taker, left, right) ==
  LET leftScaled == left.usdcAmount * right.outcomeAmount
      rightScaled == right.usdcAmount * left.outcomeAmount
  IN IF taker.side = "BUY" THEN leftScaled < rightScaled ELSE leftScaled > rightScaled

OldestFirst(taker, left, right) == left.acceptedSequence < right.acceptedSequence   \* slip
PriceTimePriority(taker, left, right) ==
  \/ BetterPrice(taker, left, right)
  \/ ~BetterPrice(taker, right, left) /\ left.acceptedSequence < right.acceptedSequence

(* The elements of a set in an order that is strict and total on them. *)
SortedBy(S, Before(_, _)) ==
  CHOOSE s \in SetToSeqs(S) : \A i, j \in DOMAIN s : i < j => Before(s[i], s[j])

(* The USDC of one more fill, counted from what the chain confirmed: fills *)
(* that are still pending do not move the base.                            *)
IncrementalUsdcFill(order, fill) ==
  BuyReservation(order, Confirmed(order) + fill) - BuyReservation(order, Confirmed(order))

MakerFillAmount(takerLeft, maker) == Smaller(takerLeft, Available(maker))

(* One round of the loop: a fill that is worth no USDC is skipped, and the *)
(* next maker is tried.                                                    *)
MatchNext(orders, match, hash) ==
  LET maker == orders[hash]
      amount == MakerFillAmount(match.left, maker)
      usdc == IncrementalUsdcFill(maker, amount)
  IN IF match.left = 0 \/ usdc = 0 THEN match
     ELSE [left |-> match.left - amount,
           usdc |-> match.usdc + usdc,
           fills |-> Append(match.fills, [maker |-> hash, amount |-> amount, usdc |-> usdc])]

MatchTakerOrder(taker, orders) ==
  LET candidates == {h \in DOMAIN orders : CanMatchCandidate(taker, orders[h])}
      sorted == SortedBy(candidates,
                  LAMBDA g, h : PriceTimePriority(taker, orders[g], orders[h]))
  IN FoldLeft(LAMBDA match, h : MatchNext(orders, match, h),
              [left |-> Available(taker), usdc |-> 0, fills |-> <<>>], sorted)

-----------------------------------------------------------------------------
(* The book: the available amounts of live orders, by side and price. *)

OrderPriceUnits(order) == (order.usdcAmount * PriceScale) \div order.outcomeAmount

Resting(orders, book, side) ==
  {h \in DOMAIN orders : /\ orders[h].status = "LIVE" /\ Available(orders[h]) > 0
                         /\ orders[h].book = book /\ orders[h].side = side}

LevelAmount(orders, hashes) == FoldSet(LAMBDA h, sum : sum + Available(orders[h]), 0, hashes)

(* Orders of equal price units share a level; bids are shown best first, so *)
(* are asks.                                                                *)
PriceLevels(orders, book, side) ==
  LET hashes == Resting(orders, book, side)
      prices == {OrderPriceUnits(orders[h]) : h \in hashes}
      best == SortedBy(prices, LAMBDA p, q : IF side = "BUY" THEN p > q ELSE p < q)
  IN [i \in DOMAIN best |->
        [price |-> best[i],
         amount |-> LevelAmount(orders, {h \in hashes : OrderPriceUnits(orders[h]) = best[i]})]]

Snapshot(orders, book) == [bids |-> PriceLevels(orders, book, "BUY"),
                           asks |-> PriceLevels(orders, book, "SELL")]
=============================================================================
