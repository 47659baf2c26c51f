-------------------------- MODULE MCClobSettlement --------------------------
(* Instances of ClobSettlement for TLC: a buyer that two takers met before  *)
(* either trade was settled.  His price makes the fills round; MCSigned so  *)
(* that what the server and the contract make of them agrees, and           *)
(* UnevenSigned so that it does not.                                        *)
EXTENDS ClobSettlement

Ticket(maker, side, amount, usdc) ==
  [maker |-> maker, side |-> side, book |-> "book", outcomeAmount |-> amount,
   usdcAmount |-> usdc, price |-> (usdc * PriceScale) \div amount, expiration |-> 0]

MCTickets == {"maker", "taker1", "taker2"}
Takers == [h \in {"taker1", "taker2"} |-> Ticket("alice", "SELL", 2, 1)]
MCSigned == ("maker" :> Ticket("bob", "BUY", 8, 5)) @@ Takers
UnevenSigned == ("maker" :> Ticket("bob", "BUY", 8, 6)) @@ Takers
MCConfig == "book" :> [clobEnabled |-> TRUE, minOrder |-> 1, maxOrder |-> 8,
                       lowerEdge |-> 0, upperEdge |-> 4, edgeTick |-> 1, defaultTick |-> 1]
MCWallet == [k \in {"alice", "bob"} \X {"USDC", "book"} |->
               IF k = <<"alice", "book">> THEN 6 ELSE IF k = <<"bob", "USDC">> THEN 6 ELSE 0]

(* Each order with what is pending of it, each trade as matching makes it:   *)
(* priced from what was confirmed of the maker when it was made.             *)
Row(h, pending, sequence) ==
  [InsertOrder(NoOrders, h, Signed[h], "GTC", sequence)[h] EXCEPT !.pending = pending]
Matched(taker, amount, usdc) ==
  NewTrade(taker, [fills |-> <<[maker |-> "maker", amount |-> amount, usdc |-> usdc]>>, usdc |-> usdc],
           "book")
TwoTakers(disturbances) ==
  [orders |-> ("maker" :> Row("maker", 4, 1)) @@ ("taker1" :> Row("taker1", 2, 2))
              @@ ("taker2" :> Row("taker2", 2, 3)),
   reservations |-> (<<"alice", "book">> :> 4) @@ (<<"bob", "USDC">> :> Signed["maker"].usdcAmount),
   trades |-> <<Matched("taker1", 2, 1), Matched("taker2", 2, 1)>>,
   disturbances |-> disturbances]
OneDisturbance == {{"lost"}, {"crash"}, {"slow"}, {"wallet", "cancel"}, {"unanswered"},
                   {"write"}, {"operator"}, {"clock", "cancel"}}
MCScenarios == {TwoTakers(d) : d \in OneDisturbance}
QuietScenarios == {TwoTakers({})}
MCWithdrawals == {<< <<"alice", "book">>, 1>>}
=============================================================================
