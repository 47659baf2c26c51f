---------------------------- MODULE MCOrderEntry ----------------------------
(* Instance of OrderEntry for TLC; prices are quarters of a USDC.            *)
EXTENDS OrderTicket

TicketFor(book, maker, side, amount, price, expiration) ==
  [maker |-> maker, side |-> side, book |-> book, outcomeAmount |-> amount,
   usdcAmount |-> (price * amount) \div PriceScale, price |-> price, expiration |-> expiration]
Ticket(maker, side, amount, price, expiration) ==
  TicketFor("book", maker, side, amount, price, expiration)

(* A seller with two orders and a buyer with an order of each side; and orders *)
(* that a tick, the largest size, the switch of a book and the state of a     *)
(* market keep out.                                                           *)
AllSigned == ("ask1" :> Ticket("seller", "SELL", 4, 3, 1)) @@
             ("ask2" :> Ticket("seller", "SELL", 2, 2, 0)) @@
             ("ask3" :> Ticket("buyer", "SELL", 2, 2, 1)) @@
             ("bid" :> Ticket("buyer", "BUY", 4, 3, 1)) @@
             ("odd" :> Ticket("buyer", "BUY", 4, 1, 1)) @@
             ("large" :> Ticket("buyer", "BUY", 6, 2, 1)) @@
             ("closed" :> TicketFor("paused", "buyer", "BUY", 4, 3, 1)) @@
             ("loanless" :> TicketFor("alone", "buyer", "BUY", 4, 2, 1))
MCSigned == [h \in Tickets |-> AllSigned[h]]

(* "book" and "paused" are markets of loans, "alone" is a market without one.  *)
Limits(enabled) ==
  [clobEnabled |-> enabled, minOrder |-> 1, maxOrder |-> 5,
   lowerEdge |-> 0, upperEdge |-> 3, edgeTick |-> 1, defaultTick |-> 2]
AllConfigs == ("book" :> Limits(TRUE)) @@ ("paused" :> Limits(FALSE)) @@ ("alone" :> Limits(TRUE))
MCConfig == [b \in Books |-> AllConfigs[b]]
MCInitMarkets ==
  {("book" :> "Proto") @@ ("paused" :> "Active") @@ ("alone" :> "Proto"),
   ("book" :> "Cancelled") @@ ("paused" :> "Active") @@ ("alone" :> "Active")}
MCMarketChanges == {<<"book", "Active">>, <<"book", "Cancelled">>, <<"alone", "Resolved">>}

MCWallet == [k \in ReservationKeys |->
               IF k = <<"seller", "book">> THEN 6 ELSE IF k = <<"buyer", "USDC">> THEN 3
               ELSE IF k[2] = "book" THEN 2 ELSE 0]
AssetRank == ("book" :> 0) @@ ("USDC" :> 1) @@ ("paused" :> 2) @@ ("alone" :> 3)
MCRank == [k \in ReservationKeys |-> (IF k[1] = "buyer" THEN 0 ELSE 4) + AssetRank[k[2]]]
MCTimeInForce == [h \in Tickets |-> {IF h = "ask3" THEN "FAK" ELSE "GTC"}]
MCScanned == {<<"seller", "book">>}
MCWithdrawals == {<< <<"seller", "book">>, 3>>}
SubmitterSymmetry == Permutations(Submitters)
=============================================================================
