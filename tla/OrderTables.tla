---------------------------- MODULE OrderTables ----------------------------
(***************************************************************************)
(* The SQL statements on the tables orders (clob/db/orders.ts) and         *)
(* reservations (clob/db/reservations.ts), one operator each.              *)
(*                                                                         *)
(* A table is a function from the primary keys of its rows.  A statement   *)
(* that finds no row throws, so an update comes as a pair: the condition   *)
(* under which it finds its row, and the table it leaves.                  *)
(***************************************************************************)
EXTENDS Matching

NoOrders == <<>>
OrderByHash(orders, h) == IF h \in DOMAIN orders THEN {orders[h]} ELSE {}

(* insertOrder: what the maker signed, as a live row nothing was matched of. *)
InsertOrder(orders, h, signed, timeInForce, sequence) ==
  [g \in DOMAIN orders \cup {h} |->
     IF g \in DOMAIN orders THEN orders[g]
     ELSE [maker |-> signed.maker, side |-> signed.side, book |-> signed.book,
           outcomeAmount |-> signed.outcomeAmount, usdcAmount |-> signed.usdcAmount,
           expiration |-> signed.expiration, timeInForce |-> timeInForce,
           remaining |-> signed.outcomeAmount, pending |-> 0,
           status |-> "LIVE", acceptedSequence |-> sequence]]

LiveAvailable(order) == order.status = "LIVE" /\ order.remaining > order.pending

GetMakerCandidatesForTaker(orders, h, taker) ==
  {g \in DOMAIN orders : /\ orders[g].book = taker.book
                         /\ orders[g].side = Opposite(taker.side)
                         /\ g # h
                         /\ LiveAvailable(orders[g])}

GetExpiredAvailableOrders(orders, now) ==
  {h \in DOMAIN orders : LiveAvailable(orders[h]) /\ orders[h].expiration < now}

IncreasePendingAnyway(orders, h, amount) == orders[h].status = "LIVE"      \* slip
CanIncreasePending(orders, h, amount) ==
  /\ amount > 0
  /\ orders[h].status = "LIVE"
  /\ orders[h].pending + amount <= orders[h].remaining
IncreaseOrderPending(orders, h, amount) == [orders EXCEPT ![h].pending = @ + amount]

CanReleasePending(orders, h, amount) ==
  /\ amount > 0
  /\ orders[h].status # "FILLED"
  /\ orders[h].pending >= amount
ReleaseOrderPending(orders, h, amount) == [orders EXCEPT ![h].pending = @ - amount]

CanConfirmFill(orders, h, amount) ==
  /\ amount > 0
  /\ orders[h].status # "FILLED"
  /\ orders[h].remaining >= amount
ConfirmKeepsPending(orders, h, amount) ==      \* slip
  [orders EXCEPT ![h].remaining = @ - amount,
                 ![h].status = IF orders[h].remaining = amount THEN "FILLED" ELSE @]
ConfirmOrderFill(orders, h, amount) ==
  [orders EXCEPT ![h].remaining = @ - amount,
                 ![h].pending = Larger(@ - amount, 0),
                 ![h].status = IF orders[h].remaining = amount THEN "FILLED" ELSE @]

CanCancelRemainder(orders, h) == orders[h].status = "LIVE" /\ orders[h].remaining > 0
CancelOrderAvailableRemainder(orders, h) == [orders EXCEPT ![h].status = "CANCELLED"]

CanExpireRemainder(orders, h, now) ==
  CanCancelRemainder(orders, h) /\ orders[h].expiration < now
ExpireOrderAvailableRemainder(orders, h) == [orders EXCEPT ![h].status = "EXPIRED"]

-----------------------------------------------------------------------------
(* reservations: the amount of an asset a maker's orders hold back.  A key   *)
(* without a row reserves nothing; a row emptied is deleted.                 *)

(* USDC backs a buyer's orders in every book, the book's token a seller's. *)
AssetOf(order) == IF order.side = "BUY" THEN "USDC" ELSE order.book
BuildOrderReservationKey(order) == <<order.maker, AssetOf(order)>>

GetReservation(reservations, key) ==
  IF key \in DOMAIN reservations THEN reservations[key] ELSE 0

(* INSERT ... ON CONFLICT DO UPDATE of an amount that must be positive. *)
IncreaseReservation(reservations, key, amount) ==
  [k \in DOMAIN reservations \cup {key} |->
     GetReservation(reservations, k) + IF k = key THEN amount ELSE 0]

CanDecreaseReservation(reservations, key, amount) ==
  /\ amount > 0
  /\ key \in DOMAIN reservations
  /\ reservations[key] >= amount
DecreaseReservation(reservations, key, amount) ==
  IF reservations[key] = amount
  THEN [k \in DOMAIN reservations \ {key} |-> reservations[k]]
  ELSE [reservations EXCEPT ![key] = @ - amount]

(* The transactions that release something only if there is something. *)
CanReleaseRemainder(reservations, key, amount) ==
  amount > 0 => CanDecreaseReservation(reservations, key, amount)
ReleaseRemainder(reservations, key, amount) ==
  IF amount > 0 THEN DecreaseReservation(reservations, key, amount) ELSE reservations

(* getLiveOrdersForReservationForUpdate, narrowed by belongsToReservation. *)
GetLiveOrdersForReservation(orders, key) ==
  {h \in DOMAIN orders : BuildOrderReservationKey(orders[h]) = key /\ LiveAvailable(orders[h])}

(* getReservationsPage: the scanned rows, by key, after a cursor. *)
GetReservationsPage(reservations, scanned, rank, after, limit) ==
  LET later == {k \in DOMAIN reservations \cap scanned : after = {} \/ \A a \in after : rank[k] > rank[a]}
      sorted == SortedBy(later, LAMBDA j, k : rank[j] < rank[k])
  IN SubSeq(sorted, 1, Smaller(limit, Len(sorted)))
=============================================================================
