----------------------------- MODULE OrderEntry -----------------------------
(***************************************************************************)
(* Orders of one exchange from their submission to the end of their        *)
(* reservation: clob/admission.ts, orderSubmission.ts, orderCancellation.ts,*)
(* expiredOrders.ts and the reconciliation of reservations with the chain. *)
(*                                                                         *)
(* Submissions are handled concurrently, each in a transaction of several  *)
(* steps: the maker's balance is read from the chain, the reservation is   *)
(* read under an advisory lock, the resting orders are read and matched    *)
(* without locks, and all writes are committed at once.  Cancellations,    *)
(* expiry, reconciliation and settlement run between any two of them.      *)
(*                                                                         *)
(* Trades end here in one step, all their fills confirmed or given back;   *)
(* ClobSettlement has the executor, the chain and the indexer.             *)
(***************************************************************************)
EXTENDS OrderLedger

CONSTANTS
  InitWallet,     \* InitWallet[<<maker, asset>>]: what the exchange may move
  Submitters,     \* requests handled at once
  SweepLimit,     \* orders one expiry sweep takes
  PageLimit,      \* reservations one reconciliation batch takes
  Scanned,        \* reservations of the USDC and the outcome token configured
  KeyRank,        \* KeyRank[key]: the order of the reservations table
  TimeInForce,    \* TimeInForce[h]: how ticket h may be submitted
  Cancellable,    \* bound: tickets their makers may cancel
  InitMarkets,    \* states of the markets at the start, m[b] of the market of b
  MarketChanges,  \* bound: <<book, state>>, what the market of a book may become
  Withdrawals,    \* bound: <<key, left>>, what a wallet may be drawn down to
  MaxNow,         \* bound: the clock
  MaxSequence     \* bound: orders accepted or tried

VARIABLES
  submission,     \* submission[p]: the request p works on
  nextSequence,   \* the accepted_sequence the next insert gets
  now,            \* the server's clock
  wallet,         \* balances on the chain, within approvals
  marketState,    \* marketState[b]: the state on the chain of the market of a book
  reconciler      \* the reconciliation worker: cursor, page and balance read

entryVars == <<submission, nextSequence, now, wallet, marketState, reconciler>>
vars == <<ledgerVars, entryVars>>

(* OutcomeToken.MarketState. *)
MarketStates == {"Proto", "Active", "Cancelled", "Resolved"}

ASSUME OrderEntryAssumption ==
  /\ SweepLimit \in Nat \ {0} /\ PageLimit \in Nat \ {0}
  /\ Scanned \subseteq ReservationKeys
  /\ KeyRank \in [ReservationKeys -> Nat]
  /\ \A j, k \in ReservationKeys : KeyRank[j] = KeyRank[k] => j = k
  /\ InitWallet \in [ReservationKeys -> Nat]
  /\ TimeInForce \in [Tickets -> SUBSET {"GTC", "FAK"}]
  /\ Cancellable \subseteq Tickets
  /\ InitMarkets \subseteq [Books -> MarketStates] /\ MarketChanges \subseteq Books \X MarketStates
  /\ Withdrawals \subseteq ReservationKeys \X Nat
  /\ MaxNow \in Nat /\ MaxSequence \in Nat

Idle == [pc |-> "idle"]
IdleReconciler == [cursor |-> {}, page |-> <<>>, full |-> FALSE, available |-> {}]

Init ==
  /\ orders = NoOrders
  /\ reservations = <<>>
  /\ trades = <<>>
  /\ submission = [p \in Submitters |-> Idle]
  /\ nextSequence = 1
  /\ now = 0
  /\ wallet = InitWallet /\ marketState \in InitMarkets
  /\ reconciler = IdleReconciler

-----------------------------------------------------------------------------
(* Submission of an order. *)

OrderSizeWithinConfig(amount, config) == amount \in config.minOrder .. config.maxOrder

(* The checks before balances.  Those of the order against the configuration, *)
(* and those that change: the row, the clock and the market on the chain.     *)
ValidTickets ==
  {h \in Tickets :
     LET order == Signed[h]
         config == Config[order.book]
     IN /\ UsdcAmountExact(order.price, order.outcomeAmount)
        /\ DeriveUsdcAmount(order.price, order.outcomeAmount) = order.usdcAmount
        /\ config.clobEnabled
        /\ ValidTick(order.price, config)
        /\ OrderSizeWithinConfig(order.outcomeAmount, config)}

\* getFilledAmount(orderHash) is 0: no order is filled before it is stored
IsOutcomeMarketActive(book) == marketState[book] = "Active"
PassesChecks(h) ==
  /\ h \in ValidTickets /\ IsOutcomeMarketActive(Signed[h].book)
  /\ OrderByHash(orders, h) = {} /\ now <= Signed[h].expiration

ReservationKeyOf(h) == BuildOrderReservationKey(Signed[h])
ReservationAmount(h) ==
  IF Signed[h].side = "BUY" THEN BuyReservation(Signed[h], Signed[h].outcomeAmount)
  ELSE Signed[h].outcomeAmount

StartSubmit(p, h, timeInForce) ==
  /\ submission[p].pc = "idle"
  /\ nextSequence <= MaxSequence
  /\ PassesChecks(h)
  /\ submission' = [submission EXCEPT ![p] =
       [pc |-> "checking", order |-> h, timeInForce |-> timeInForce,
        balance |-> {}, reserved |-> {}]]
  /\ UNCHANGED <<ledgerVars, nextSequence, now, wallet, marketState, reconciler>>

(* The balance and the reservation are read side by side; the balance read *)
(* does not wait for the lock.                                             *)
ReadBalance(p) ==
  /\ submission[p].pc = "checking"
  /\ submission[p].balance = {}
  /\ submission' = [submission EXCEPT ![p].balance = {wallet[ReservationKeyOf(submission[p].order)]}]
  /\ UNCHANGED <<ledgerVars, nextSequence, now, wallet, marketState, reconciler>>

HoldsLock(p, key) ==
  /\ submission[p].pc # "idle"
  /\ submission[p].pc = "accepted" \/ submission[p].reserved # {}
  /\ ReservationKeyOf(submission[p].order) = key

(* The advisory lock of a key is held to the end of the transaction. *)
NobodyWaits(key) == TRUE      \* slip
LockFree(key) == \A p \in Submitters : ~HoldsLock(p, key)

LockAndReadReservation(p) ==
  /\ submission[p].pc = "checking"
  /\ submission[p].reserved = {}
  /\ LET key == ReservationKeyOf(submission[p].order) IN
       /\ LockFree(key)
       /\ submission' = [submission EXCEPT ![p].reserved = {GetReservation(reservations, key)}]
  /\ UNCHANGED <<ledgerVars, nextSequence, now, wallet, marketState, reconciler>>

Enough(s) == \A b \in s.balance, r \in s.reserved : b - r >= ReservationAmount(s.order)

(* The order is inserted, which only its own transaction sees, and matched *)
(* with the resting orders committed by now.                               *)
Accept(p) ==
  LET s == submission[p]
      own == InsertOrder(NoOrders, s.order, Signed[s.order], s.timeInForce, nextSequence)[s.order]
      candidates == GetMakerCandidatesForTaker(orders, s.order, own)
  IN /\ s.pc = "checking" /\ s.balance # {} /\ s.reserved # {}
     /\ Enough(s)
     /\ nextSequence <= MaxSequence
     /\ nextSequence' = nextSequence + 1
     /\ submission' = [submission EXCEPT ![p] =
          [pc |-> "accepted", order |-> s.order, timeInForce |-> s.timeInForce,
           balance |-> s.balance, sequence |-> nextSequence,
           match |-> MatchTakerOrder(own, [g \in candidates |-> orders[g]])]]
     /\ UNCHANGED <<ledgerVars, now, wallet, marketState, reconciler>>

Commit(p) ==
  LET s == submission[p]
      h == s.order
      key == ReservationKeyOf(h)
      inserted == InsertOrder(orders, h, Signed[h], s.timeInForce, s.sequence)
      matched == s.match.fills # <<>>
      table == IF matched THEN IncreaseAll(inserted, h, s.match) ELSE inserted
      reserved == IncreaseReservation(reservations, key, ReservationAmount(h))
      fak == s.timeInForce = "FAK"
  IN /\ s.pc = "accepted"
     /\ h \notin DOMAIN orders
     /\ matched => CanIncreaseAll(inserted, h, s.match)
     /\ orders' = IF fak THEN CancelOrderAvailableRemainder(table, h) ELSE table
     /\ reservations' = IF fak THEN ReleaseRemainder(reserved, key, AvailableRemainderRelease(table[h]))
                        ELSE reserved
     /\ trades' = IF matched THEN Append(trades, NewTrade(h, s.match, Signed[h].book)) ELSE trades
     /\ submission' = [submission EXCEPT ![p] = Idle]
     /\ UNCHANGED <<nextSequence, now, wallet, marketState, reconciler>>

(* Too little balance, a failed read, an order or maker that changed, a    *)
(* deadlock or a crash: the transaction leaves nothing but its sequence.   *)
RollBack(p) ==
  /\ submission[p].pc # "idle"
  /\ submission' = [submission EXCEPT ![p] = Idle]
  /\ UNCHANGED <<ledgerVars, nextSequence, now, wallet, marketState, reconciler>>

-----------------------------------------------------------------------------
(* Cancellation and expiry, each one transaction. *)

CancelOrder(h) == CancelOrderTx(h) /\ UNCHANGED <<trades, entryVars>>

(* The sweep is one transaction over the orders it could lock. *)
ExpireOne(table, h) ==
  LET key == BuildOrderReservationKey(orders[h])
      release == AvailableRemainderRelease(orders[h])
  IN IF ~table.ok \/ ~CanReleaseRemainder(table.reservations, key, release)
     THEN [table EXCEPT !.ok = FALSE]
     ELSE [ok |-> TRUE,
           orders |-> ExpireOrderAvailableRemainder(table.orders, h),
           reservations |-> ReleaseRemainder(table.reservations, key, release)]

Expired(swept) == FoldSet(LAMBDA h, table : ExpireOne(table, h), Tables, swept)

SweepExpiredOrders ==
  \E swept \in SUBSET GetExpiredAvailableOrders(orders, now) :
    /\ swept # {} /\ Cardinality(swept) <= SweepLimit
    /\ CommitTables(Expired(swept))
    /\ UNCHANGED <<trades, entryVars>>

Tick ==
  /\ now < MaxNow
  /\ now' = now + 1
  /\ UNCHANGED <<ledgerVars, submission, nextSequence, wallet, marketState, reconciler>>

-----------------------------------------------------------------------------
(* Reconciliation of reservations with the chain, a page of them at a time. *)

OldestGoFirst(hashes) ==      \* slip
  SortedBy(hashes, LAMBDA g, h : orders[g].acceptedSequence < orders[h].acceptedSequence)
NewestFirst(hashes) ==
  SortedBy(hashes, LAMBDA g, h : orders[g].acceptedSequence > orders[h].acceptedSequence)

(* The newest orders whose available remainder brings the reservation down *)
(* to what there is; a release beyond the reservation is an error.         *)
PlanReconciliation(key, available) ==
  LET candidates == {h \in GetLiveOrdersForReservation(orders, key) :
                       AvailableRemainderRelease(orders[h]) > 0}
      Step(plan, h) ==
        LET release == AvailableRemainderRelease(orders[h]) IN
        IF plan.reserved <= available THEN plan
        ELSE [ok |-> plan.ok /\ release <= plan.reserved,
              reserved |-> plan.reserved - release,
              cancelled |-> plan.cancelled \cup {h}]
  IN FoldLeft(Step, [ok |-> TRUE, reserved |-> GetReservation(reservations, key), cancelled |-> {}],
              NewestFirst(candidates))

StartReconciliation ==
  /\ reconciler.page = <<>>
  /\ LET page == GetReservationsPage(reservations, Scanned, KeyRank, reconciler.cursor, PageLimit) IN
       /\ page # <<>> \/ reconciler.cursor # {}
       /\ reconciler' = [cursor |-> IF page = <<>> THEN {} ELSE reconciler.cursor,
                         page |-> page, full |-> Len(page) = PageLimit, available |-> {}]
  /\ UNCHANGED <<ledgerVars, submission, nextSequence, now, wallet, marketState>>

ReadAvailableAmount ==
  /\ reconciler.page # <<>>
  /\ reconciler.available = {}
  /\ reconciler' = [reconciler EXCEPT !.available = {wallet[Head(reconciler.page)]}]
  /\ UNCHANGED <<ledgerVars, submission, nextSequence, now, wallet, marketState>>

ReconcileReservation ==
  LET key == Head(reconciler.page)
      last == Len(reconciler.page) = 1
  IN /\ reconciler.page # <<>>
     /\ LockFree(key)
     /\ \E available \in reconciler.available :
          LET plan == PlanReconciliation(key, available) IN
          /\ plan.ok
          /\ orders' = [h \in DOMAIN orders |-> IF h \in plan.cancelled
                          THEN [orders[h] EXCEPT !.status = "CANCELLED"] ELSE orders[h]]
          /\ reservations' = ReleaseRemainder(reservations, key,
                               GetReservation(reservations, key) - plan.reserved)
     /\ reconciler' = [cursor |-> IF last /\ reconciler.full THEN {key}
                                  ELSE IF last THEN {} ELSE reconciler.cursor,
                       page |-> Tail(reconciler.page),
                       full |-> reconciler.full /\ ~last, available |-> {}]
     /\ UNCHANGED <<trades, submission, nextSequence, now, wallet, marketState>>

(* A read that fails ends the batch where it is; the next starts it over. *)
ReconciliationFails ==
  /\ reconciler.page # <<>>
  /\ reconciler' = [IdleReconciler EXCEPT !.cursor = reconciler.cursor]
  /\ UNCHANGED <<ledgerVars, submission, nextSequence, now, wallet, marketState>>

-----------------------------------------------------------------------------
(* The end of a trade, and what the chain does to the makers' balances. *)

Confirmations(t) ==
  FoldLeft(LAMBDA table, f : ConfirmFill(table, f.maker, f.amount),
           ConfirmFill(Tables, trades[t].taker, trades[t].amount),
           trades[t].fills)

ConfirmTrade(t) ==
  /\ trades[t].status = "MATCHED"
  /\ CommitTables(Confirmations(t))
  /\ trades' = [trades EXCEPT ![t].status = "CONFIRMED"]
  /\ UNCHANGED entryVars

FailTrade(t) ==
  /\ EligibleForCleanup(trades[t])
  /\ FinalizeFailedTrade(t, orders)
  /\ UNCHANGED entryVars

(* A transfer, a settlement or a withdrawn approval. *)
MoveAssets ==
  /\ \E w \in Withdrawals : wallet[w[1]] > w[2] /\ wallet' = [wallet EXCEPT ![w[1]] = w[2]]
  /\ UNCHANGED <<ledgerVars, submission, nextSequence, now, marketState, reconciler>>

(* The market is activated or cancelled, and one that is active is resolved;   *)
(* nothing tells the requests that were admitted before.                       *)
MarketMoves ==
  /\ \E c \in MarketChanges :
       /\ \/ marketState[c[1]] = "Proto" /\ c[2] \in {"Active", "Cancelled"}
          \/ marketState[c[1]] = "Active" /\ c[2] = "Resolved"
       /\ marketState' = [marketState EXCEPT ![c[1]] = c[2]]
  /\ UNCHANGED <<ledgerVars, submission, nextSequence, now, wallet, reconciler>>

Next ==
  \/ \E p \in Submitters, h \in Tickets : \E tif \in TimeInForce[h] : StartSubmit(p, h, tif)
  \/ \E p \in Submitters :
        \/ ReadBalance(p) \/ LockAndReadReservation(p)
        \/ Accept(p) \/ Commit(p) \/ RollBack(p)
  \/ \E h \in Cancellable : CancelOrder(h)
  \/ SweepExpiredOrders
  \/ StartReconciliation \/ ReadAvailableAmount \/ ReconcileReservation \/ ReconciliationFails
  \/ \E t \in TradeIds : ConfirmTrade(t) \/ FailTrade(t)
  \/ MoveAssets \/ MarketMoves \/ Tick

Spec == Init /\ [][Next]_vars

-----------------------------------------------------------------------------
(* Properties. *)

(* The tables keep their types and the constraints of the schema: no amount *)
(* is negative and no more is pending than remains (migrations/001).        *)
TypeOK ==
  /\ DOMAIN orders \subseteq Tickets
  /\ \A h \in DOMAIN orders :
       /\ orders[h].status \in OrderStatus
       /\ orders[h].remaining \in 0 .. orders[h].outcomeAmount
       /\ orders[h].pending \in 0 .. orders[h].remaining
       /\ orders[h].status = "FILLED" <=> orders[h].remaining = 0
  /\ DOMAIN reservations \subseteq ReservationKeys
  /\ \A k \in DOMAIN reservations : reservations[k] \in Nat \ {0}
  /\ \A t \in TradeIds : trades[t].status \in TradeStatus
  /\ wallet \in [ReservationKeys -> Nat]

(* Whatever order matching, cancellation, expiry, confirmation and cleanup   *)
(* come in, a reservation covers what the maker's live orders and the open   *)
(* trades of his other orders may still take: exactly for tokens, and for    *)
(* USDC but for one unit for each fill of a failed trade, whose release is   *)
(* rounded apart from the others (reservationAccounting.ts).  And what is    *)
(* pending of an order is what the open trades will fill, whoever matched it *)
(* in which order: no match is counted twice and none is lost.               *)
ReservationsCoverOrders ==
  \A key \in ReservationKeys :
    GetReservation(reservations, key) + (IF key[2] = "USDC" THEN FailedFills(key) ELSE 0)
      >= NeededFor(key)
PendingInOpenTrades ==
  \A h \in DOMAIN orders :
    orders[h].pending =
      SumOver({t \in TradeIds : trades[t].status = "MATCHED"}, LAMBDA t : AmountIn(trades[t], h))
LedgerBalances == ReservationsCoverOrders /\ PendingInOpenTrades

(* An order is stored only if the maker's reservation, with it and with all *)
(* that was committed meanwhile, is within the balance its admission read   *)
(* (the advisory lock of docs/clob-matching-spec.md, Reservations).         *)
AdmittedWithinBalance ==
  \A p \in Submitters :
    LET s == submission[p] IN
    (/\ s.pc = "accepted" /\ submission'[p].pc = "idle"
     /\ s.order \in DOMAIN orders' \ DOMAIN orders)
      => \A b \in s.balance : GetReservation(reservations', ReservationKeyOf(s.order)) <= b
AdmissionSerialized == [][AdmittedWithinBalance]_vars

(* A taker is filled from the best prices and the oldest orders of a price: *)
(* each crossing order gives all it has of what those ahead of it left, but *)
(* for a fill worth less than a unit of USDC, which is passed over; and the *)
(* taker pays or gets his limit but for a unit a fill, however fills round. *)
FilledOf(match, g) ==
  SumOver({i \in DOMAIN match.fills : match.fills[i].maker = g}, LAMBDA i : match.fills[i].amount)
TakerWithinLimit(taker, match) ==
  LET amount == Available(taker) - match.left
      limit == taker.usdcAmount * amount
  IN IF taker.side = "BUY"
     THEN match.usdc * taker.outcomeAmount <= limit + Len(match.fills) * taker.outcomeAmount
     ELSE (match.usdc + Len(match.fills)) * taker.outcomeAmount >= limit
BestMatch(taker, rows, match) ==
  LET crossing == {g \in DOMAIN rows : CanMatchCandidate(taker, rows[g])}
      Ahead(g) == {h \in crossing :
                     \/ BetterPrice(taker, rows[h], rows[g])
                     \/ /\ ~BetterPrice(taker, rows[g], rows[h])
                        /\ rows[h].acceptedSequence < rows[g].acceptedSequence}
      Due(g) == Smaller(Available(rows[g]),
                        Available(taker) - SumOver(Ahead(g), LAMBDA h : FilledOf(match, h)))
  IN /\ \A i \in DOMAIN match.fills : match.fills[i].maker \in crossing
     /\ \A g \in crossing :
          FilledOf(match, g) = IF IncrementalUsdcFill(rows[g], Due(g)) = 0 THEN 0 ELSE Due(g)
     /\ match.left = Available(taker) - SumOver(crossing, LAMBDA g : FilledOf(match, g))
     /\ TakerWithinLimit(taker, match)
MatchesHonourBook ==
  [][\A p \in Submitters :
       submission[p].pc = "checking" /\ submission'[p].pc = "accepted" =>
         LET h == submission[p].order
             tif == submission[p].timeInForce
             taker == InsertOrder(NoOrders, h, Signed[h], tif, nextSequence)[h]
         IN BestMatch(taker, orders, submission'[p].match)]_vars

(* Reconciliation cancels no older order before a newer one, none it need   *)
(* not, and nothing that is pending; and whether it cancels or not, it leaves *)
(* the reservation within the balance it read, or without any order to cancel.*)
ReconciledBy(key, available) ==
  LET cancelled == {h \in DOMAIN orders : orders[h].status = "LIVE" /\ orders'[h].status = "CANCELLED"}
      kept == {h \in GetLiveOrdersForReservation(orders', key) : AvailableRemainderRelease(orders'[h]) > 0}
  IN /\ \A h \in cancelled : BuildOrderReservationKey(orders[h]) = key
     /\ \A h \in cancelled, g \in kept : orders[h].acceptedSequence > orders[g].acceptedSequence
     /\ \A h \in cancelled :
          LET asOld == {g \in cancelled : orders[g].acceptedSequence <= orders[h].acceptedSequence}
          IN GetReservation(reservations', key)
               + SumOver(asOld, LAMBDA g : AvailableRemainderRelease(orders[g])) > available
     /\ \A h \in DOMAIN orders : orders'[h].pending = orders[h].pending
     /\ kept = {} \/ GetReservation(reservations', key) <= available
ReconciliationKeepsPriority ==
  [][ReconcileReservation =>
       \A available \in reconciler.available : ReconciledBy(Head(reconciler.page), available)]_vars
=============================================================================
