--------------------------- MODULE ClobSettlement ---------------------------
(***************************************************************************)
(* From a matched trade to the end of it: the executor that sends trades   *)
(* to the exchange contract, the sweep of the receipts it waits for, and   *)
(* the indexer that applies the contract's events to the tables            *)
(* (clob/executor, receiptSweep.ts, reconciliation*.ts).                   *)
(*                                                                         *)
(* The three loops run in one process, each never twice at once, and share *)
(* the database.  A step is one statement or one transaction; what a loop  *)
(* carries between steps is lost when the process crashes.  Transactions   *)
(* on their way to the chain stay on it, are mined in any order, or lost.  *)
(* Ethereum, its node and the wallet are modelled from their use.          *)
(***************************************************************************)
EXTENDS OutcomeExchange

CONSTANTS
  Scenarios,          \* bound: tables to start from, as matching leaves them, and
                      \* what may disturb their settlement, each kind at most once
  MaxAttempts,        \* defaultSettlementRetryPolicy.maxAttempts
  BatchLimit,         \* trades an executor batch claims
  SweepLimit,         \* attempts a receipt sweep checks
  MaxBlocksPerRun,    \* blocks the indexer takes at once
  ConfirmationDepth,  \* blocks it stays behind the head
  Cancellable,        \* bound: orders their makers may cancel
  Withdrawals         \* bound: <<key, left>>, what a wallet may be drawn down to

VARIABLES
  attempts,     \* settlement_attempts, in order of their ids
  sent,         \* sent[tx]: the trade of each transaction ever broadcast
  mempool,      \* transactions on their way
  receipts,     \* receipts[tx]: whether the mined transaction succeeded
  blocks,       \* blocks[b]: how many logs there are up to block b
  cursor,       \* the backend_cursors row of the indexer, as a set
  processed,    \* processed_chain_events: the numbers of logs applied
  executor,     \* what the executor's batch carries
  sweep,        \* what the receipt sweep carries
  indexer,      \* what the indexer carries
  givenUp,      \* history: the trades cleaned up as failed, in order
  clock,        \* the timestamp of the chain
  upcoming      \* disturbances still to come

chainVars == <<sent, mempool, receipts, blocks, clock>>
indexVars == <<cursor, processed, indexer>>
auxVars == <<givenUp, upcoming>>
vars == <<ledgerVars, exchangeVars, attempts, chainVars, indexVars, executor, sweep, auxVars>>

ASSUME SettlementAssumption ==
  /\ MaxAttempts \in Nat \ {0} /\ BatchLimit \in Nat \ {0} /\ SweepLimit \in Nat \ {0}
  /\ MaxBlocksPerRun \in Nat \ {0} /\ ConfirmationDepth \in Nat
  /\ Cancellable \subseteq Tickets
  /\ Withdrawals \subseteq ReservationKeys \X Nat

(* The tables as matching leaves them: trades of orders that are in the      *)
(* table, none of them sent and nothing of any order confirmed; what is      *)
(* pending of an order is its part of the trades, and a reservation covers   *)
(* what its orders need.                                                     *)
ASSUME ScenariosAssumption ==
  \A s \in Scenarios :
    /\ DOMAIN s.orders \subseteq Tickets
    /\ s.orders \in [DOMAIN s.orders -> OrderRow]
    /\ \A h \in DOMAIN s.orders :
         /\ s.orders[h].status = "LIVE" /\ s.orders[h].remaining = s.orders[h].outcomeAmount
         /\ s.orders[h].pending <= s.orders[h].remaining
    /\ DOMAIN s.reservations \subseteq ReservationKeys
    /\ s.reservations \in [DOMAIN s.reservations -> Nat \ {0}]
    /\ s.trades \in Seq([taker : DOMAIN s.orders,
                         fills : Seq([maker : DOMAIN s.orders, amount : Nat \ {0}, usdc : Nat \ {0}]),
                         book : Books, amount : Nat \ {0}, usdc : Nat \ {0},
                         status : {"MATCHED"}, tx : {NoTx}])
    /\ \A t \in DOMAIN s.trades : MadeByMatch(s.trades[t]) /\ EachMakerOnce(s.trades[t])
    /\ \A h \in DOMAIN s.orders :
         s.orders[h].pending = SumOver(DOMAIN s.trades, LAMBDA t : AmountIn(s.trades[t], h))
    /\ \A key \in ReservationKeys :
         GetReservation(s.reservations, key) >=
           SumOver({h \in DOMAIN s.orders : BuildOrderReservationKey(s.orders[h]) = key},
                   LAMBDA h : Needed(s.orders[h]))

SettlementAttemptStatus == {"CREATED", "SUBMITTED", "MINED", "FAILED", "REVERTED", "DROPPED"}
NoTrade == 0
IdleExecutor == [pc |-> "idle", batch |-> {}, trade |-> NoTrade, left |-> 0, before |-> 0,
                 attempt |-> 0, tx |-> NoTx, seen |-> <<>>]
IdleSweep == [todo |-> {}, verdict |-> "none", seen |-> <<>>]
IdleIndexer == [to |-> 0, next |-> 0]

Init ==
  /\ \E s \in Scenarios :
       /\ orders = s.orders /\ reservations = s.reservations /\ trades = s.trades
       /\ upcoming = s.disturbances
  /\ ExchangeInit
  /\ attempts = <<>> /\ sent = <<>> /\ mempool = {} /\ receipts = <<>> /\ blocks = <<>>
  /\ cursor = {0} /\ processed = {}
  /\ executor = IdleExecutor /\ sweep = IdleSweep /\ indexer = IdleIndexer
  /\ clock = 0 /\ givenUp = <<>>

(* "crash", "lost", "slow", "unanswered", "write", "wallet", "operator",    *)
(* "clock" or "cancel".                                                     *)
Disturb(kind) == kind \in upcoming /\ upcoming' = upcoming \ {kind}

-----------------------------------------------------------------------------
(* db/trades.ts and db/settlementAttempts.ts. *)

UpdateTradeStatus(t, status) == [trades EXCEPT ![t].status = status]
MarkTradeSubmitted(t, tx) == [trades EXCEPT ![t].status = "SUBMITTED", ![t].tx = tx]
ClaimUnfinished(t) == trades[t].status # "FAILED"      \* slip
ClaimNew(t) == trades[t].status = "MATCHED"      \* slip
Executable(t) == trades[t].status \in {"MATCHED", "RETRYING"}
GetTradeByTxHash(tx) == {t \in TradeIds : trades[t].tx = tx}

CreateSettlementAttempt(t) == Append(attempts, [trade |-> t, status |-> "CREATED", tx |-> NoTx])
UpdateSettlementAttempt(a, status) == [attempts EXCEPT ![a].status = status]
MarkSettlementAttemptSubmitted(a, tx) ==
  [attempts EXCEPT ![a].status = "SUBMITTED", ![a].tx = tx]
GetSettlementAttemptCountByTrade(t) == Cardinality({a \in DOMAIN attempts : attempts[a].trade = t})
(* The newest attempt that sent transaction tx. *)
GetSettlementAttemptByTxHash(tx) ==
  {a \in DOMAIN attempts : /\ attempts[a].tx = tx
                           /\ \A b \in DOMAIN attempts : attempts[b].tx = tx => b <= a}
(* ORDER BY ... LIMIT: the rows of the n smallest ids. *)
Oldest(ids, n) == {i \in ids : Cardinality({j \in ids : j < i}) < n}
GetSubmittedSettlementAttemptsForCheck ==
  Oldest({a \in DOMAIN attempts : attempts[a].status = "SUBMITTED"}, SweepLimit)
(* The sweep checks them in their order. *)
Swept == Min(sweep.todo)
OthersToSweep == sweep.todo \ {Swept}

(* The sweep updates a trade before it reads the orders to clean up: until *)
(* it commits, nobody else writes the trade.                               *)
TradeLocked(t) == sweep.seen # <<>> /\ attempts[Swept].trade = t

-----------------------------------------------------------------------------
(* The executor (worker.ts, retry.ts, service.ts, failureCleanup.ts). *)

CalculateRemainingFresh(prior) == MaxAttempts      \* slip
CalculateRemainingSettlementAttempts(prior) == Larger(0, MaxAttempts - prior)

(* A trade still executing when no batch runs was left by a batch that ended *)
(* early; how long ago is not modelled.                                      *)
ResetStaleExecutingTrades(stale) ==
  /\ executor.pc = "idle"
  /\ stale # {} /\ Cardinality(stale) <= BatchLimit
  /\ \A t \in stale : trades[t].status = "EXECUTING" /\ ~TradeLocked(t)
  /\ trades' = [t \in TradeIds |-> IF t \in stale THEN [trades[t] EXCEPT !.status = "RETRYING"]
                                   ELSE trades[t]]
  /\ UNCHANGED <<orders, reservations, exchangeVars, attempts, chainVars, indexVars,
                 executor, sweep, auxVars>>

(* The UPDATE returns the claimed rows in no particular order. *)
ClaimExecutableTrades ==
  LET claimed == Oldest({t \in TradeIds : Executable(t) /\ ~TradeLocked(t)}, BatchLimit)
  IN /\ executor.pc = "idle"
     /\ claimed # {}
     /\ trades' = [t \in TradeIds |-> IF t \in claimed
                                      THEN [trades[t] EXCEPT !.status = "EXECUTING"] ELSE trades[t]]
     /\ executor' = [executor EXCEPT !.pc = "begin", !.batch = claimed]
     /\ UNCHANGED <<orders, reservations, exchangeVars, attempts, chainVars, indexVars, sweep, auxVars>>

Current == executor.trade
NextInBatch == IF executor.batch = {} THEN IdleExecutor
               ELSE [IdleExecutor EXCEPT !.pc = "begin", !.batch = executor.batch]

BeginTrade(t) ==
  LET remaining == CalculateRemainingSettlementAttempts(GetSettlementAttemptCountByTrade(t))
  IN /\ executor.pc = "begin" /\ t \in executor.batch
     /\ executor' = [executor EXCEPT !.pc = IF remaining = 0 THEN "cleanup" ELSE "attempt",
                                     !.batch = @ \ {t}, !.trade = t,
                                     !.left = remaining, !.before = Len(sent)]
     /\ UNCHANGED <<ledgerVars, exchangeVars, attempts, chainVars, indexVars, sweep, auxVars>>

CreateAttempt ==
  /\ executor.pc = "attempt"
  /\ attempts' = CreateSettlementAttempt(Current)
  /\ executor' = [executor EXCEPT !.pc = "submit", !.attempt = Len(attempts) + 1]
  /\ UNCHANGED <<ledgerVars, exchangeVars, chainVars, indexVars, sweep, auxVars>>

Simulates == MatchOrdersSucceeds(Executor, trades[Current], clock)

Broadcast ==
  /\ sent' = Append(sent, Current)
  /\ mempool' = mempool \cup {Len(sent) + 1}
  /\ UNCHANGED <<receipts, blocks, clock>>

(* submitMatchOrders: what the simulation refuses is not sent. *)
SubmitMatchOrders ==
  /\ executor.pc = "submit"
  /\ IF Simulates
     THEN Broadcast /\ executor' = [executor EXCEPT !.pc = "recordAttempt", !.tx = Len(sent) + 1]
     ELSE executor' = [executor EXCEPT !.pc = "failed"] /\ UNCHANGED chainVars
  /\ UNCHANGED <<ledgerVars, exchangeVars, attempts, indexVars, sweep, auxVars>>

(* The request fails, whether or not the transaction went out with it. *)
SubmitUnanswered ==
  /\ executor.pc = "submit"
  /\ Disturb("unanswered")
  /\ (Simulates /\ Broadcast) \/ UNCHANGED chainVars
  /\ executor' = [executor EXCEPT !.pc = "failed"]
  /\ UNCHANGED <<ledgerVars, exchangeVars, attempts, indexVars, sweep, givenUp>>

RecordAttempt ==
  /\ executor.pc = "recordAttempt"
  /\ attempts' = MarkSettlementAttemptSubmitted(executor.attempt, executor.tx)
  /\ executor' = [executor EXCEPT !.pc = "recordTrade"]
  /\ UNCHANGED <<ledgerVars, exchangeVars, chainVars, indexVars, sweep, auxVars>>

RecordTrade ==
  /\ executor.pc = "recordTrade"
  /\ ~TradeLocked(Current)
  /\ trades' = MarkTradeSubmitted(Current, executor.tx)
  /\ executor' = NextInBatch
  /\ UNCHANGED <<orders, reservations, exchangeVars, attempts, chainVars, indexVars, sweep, auxVars>>

(* A write that fails is caught with the errors of the submission. *)
RecordFails ==
  /\ executor.pc \in {"recordAttempt", "recordTrade"}
  /\ Disturb("write")
  /\ executor' = [executor EXCEPT !.pc = "failed"]
  /\ UNCHANGED <<ledgerVars, exchangeVars, attempts, chainVars, indexVars, sweep, givenUp>>

MarkAttemptFailed ==
  /\ executor.pc = "failed"
  /\ attempts' = UpdateSettlementAttempt(executor.attempt, "FAILED")
  /\ executor' = [executor EXCEPT !.pc = "retrying"]
  /\ UNCHANGED <<ledgerVars, exchangeVars, chainVars, indexVars, sweep, auxVars>>

(* The next attempt, after a pause, or the end of the trade. *)
MarkTradeRetrying ==
  /\ executor.pc = "retrying"
  /\ ~TradeLocked(Current)
  /\ trades' = UpdateTradeStatus(Current, "RETRYING")
  /\ executor' = [executor EXCEPT !.pc = IF executor.left > 1 THEN "attempt" ELSE "cleanup",
                                  !.left = @ - 1, !.attempt = 0, !.tx = NoTx]
  /\ UNCHANGED <<orders, reservations, exchangeVars, attempts, chainVars, indexVars, sweep, auxVars>>

(* finalizeFailedTrade reads the trade and its orders without locking them. *)
(* An error ends the batch; the trades it still holds stay executing.       *)
ReadFailedTrade ==
  /\ executor.pc = "cleanup"
  /\ executor' = IF EligibleForCleanup(trades[Current])
                 THEN [executor EXCEPT !.pc = "release",
                                       !.seen = [h \in OrdersOf(Current) |-> orders[h]]]
                 ELSE IdleExecutor
  /\ UNCHANGED <<ledgerVars, exchangeVars, attempts, chainVars, indexVars, sweep, auxVars>>

ReleaseFailedTrade ==
  /\ executor.pc = "release"
  /\ ~TradeLocked(Current)
  /\ IF Cleanup(Current, executor.seen).ok
     THEN /\ FinalizeFailedTrade(Current, executor.seen)
          /\ givenUp' = Append(givenUp, Current)
          /\ executor' = NextInBatch
     ELSE executor' = IdleExecutor /\ UNCHANGED <<ledgerVars, givenUp>>
  /\ UNCHANGED <<exchangeVars, attempts, chainVars, indexVars, sweep, upcoming>>

-----------------------------------------------------------------------------
(* The receipt sweep (receiptSweep.ts). *)

StartSweep ==
  /\ sweep.todo = {}
  /\ GetSubmittedSettlementAttemptsForCheck # {}
  /\ sweep' = [IdleSweep EXCEPT !.todo = GetSubmittedSettlementAttemptsForCheck]
  /\ UNCHANGED <<ledgerVars, exchangeVars, attempts, chainVars, indexVars, executor, auxVars>>

(* A transaction whose receipt is not read is dropped once it is too old, be *)
(* it lost, only slow, or mined while the node fails to say so.  Timing: the *)
(* age (60 s) is longer than the executor stays with a trade (two pauses, of *)
(* 5 and 15 s), so none of the transactions it sent since it took the trade  *)
(* is dropped before it leaves the trade.                                    *)
JustSent(tx) == sent[tx] = Current /\ tx > executor.before
ReadReceipt ==
  LET tx == attempts[Swept].tx IN
  /\ sweep.todo # {}
  /\ sweep.verdict = "none"
  /\ \/ /\ tx \in mempool \/ JustSent(tx) \/ (tx \in DOMAIN receipts /\ receipts[tx])
        /\ sweep' = [sweep EXCEPT !.todo = OthersToSweep]
        /\ UNCHANGED upcoming
     \/ /\ ~JustSent(tx)
        /\ IF tx \in mempool \cup DOMAIN receipts THEN Disturb("slow") ELSE UNCHANGED upcoming
        /\ sweep' = [sweep EXCEPT !.verdict = "DROPPED"]
     \/ /\ tx \in DOMAIN receipts /\ ~receipts[tx]
        /\ sweep' = [sweep EXCEPT !.verdict = "REVERTED"]
        /\ UNCHANGED upcoming
  /\ UNCHANGED <<ledgerVars, exchangeVars, attempts, chainVars, indexVars, executor, givenUp>>

(* markAttemptDropped, markAttemptReverted: one transaction, which goes on  *)
(* to clean up if the trade has no attempt left.                            *)
MarkAttempt ==
  LET a == Swept
      t == attempts[a].trade
  IN /\ sweep.verdict # "none"
     /\ sweep.seen = <<>>
     /\ IF GetSettlementAttemptCountByTrade(t) >= MaxAttempts
        THEN /\ sweep' = [sweep EXCEPT !.seen = [h \in OrdersOf(t) |-> orders[h]]]
             /\ UNCHANGED <<trades, attempts>>
        ELSE /\ sweep' = [IdleSweep EXCEPT !.todo = OthersToSweep]
             /\ trades' = UpdateTradeStatus(t, "RETRYING")
             /\ attempts' = UpdateSettlementAttempt(a, sweep.verdict)
     /\ UNCHANGED <<orders, reservations, exchangeVars, chainVars, indexVars, executor, auxVars>>

FinalizeSwept ==
  LET a == Swept
      t == attempts[a].trade
  IN /\ sweep.seen # <<>>
     /\ IF Cleanup(t, sweep.seen).ok
        THEN /\ FinalizeFailedTrade(t, sweep.seen)
             /\ givenUp' = Append(givenUp, t)
             /\ attempts' = UpdateSettlementAttempt(a, sweep.verdict)
             /\ sweep' = [IdleSweep EXCEPT !.todo = OthersToSweep]
        ELSE sweep' = IdleSweep /\ UNCHANGED <<ledgerVars, attempts, givenUp>>
     /\ UNCHANGED <<exchangeVars, chainVars, indexVars, executor, upcoming>>

-----------------------------------------------------------------------------
(* The indexer (reconciliationLoop.ts, reconciliation.ts, db/chainEvents.ts). *)

SafeHead == Larger(0, Len(blocks) - ConfirmationDepth)
LogsUpTo(b) == IF b = 0 THEN 0 ELSE blocks[b]

StartIndexing ==
  /\ indexer = IdleIndexer
  /\ \E c \in cursor :
       /\ c < SafeHead
       /\ LET to == Smaller(SafeHead, c + MaxBlocksPerRun)
          IN indexer' = [to |-> to, next |-> LogsUpTo(c) + 1]
  /\ UNCHANGED <<ledgerVars, exchangeVars, attempts, chainVars, cursor, processed,
                 executor, sweep, auxVars>>

WholeTotal(order, total) == total      \* slip
CalculateConfirmedFillDelta(order, total) == Larger(0, total - Confirmed(order))

(* applyOrderFilledEvent. *)
ApplyOrderFilled(log) ==
  LET delta == CalculateConfirmedFillDelta(orders[log.order], log.total)
  IN IF delta = 0 THEN Tables ELSE ConfirmFill(Tables, log.order, delta)

(* assertOrdersMatchedEventMatchesTrade. *)
EventMatchesTrade(log, t) ==
  trades[t].taker = log.order /\ trades[t].amount = log.total /\ trades[t].usdc = log.usdc

(* applyOrdersMatchedEvent. *)
CanApplyOrdersMatched(log) == \E t \in GetTradeByTxHash(log.tx) : EventMatchesTrade(log, t)
ApplyOrdersMatched(log) ==
  \E t \in GetTradeByTxHash(log.tx) :
    /\ ~TradeLocked(t)
    /\ trades' = UpdateTradeStatus(t, "CONFIRMED")
    /\ attempts' = [a \in DOMAIN attempts |->
                      IF a \in GetSettlementAttemptByTxHash(log.tx)
                      THEN [attempts[a] EXCEPT !.status = "MINED"] ELSE attempts[a]]

Indexing == indexer # IdleIndexer /\ indexer.next <= LogsUpTo(indexer.to)
CanApply(log) ==
  IF log.event = "OrderFilled" THEN ApplyOrderFilled(log).ok ELSE CanApplyOrdersMatched(log)

(* One transaction a log: it is marked processed and applied, or neither. *)
ApplyLog ==
  LET n == indexer.next IN
  /\ Indexing
  /\ indexer' = [indexer EXCEPT !.next = n + 1]
  /\ processed' = processed \cup {n}
  /\ \/ n \in processed /\ UNCHANGED <<ledgerVars, attempts>>
     \/ /\ n \notin processed
        /\ CanApply(logs[n])
        /\ IF logs[n].event = "OrderFilled"
           THEN CommitTables(ApplyOrderFilled(logs[n])) /\ UNCHANGED <<trades, attempts>>
           ELSE ApplyOrdersMatched(logs[n]) /\ UNCHANGED <<orders, reservations>>
  /\ UNCHANGED <<exchangeVars, chainVars, cursor, executor, sweep, auxVars>>

IndexingFails ==
  /\ Indexing
  /\ indexer.next \notin processed /\ ~CanApply(logs[indexer.next])
  /\ indexer' = IdleIndexer
  /\ UNCHANGED <<ledgerVars, exchangeVars, attempts, chainVars, cursor, processed,
                 executor, sweep, auxVars>>

(* upsertBackendCursor keeps the greater of the block and its row. *)
AdvanceCursor ==
  /\ indexer # IdleIndexer /\ ~Indexing
  /\ cursor' = IF cursor = {} THEN {indexer.to} ELSE {Larger(c, indexer.to) : c \in cursor}
  /\ indexer' = IdleIndexer
  /\ UNCHANGED <<ledgerVars, exchangeVars, attempts, chainVars, processed, executor, sweep, auxVars>>

-----------------------------------------------------------------------------
(* The chain. *)

(* A block with one transaction, which takes effect or reverts. *)
Succeeds(tx) == MatchOrdersSucceeds(Executor, trades[sent[tx]], clock)
Include(tx, success) ==
  /\ tx \in mempool
  /\ mempool' = mempool \ {tx}
  /\ receipts' = [r \in DOMAIN receipts \cup {tx} |-> IF r = tx THEN success ELSE receipts[r]]
Mine(tx) ==
  /\ Include(tx, Succeeds(tx))
  /\ IF Succeeds(tx) THEN MatchOrders(Executor, trades[sent[tx]], clock, tx) ELSE UNCHANGED exchangeVars
  /\ blocks' = Append(blocks, Len(logs'))
  /\ UNCHANGED <<ledgerVars, attempts, sent, clock, indexVars, executor, sweep, auxVars>>

LoseTransaction(tx) ==
  /\ Disturb("lost")
  /\ tx \in mempool
  /\ mempool' = mempool \ {tx}
  /\ UNCHANGED <<ledgerVars, exchangeVars, attempts, sent, receipts, blocks, clock, indexVars,
                 executor, sweep, givenUp>>

(* What makes a settlement fail on the chain. *)
AssetsMove ==
  /\ \/ Disturb("wallet") /\ \E w \in Withdrawals : WalletDrops(w[1], w[2])
     \/ Disturb("operator") /\ SetOperator(Executor, FALSE)
  /\ UNCHANGED <<ledgerVars, attempts, chainVars, indexVars, executor, sweep, givenUp>>

Tick ==
  /\ Disturb("clock")
  /\ clock' = clock + 1
  /\ UNCHANGED <<ledgerVars, exchangeVars, attempts, sent, mempool, receipts, blocks,
                 indexVars, executor, sweep, givenUp>>

-----------------------------------------------------------------------------
(* Makers cancel meanwhile, and the process may crash and start again. *)

CancelOrder(h) ==
  /\ Disturb("cancel")
  /\ CancelOrderTx(h)
  /\ UNCHANGED <<trades, exchangeVars, attempts, chainVars, indexVars, executor, sweep, givenUp>>

BootstrapAtHead(c) == {SafeHead}      \* slip
BootstrapReconciliationCursor(c) == IF c # {} THEN c ELSE {SafeHead}

Restart ==
  /\ Disturb("crash")
  /\ executor' = IdleExecutor /\ sweep' = IdleSweep /\ indexer' = IdleIndexer
  /\ cursor' = BootstrapReconciliationCursor(cursor)
  /\ UNCHANGED <<ledgerVars, exchangeVars, attempts, chainVars, processed, givenUp>>

Execute ==
  \/ \E stale \in SUBSET TradeIds : ResetStaleExecutingTrades(stale)
  \/ ClaimExecutableTrades \/ (\E t \in executor.batch : BeginTrade(t)) \/ CreateAttempt
  \/ SubmitMatchOrders \/ RecordAttempt \/ RecordTrade
  \/ MarkAttemptFailed \/ MarkTradeRetrying \/ ReadFailedTrade \/ ReleaseFailedTrade
Sweep == StartSweep \/ ReadReceipt \/ MarkAttempt \/ FinalizeSwept
Index == StartIndexing \/ ApplyLog \/ IndexingFails \/ AdvanceCursor

Next ==
  \/ Execute \/ Sweep \/ Index
  \/ \E tx \in mempool : Mine(tx)
  \/ SubmitUnanswered \/ RecordFails \/ Restart \/ AssetsMove \/ Tick
  \/ \E tx \in mempool : LoseTransaction(tx)
  \/ \E h \in Cancellable : CancelOrder(h)

Spec == Init /\ [][Next]_vars

(* The loops are timers that run again whatever happened, waiting rows are  *)
(* locked in turn, and transactions that are not lost are mined.            *)
FairSpec ==
  /\ Spec
  /\ SF_vars(Execute) /\ WF_vars(Sweep) /\ SF_vars(Index)
  /\ WF_<<mempool, receipts>>(\E tx \in mempool, success \in BOOLEAN : Include(tx, success))

-----------------------------------------------------------------------------
(* Properties. *)

(* The rows keep their types and the constraints of the schema, whatever    *)
(* the loops, crashes and lost calls did (migrations/001).                  *)
TypeOK ==
  /\ \A h \in DOMAIN orders :
       /\ orders[h].status \in OrderStatus
       /\ orders[h].remaining \in 0 .. orders[h].outcomeAmount
       /\ orders[h].pending \in 0 .. orders[h].remaining
       /\ orders[h].status = "FILLED" <=> orders[h].remaining = 0
  /\ \A k \in DOMAIN reservations : reservations[k] \in Nat \ {0}
  /\ \A t \in TradeIds : trades[t].status \in TradeStatus /\ trades[t].tx \in {NoTx} \cup DOMAIN sent
  /\ \A a \in DOMAIN attempts : attempts[a].status \in SettlementAttemptStatus
  /\ wallet \in [ReservationKeys -> Nat]
  /\ mempool \subseteq DOMAIN sent /\ DOMAIN receipts \subseteq DOMAIN sent
  /\ processed \subseteq DOMAIN logs

(* What the server holds of an order as filled is what the last event it    *)
(* applied said, and never more than the contract filled: events taken      *)
(* twice, or again after a crash, count once (applyOrderFilledEvent).       *)
TotalsProcessed(h) ==
  {logs[n].total : n \in {m \in processed : logs[m].event = "OrderFilled" /\ logs[m].order = h}}
ConfirmedIsProcessed ==
  \A h \in DOMAIN orders :
    /\ Confirmed(orders[h]) \in {0} \cup TotalsProcessed(h)
    /\ \A total \in TotalsProcessed(h) : total <= Confirmed(orders[h])
    /\ Confirmed(orders[h]) <= filledAmounts[h]

(* The cursor never passes a block with an event that was not applied.      *)
NoEventSkipped == \A c \in cursor : 1 .. LogsUpTo(c) \subseteq processed

(* Over all batches, sweeps and restarts, a trade is attempted no more than *)
(* the retry policy says.                                                   *)
AttemptsBounded == \A t \in TradeIds : GetSettlementAttemptCountByTrade(t) <= MaxAttempts

(* On the chain no order is filled beyond its amount, however often its     *)
(* trades are sent, and a maker's fills cost what his limit price says of   *)
(* their total, rounded once (OutcomeExchange._consumeOrder).               *)
MakersPaidTheirPrice ==
  \A h \in Tickets :
    /\ filledAmounts[h] <= Signed[h].outcomeAmount
    /\ (\A t \in TradeIds : trades[t].taker # h) =>
         SumOver({n \in DOMAIN logs : logs[n].event = "OrderFilled" /\ logs[n].order = h},
                 LAMBDA n : logs[n].usdc) = BuyReservation(Signed[h], filledAmounts[h])

(* Trades settle regularly while none is settled or given up twice, or both: *)
(* what slow, unanswered or unrecorded transactions bring about.             *)
Settled(t) == {tx \in DOMAIN receipts : receipts[tx] /\ sent[tx] = t}
CleanedUp(t) == {i \in DOMAIN givenUp : givenUp[i] = t}
Regular == \A t \in TradeIds : Cardinality(Settled(t)) + Cardinality(CleanedUp(t)) <= 1

(* As long as trades settle regularly, an order's pending and confirmed     *)
(* amounts together are its part of the trades not given up: no retry,      *)
(* cleanup or event loses or repeats any of it.                             *)
AmountsFollowTrades ==
  Regular => \A h \in DOMAIN orders :
    Confirmed(orders[h]) + orders[h].pending =
      SumOver({t \in TradeIds : CleanedUp(t) = {}}, LAMBDA t : AmountIn(trades[t], h))

(* The parts of trades given up, each of which may be rounded the other way. *)
(* (Not those of trades that say FAILED: a status may be written over.)      *)
GivenUpFills(key) ==
  SumOver(OrdersWithKey(key),
          LAMBDA h : Cardinality({t \in TradeIds : CleanedUp(t) # {} /\ h \in OrdersOf(t)}))

(* As long as trades settle regularly, reservations cover what live orders  *)
(* and open trades need, though cleanup reads orders before it locks them   *)
(* and makers cancel meanwhile.                                             *)
ReservationsCoverTrades ==
  Regular => \A key \in ReservationKeys :
    GetReservation(reservations, key) + (IF key[2] = "USDC" THEN GivenUpFills(key) ELSE 0)
      >= NeededFor(key)

(* A confirmed trade is only undone when it has been attempted again, or the *)
(* sweep gives up on a transaction of it that may be mined all the same      *)
(* (updateTradeStatus does not look at the status it replaces).              *)
ConfirmedStays ==
  [][\A t \in TradeIds :
       trades[t].status = "CONFIRMED" /\ trades'[t].status # "CONFIRMED"
         => \/ GetSettlementAttemptCountByTrade(t) > 1
            \/ \E a \in DOMAIN attempts' :
                 attempts'[a].trade = t /\ attempts'[a].status = "DROPPED"]_vars

(* Every trade is confirmed or fails in the end, whatever was lost or       *)
(* refused and wherever the server crashed.  Only two things keep one from  *)
(* it: the indexer meets an event it can never apply, or the executor wrote *)
(* the trade again after the sweep had ended its attempt or the indexer had *)
(* confirmed it (no status update looks at the status it replaces).         *)
Overwritten(t) ==
  \/ /\ trades[t].status = "SUBMITTED"
     /\ \A a \in DOMAIN attempts :
          attempts[a].trade = t => attempts[a].status \in {"FAILED", "REVERTED", "DROPPED"}
  \/ /\ trades[t].status # "CONFIRMED"
     /\ \E n \in processed : logs[n].event = "OrdersMatched" /\ sent[logs[n].tx] = t
Ended == \A t \in TradeIds : trades[t].status \in {"CONFIRMED", "FAILED"}
Blocked ==
  \E n \in DOMAIN logs \ processed :
    1 .. n - 1 \subseteq processed /\ ~CanApply(logs[n]) /\ executor.tx # logs[n].tx
TradesEnd == <>(Ended \/ Blocked \/ \E t \in TradeIds : Overwritten(t))

(* What the docs say of the events (docs/clob-matching-spec.md, Chain Event *)
(* Reconciliation): the indexer comes to apply every one that is confirmed. *)
EveryEventApplied == []<>(\E c \in cursor : c = SafeHead)
=============================================================================
