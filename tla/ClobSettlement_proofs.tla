------------------------ MODULE ClobSettlement_proofs -----------------------
(***************************************************************************)
(* What ClobSettlement promises, for any orders and trades, every number   *)
(* of attempts, batches and blocks, and any number of disturbances: the    *)
(* rows keep the constraints of the schema, fills count once, the cursor   *)
(* passes nothing, retries are bounded, makers pay their price, and while  *)
(* trades settle regularly nothing pending or reserved goes missing.       *)
(*                                                                         *)
(* IInv types everything the tables, the loops and the chain hold, and     *)
(* says how they depend on each other: a copy of orders that a loop        *)
(* carries has all orders of its trade, what is on the chain was sent, the *)
(* logs of a maker's fills add up to his price, the indexer starts behind  *)
(* what was applied.  AttemptsInv counts what a batch may still do.        *)
(* AmountsInv has what orders hold pending and confirmed as their parts of *)
(* the trades not given up; CoverInv has what is reserved for them, with   *)
(* the copies of orders the cleanups carry still true of what they release *)
(* by, however long ago they were read.                                    *)
(*                                                                         *)
(* Most actions write few of the variables.  NextWriters says which action *)
(* writes which, once; a lemma for each variable then has only the actions *)
(* that write it, and a conjunct of IInv follows from the lemmas of its    *)
(* variables.  Folds over fills and batches are unrolled with FoldExists.  *)
(***************************************************************************)
EXTENDS ClobSettlement, OrderLedger_proofs

-----------------------------------------------------------------------------
(* The settlement contract.                                                  *)

LogRow(D) == [event : {"OrderFilled", "OrdersMatched"}, tx : Nat, order : D, total : Nat, usdc : Nat]

AnyLog(D, tx) == [event : {"OrderFilled", "OrdersMatched"}, tx : {tx}, order : D, total : Int, usdc : Int]

(* What the events say was paid for an order. *)
FillsOf(ls, h) == {n \in DOMAIN ls : ls[n].event = "OrderFilled" /\ ls[n].order = h}
Paid(ls, h) == Total([n \in FillsOf(ls, h) |-> ls[n].usdc], FillsOf(ls, h))

(* Fills within what was signed, events within the fills, makers paid their   *)
(* price: filled amounts f, balances w and events ls, for orders D.           *)
ExchangeGood(D, takers, f, w, ls) ==
  /\ f \in [Tickets -> Nat] /\ \A h \in Tickets : f[h] <= Signed[h].outcomeAmount
  /\ w \in [ReservationKeys -> Nat]
  /\ ls \in Seq(LogRow(D))
  /\ \A n \in DOMAIN ls : ls[n].event = "OrderFilled" => ls[n].total <= f[ls[n].order]
  /\ \A h \in Tickets \ takers : Paid(ls, h) = BuyReservation(Signed[h], f[h])

LEMMA PaidAppend ==
  ASSUME NEW D, NEW ls \in Seq(LogRow(D)), NEW r \in LogRow(D), NEW h
  PROVE  Paid(Append(ls, r), h) =
           Paid(ls, h) + (IF r.event = "OrderFilled" /\ r.order = h THEN r.usdc ELSE 0)
<1> DEFINE more == Append(ls, r)
           n == Len(ls)
           S == FillsOf(ls, h)
           T == FillsOf(more, h)
           f == [i \in S |-> ls[i].usdc]
           g == [i \in T |-> more[i].usdc]
<1>1. /\ n \in Nat /\ DOMAIN ls = 1 .. n /\ DOMAIN more = 1 .. n + 1
      /\ \A i \in 1 .. n : more[i] = ls[i]
      /\ more[n + 1] = r
  OBVIOUS
<1>2. /\ IsFiniteSet(S) /\ n + 1 \notin S
      /\ T = IF r.event = "OrderFilled" /\ r.order = h THEN S \cup {n + 1} ELSE S
  <2>1. S \subseteq 1 .. n
    BY <1>1 DEF FillsOf
  <2>a. IsFiniteSet(1 .. n)
    BY <1>1, IntervalFinite
  <2>2. IsFiniteSet(S) /\ n + 1 \notin S
    BY <2>1, <2>a, <1>1, FS_Subset
  <2>3. T = IF r.event = "OrderFilled" /\ r.order = h THEN S \cup {n + 1} ELSE S
    BY <1>1 DEF FillsOf
  <2>4. QED
    BY <2>2, <2>3
<1>3. \A i \in S : i \in 1 .. n /\ ls[i] \in LogRow(D)
  BY <1>1 DEF FillsOf
<1>4. \A i \in S : f[i] = ls[i].usdc /\ f[i] \in Nat
  BY <1>3 DEF LogRow
<1>5. Paid(ls, h) = Total(f, S) /\ Paid(more, h) = Total(g, T)
  BY DEF Paid
<1>6. CASE r.event = "OrderFilled" /\ r.order = h
  <2>1. T = S \cup {n + 1}
    BY <1>2, <1>6
  <2>2. /\ \A i \in S : g[i] = f[i]
        /\ g[n + 1] = r.usdc /\ r.usdc \in Nat
    BY <2>1, <1>1, <1>3, <1>4 DEF LogRow
  <2>3. IsFiniteSet(T) /\ n + 1 \in T /\ T \ {n + 1} = S
    BY <2>1, <1>2, FS_AddElement
  <2>4. \A i \in T : g[i] \in Nat
    BY <2>1, <2>2, <1>4
  <2> HIDE DEF S, T, f, g
  <2>5. Total(g, T) = Total(g, S) + g[n + 1]
    BY <2>3, <2>4, TotalSplit
  <2>6. Total(g, S) = Total(f, S)
    BY <2>2, TotalEqual
  <2>7. QED
    BY <2>2, <2>5, <2>6, <1>5, <1>6
<1>7. CASE ~ (r.event = "OrderFilled" /\ r.order = h)
  <2>1. T = S
    BY <1>2, <1>7
  <2>2. \A i \in S : g[i] = f[i]
    BY <2>1, <1>1, <1>3
  <2>3. Total(f, S) \in Nat
    <3> HIDE DEF S, f
    <3>1. QED
      BY <1>2, <1>4, TotalNat
  <2> HIDE DEF S, T, f, g
  <2>4. Total(g, T) = Total(f, S)
    BY <2>1, <2>2, TotalEqual
  <2>5. QED
    BY <2>3, <2>4, <1>5, <1>7
<1>8. QED
  BY <1>6, <1>7

LEMMA TransferKeeps ==
  ASSUME NEW w \in [ReservationKeys -> Nat], NEW from \in Makers, NEW to \in Makers,
         NEW asset \in Assets, NEW amount \in Nat, w[<<from, asset>>] >= amount
  PROVE  /\ Transfer(w, from, to, asset, amount) \in [ReservationKeys -> Nat]
         /\ \A a \in Assets : Transfer(w, from, to, asset, amount)[<<to, a>>] >= w[<<to, a>>]
<1> DEFINE src == <<from, asset>>
           dst == <<to, asset>>
           less == [w EXCEPT ![src] = @ - amount]
           more == [less EXCEPT ![dst] = @ + amount]
<1>1. src \in ReservationKeys /\ dst \in ReservationKeys
  BY DEF ReservationKeys
<1>2. Transfer(w, from, to, asset, amount) = more
  BY DEF Transfer
<1>3. less \in [ReservationKeys -> Nat]
  <2>1. w[src] - amount \in Nat
    BY <1>1
  <2>2. QED
    BY <2>1
<1>4. more \in [ReservationKeys -> Nat]
  <2> HIDE DEF less
  <2>1. less[dst] + amount \in Nat
    BY <1>1, <1>3
  <2>2. QED
    BY <2>1, <1>3
<1>5. ASSUME NEW a \in Assets PROVE more[<<to, a>>] >= w[<<to, a>>]
  <2> DEFINE key == <<to, a>>
  <2>1. key \in ReservationKeys /\ w[key] \in Nat
    BY DEF ReservationKeys
  <2>2. CASE key = dst /\ dst = src
    BY <2>1, <2>2, <1>1
  <2>3. CASE key = dst /\ dst # src
    BY <2>1, <2>3, <1>1
  <2>4. CASE key # dst
    <3>1. key # src
      BY <2>4
    <3>2. more[key] = w[key]
      BY <3>1, <2>4, <2>1
    <3>3. QED
      BY <3>2, <2>1
  <2>5. QED
    BY <2>2, <2>3, <2>4
<1>6. QED
  BY <1>2, <1>4, <1>5

(* The outcome of the batch after some of its fills; `D' are the orders,     *)
(* `before' the filled amounts and `ls' the events when it began.            *)
BatchRecord(D, tx) ==
  [ok : BOOLEAN, filled : [Tickets -> Int], wallet : [ReservationKeys -> Int], usdc : Int,
   logs : Seq(AnyLog(D, tx))]
BatchStates(D, tx, takers, before, ls) ==
  {x \in BatchRecord(D, tx) :
     x.ok => /\ ExchangeGood(D, takers, x.filled, x.wallet, ls \o x.logs)
             /\ x.logs \in Seq(LogRow(D))
             /\ x.usdc \in Nat
             /\ \A h \in Tickets : before[h] <= x.filled[h]}

LEMMA SignedRow ==
  ASSUME NEW h \in Tickets
  PROVE  /\ Signed[h].maker \in Makers /\ Signed[h].book \in Books
         /\ Signed[h].outcomeAmount \in Nat \ {0} /\ Signed[h].usdcAmount \in Nat \ {0}
BY TicketsAssumption

LEMMA SignedReservation ==
  ASSUME NEW h \in Tickets, NEW n \in Nat
  PROVE  BuyReservation(Signed[h], n) \in Int
<1>1. n \in Int
  OBVIOUS
<1>2. QED
  BY <1>1, SignedRow, BuyReservationInt

LEMMA MatchMakerTyped ==
  ASSUME NEW D \in SUBSET Tickets, NEW takers, NEW before, NEW ls, NEW tx \in Nat,
         NEW x \in BatchStates(D, tx, takers, before, ls), NEW taker \in D,
         NEW fill, fill.maker \in D, fill.amount \in Nat \ {0}, NEW timestamp
  PROVE  MatchMakerOrder(x, taker, fill, timestamp, tx) \in BatchRecord(D, tx)
<1> DEFINE y == MatchMakerOrder(x, taker, fill, timestamp, tx)
           m == fill.maker
           a == fill.amount
           u == CumulativeUsdcFill(Signed[m], x.filled[m], x.filled[m] + a)
           buyer == IF Signed[taker].side = "BUY" THEN Signed[taker].maker ELSE Signed[m].maker
           seller == IF Signed[taker].side = "BUY" THEN Signed[m].maker ELSE Signed[taker].maker
           ev == [event |-> "OrderFilled", tx |-> tx, order |-> m, total |-> x.filled[m] + a, usdc |-> u]
<1>1. /\ x.ok \in BOOLEAN /\ x.filled \in [Tickets -> Int] /\ x.wallet \in [ReservationKeys -> Int]
      /\ x.usdc \in Int
      /\ x.logs \in Seq(AnyLog(D, tx))
  BY DEF BatchStates, BatchRecord
<1>2. taker \in Tickets /\ m \in Tickets /\ a \in Nat
  OBVIOUS
<1>3. x.filled[m] \in Int /\ x.filled[m] + a \in Int
  BY <1>1, <1>2
<1>4. u \in Int
  <2>1. BuyReservation(Signed[m], x.filled[m]) \in Int
    BY <1>2, <1>3, SignedRow, BuyReservationInt
  <2>2. BuyReservation(Signed[m], x.filled[m] + a) \in Int
    BY <1>2, <1>3, SignedRow, BuyReservationInt
  <2>3. QED
    BY <2>1, <2>2 DEF CumulativeUsdcFill
<1>5. buyer \in Makers /\ seller \in Makers /\ Signed[m].book \in Assets /\ "USDC" \in Assets
  BY <1>2, SignedRow DEF Assets
<1>6. /\ y.ok \in BOOLEAN
      /\ y.filled = [[x.filled EXCEPT ![taker] = @ + a] EXCEPT ![m] = @ + a]
      /\ y.wallet = Transfer(Transfer(x.wallet, seller, buyer, Signed[m].book, a), buyer, seller, "USDC", u)
      /\ y.usdc = x.usdc + u
      /\ y.logs = Append(x.logs, ev)
      /\ y = [ok |-> y.ok, filled |-> y.filled, wallet |-> y.wallet, usdc |-> y.usdc, logs |-> y.logs]
  <2> DEFINE okay == /\ x.ok
                     /\ ValidateOrder(Signed[m], timestamp)
                     /\ ValidateMatch(Signed[taker], Signed[m])
                     /\ CanConsume(x.filled, taker, a)
                     /\ CanConsume(x.filled, m, a)
                     /\ u > 0
                     /\ x.wallet[<<seller, Signed[m].book>>] >= a
                     /\ x.wallet[<<buyer, "USDC">>] >= u
             filled == [[x.filled EXCEPT ![taker] = @ + a] EXCEPT ![m] = @ + a]
             purse == Transfer(Transfer(x.wallet, seller, buyer, Signed[m].book, a), buyer, seller, "USDC", u)
             usdc == x.usdc + u
             more == Append(x.logs, ev)
  <2>1. y = [ok |-> okay, filled |-> filled, wallet |-> purse, usdc |-> usdc, logs |-> more]
    BY Zenon DEF MatchMakerOrder
  <2>2. okay \in BOOLEAN
    OBVIOUS
  <2> HIDE DEF y, okay, filled, purse, usdc, more
  <2>3. y.ok = okay /\ y.filled = filled /\ y.wallet = purse /\ y.usdc = usdc /\ y.logs = more
    BY <2>1
  <2>4. y = [ok |-> y.ok, filled |-> y.filled, wallet |-> y.wallet, usdc |-> y.usdc, logs |-> y.logs]
    BY <2>1, <2>3
  <2>5. QED
    BY <2>2, <2>3, <2>4 DEF filled, purse, usdc, more
<1> HIDE DEF y, u, buyer, seller
<1>7. y.filled \in [Tickets -> Int]
  BY <1>6, <1>1, <1>2
<1>8. \A w \in [ReservationKeys -> Int], f \in Makers, t \in Makers, s \in Assets, n \in Int :
        Transfer(w, f, t, s, n) \in [ReservationKeys -> Int]
  BY DEF Transfer, ReservationKeys
<1>9. y.wallet \in [ReservationKeys -> Int]
  <2>1. a \in Int
    BY <1>2
  <2>2. Transfer(x.wallet, seller, buyer, Signed[m].book, a) \in [ReservationKeys -> Int]
    BY <2>1, <1>8, <1>1, <1>5
  <2>3. QED
    BY <2>2, <1>6, <1>8, <1>4, <1>5
<1>10. ev \in AnyLog(D, tx)
  BY <1>3, <1>4 DEF AnyLog
<1>11. y.logs \in Seq(AnyLog(D, tx))
  BY <1>6, <1>10, <1>1
<1>12. y.usdc \in Int
  BY <1>6, <1>1, <1>4
<1>13. y \in BatchRecord(D, tx)
  BY <1>6, <1>7, <1>9, <1>11, <1>12 DEF BatchRecord
<1>14. QED
  BY <1>13 DEF y

(* A fill that the contract accepts keeps its books right. *)
LEMMA MatchMakerGood ==
  ASSUME NEW D \in SUBSET Tickets, NEW takers, NEW before \in [Tickets -> Nat], NEW ls \in Seq(LogRow(D)),
         NEW tx \in Nat, NEW x \in BatchStates(D, tx, takers, before, ls), NEW taker \in D,
         taker \in takers, NEW fill, fill.maker \in D, fill.amount \in Nat \ {0}, NEW timestamp,
         MatchMakerOrder(x, taker, fill, timestamp, tx).ok
  PROVE  LET y == MatchMakerOrder(x, taker, fill, timestamp, tx) IN
         /\ ExchangeGood(D, takers, y.filled, y.wallet, ls \o y.logs)
         /\ y.logs \in Seq(LogRow(D))
         /\ y.usdc \in Nat
         /\ \A h \in Tickets : before[h] <= y.filled[h]
<1> DEFINE y == MatchMakerOrder(x, taker, fill, timestamp, tx)
           m == fill.maker
           a == fill.amount
           p == x.filled[m]
           u == CumulativeUsdcFill(Signed[m], p, p + a)
           buyer == IF Signed[taker].side = "BUY" THEN Signed[taker].maker ELSE Signed[m].maker
           seller == IF Signed[taker].side = "BUY" THEN Signed[m].maker ELSE Signed[taker].maker
           delivered == Transfer(x.wallet, seller, buyer, Signed[m].book, a)
           ev == [event |-> "OrderFilled", tx |-> tx, order |-> m, total |-> p + a, usdc |-> u]
           old == ls \o x.logs
<1>1. taker \in Tickets /\ m \in Tickets /\ a \in Nat /\ a > 0
  OBVIOUS
<1>2. /\ x.ok
      /\ ValidateMatch(Signed[taker], Signed[m])
      /\ CanConsume(x.filled, taker, a) /\ CanConsume(x.filled, m, a)
      /\ u > 0
      /\ x.wallet[<<seller, Signed[m].book>>] >= a
      /\ x.wallet[<<buyer, "USDC">>] >= u
  BY DEF MatchMakerOrder
<1>3. /\ ExchangeGood(D, takers, x.filled, x.wallet, old)
      /\ x.logs \in Seq(LogRow(D)) /\ x.usdc \in Nat
      /\ \A h \in Tickets : before[h] <= x.filled[h]
  BY <1>2 DEF BatchStates
<1>4. /\ x.filled \in [Tickets -> Nat] /\ x.wallet \in [ReservationKeys -> Nat]
      /\ old \in Seq(LogRow(D))
  BY <1>3 DEF ExchangeGood
<1>5. p \in Nat /\ p + a \in Nat /\ x.filled[taker] \in Nat
  BY <1>1, <1>4
<1>6. u \in Nat
  <2>1. BuyReservation(Signed[m], p) \in Int
    BY <1>1, <1>5, SignedReservation
  <2>2. BuyReservation(Signed[m], p + a) \in Int
    BY <1>1, <1>5, SignedReservation
  <2>3. u \in Int
    BY <2>1, <2>2 DEF CumulativeUsdcFill
  <2>4. QED
    BY <2>3, <1>2
<1>7. buyer \in Makers /\ seller \in Makers /\ Signed[m].book \in Assets /\ "USDC" \in Assets
  BY <1>1, SignedRow DEF Assets
<1>8. taker # m
  BY <1>2 DEF ValidateMatch
<1>9. /\ y.filled = [[x.filled EXCEPT ![taker] = @ + a] EXCEPT ![m] = @ + a]
      /\ y.wallet = Transfer(delivered, buyer, seller, "USDC", u)
      /\ y.usdc = x.usdc + u
      /\ y.logs = Append(x.logs, ev)
  BY DEF MatchMakerOrder
<1> HIDE DEF y, buyer, seller
<1>10. /\ y.filled \in [Tickets -> Nat]
       /\ y.filled[m] = p + a /\ y.filled[taker] = x.filled[taker] + a
       /\ \A h \in Tickets \ {taker, m} : y.filled[h] = x.filled[h]
  <2> DEFINE f == x.filled
             f1 == [f EXCEPT ![taker] = @ + a]
  <2>1. /\ f1 \in [Tickets -> Nat] /\ f1[taker] = f[taker] + a
        /\ \A h \in Tickets \ {taker} : f1[h] = f[h]
    BY <1>1, <1>4
  <2> HIDE DEF f1
  <2> DEFINE f2 == [f1 EXCEPT ![m] = @ + a]
  <2>2. f2 \in [Tickets -> Nat] /\ f2[m] = f1[m] + a /\ \A h \in Tickets \ {m} : f2[h] = f1[h]
    BY <2>1, <1>1
  <2>3. y.filled = f2
    BY <1>9 DEF f1
  <2> HIDE DEF f2
  <2>4. f2[m] = p + a /\ f2[taker] = f[taker] + a /\ \A h \in Tickets \ {taker, m} : f2[h] = f[h]
    BY <2>1, <2>2, <1>1, <1>8
  <2>5. QED
    BY <2>2, <2>3, <2>4
<1>11. \A h \in Tickets : x.filled[h] <= y.filled[h] /\ before[h] <= y.filled[h]
  <2>1. ASSUME NEW h \in Tickets PROVE x.filled[h] <= y.filled[h] /\ before[h] <= y.filled[h]
    <3>1. x.filled[h] \in Nat /\ before[h] \in Nat /\ before[h] <= x.filled[h]
      BY <1>3, <1>4
    <3>2. x.filled[h] <= y.filled[h]
      <4>1. CASE h = m
        BY <4>1, <1>10, <1>1, <1>5
      <4>2. CASE h = taker
        BY <4>2, <1>10, <1>1, <1>5
      <4>3. CASE h \notin {taker, m}
        BY <4>3, <1>10, <3>1
      <4>4. QED
        BY <4>1, <4>2, <4>3
    <3>3. y.filled[h] \in Nat
      BY <1>10
    <3>4. QED
      BY <3>1, <3>2, <3>3
  <2>2. QED
    BY <2>1
<1>12. \A h \in Tickets : y.filled[h] <= Signed[h].outcomeAmount
  <2>1. y.filled[m] <= Signed[m].outcomeAmount /\ y.filled[taker] <= Signed[taker].outcomeAmount
    BY <1>2, <1>10 DEF CanConsume
  <2>2. \A h \in Tickets : x.filled[h] <= Signed[h].outcomeAmount
    BY <1>3 DEF ExchangeGood
  <2>3. QED
    BY <2>1, <2>2, <1>10
<1>13. y.wallet \in [ReservationKeys -> Nat]
  <2>1. /\ delivered \in [ReservationKeys -> Nat]
        /\ \A b \in Assets : delivered[<<buyer, b>>] >= x.wallet[<<buyer, b>>]
    BY <1>1, <1>2, <1>4, <1>7, TransferKeeps
  <2>2. <<buyer, "USDC">> \in ReservationKeys
    BY <1>7 DEF ReservationKeys
  <2>3. delivered[<<buyer, "USDC">>] \in Nat /\ x.wallet[<<buyer, "USDC">>] \in Nat
    BY <2>1, <2>2, <1>4
  <2>4. delivered[<<buyer, "USDC">>] >= u
    BY <2>1, <2>3, <1>2, <1>6, <1>7
  <2> HIDE DEF delivered, u
  <2>5. QED
    BY <2>1, <2>4, <1>6, <1>7, <1>9, TransferKeeps
<1>14. ev \in LogRow(D)
  BY <1>5, <1>6 DEF LogRow
<1>15. y.logs \in Seq(LogRow(D)) /\ ls \o y.logs = Append(old, ev) /\ ls \o y.logs \in Seq(LogRow(D))
  <2> HIDE DEF ev
  <2>1. y.logs \in Seq(LogRow(D))
    BY <1>3, <1>9, <1>14
  <2>2. ls \o Append(x.logs, ev) = Append(ls \o x.logs, ev)
    <3> DEFINE more == x.logs
           S == LogRow(D)
    <3>1. ls \in Seq(S) /\ more \in Seq(S) /\ ev \in S
      BY <1>3, <1>14
    <3> HIDE DEF more, S
    <3>2. \A s, t \in Seq(S) : \A e \in S : s \o Append(t, e) = Append(s \o t, e)
      BY ONLY ConcatAppend
    <3>3. ls \o Append(more, ev) = Append(ls \o more, ev)
      BY <3>1, <3>2
    <3>4. QED
      BY <3>3 DEF more
  <2>3. ls \o y.logs = Append(old, ev)
    BY <2>2, <1>9
  <2>4. Append(old, ev) \in Seq(LogRow(D))
    BY <1>4, <1>14, AppendProperties
  <2>5. QED
    BY <2>1, <2>3, <2>4
<1>16. ASSUME NEW n \in DOMAIN (ls \o y.logs), (ls \o y.logs)[n].event = "OrderFilled"
       PROVE  (ls \o y.logs)[n].total <= y.filled[(ls \o y.logs)[n].order]
  <2> DEFINE now == Append(old, ev)
  <2>0. n \in DOMAIN now /\ now[n].event = "OrderFilled" /\ ls \o y.logs = now
    BY <1>15, <1>16
  <2> HIDE DEF ev, old
  <2>1. CASE n \in DOMAIN old
    <3>1. now[n] = old[n] /\ old[n] \in LogRow(D)
      BY <2>1, <1>4
    <3>2. old[n].total <= x.filled[old[n].order]
      BY <2>1, <3>1, <2>0, <1>3 DEF ExchangeGood
    <3>3. old[n].order \in Tickets /\ old[n].total \in Nat
      BY <3>1 DEF LogRow
    <3>4. x.filled[old[n].order] \in Nat /\ y.filled[old[n].order] \in Nat
      BY <3>3, <1>4, <1>10
    <3>5. x.filled[old[n].order] <= y.filled[old[n].order]
      BY <3>3, <1>11
    <3> DEFINE t == old[n].total
               o == old[n].order
               c == x.filled[o]
               d == y.filled[o]
    <3>6. t <= d
      <4>1. t \in Nat /\ c \in Nat /\ d \in Nat /\ t <= c /\ c <= d
        BY <3>2, <3>3, <3>4, <3>5
      <4> HIDE DEF t, c, d
      <4>2. QED
        BY <4>1
    <3>7. QED
      BY <3>1, <3>6, <2>0
  <2>2. CASE n \notin DOMAIN old
    <3>1. n = Len(old) + 1 /\ now[n] = ev
      BY <2>0, <2>2, <1>4, <1>14
    <3>2. ev.total = p + a /\ ev.order = m
      BY DEF ev
    <3>3. QED
      BY <3>1, <3>2, <1>10, <1>5, <2>0
  <2>3. QED
    BY <2>1, <2>2
<1>17. ASSUME NEW h \in Tickets \ takers
       PROVE  Paid(ls \o y.logs, h) = BuyReservation(Signed[h], y.filled[h])
  <2>1. Paid(old, h) = BuyReservation(Signed[h], x.filled[h])
    BY <1>3 DEF ExchangeGood
  <2>2. Paid(Append(old, ev), h) =
          Paid(old, h) + (IF ev.event = "OrderFilled" /\ ev.order = h THEN ev.usdc ELSE 0)
    <3> HIDE DEF ev, old
    <3>1. QED
      BY <1>4, <1>14, PaidAppend
  <2>3. BuyReservation(Signed[h], x.filled[h]) \in Int
    BY <1>4, SignedReservation
  <2>4. CASE h = m
    <3>1. Paid(Append(old, ev), h) = BuyReservation(Signed[m], p) + u
      BY <2>1, <2>2, <2>4
    <3>2. BuyReservation(Signed[m], p + a) \in Int
      BY <1>1, <1>5, SignedReservation
    <3>3. BuyReservation(Signed[m], p) + u = BuyReservation(Signed[m], p + a)
      BY <3>2, <2>3, <2>4 DEF CumulativeUsdcFill
    <3>4. QED
      BY <3>1, <3>3, <1>10, <1>15, <2>4
  <2>5. CASE h # m
    <3>1. h # taker
      BY <1>17
    <3>2. y.filled[h] = x.filled[h]
      BY <3>1, <2>5, <1>10
    <3>3. Paid(Append(old, ev), h) = Paid(old, h)
      BY <2>1, <2>2, <2>3, <2>5
    <3>4. QED
      BY <3>2, <3>3, <2>1, <1>15
  <2>6. QED
    BY <2>4, <2>5
<1>18. ExchangeGood(D, takers, y.filled, y.wallet, ls \o y.logs)
  BY <1>10, <1>12, <1>13, <1>15, <1>16, <1>17 DEF ExchangeGood
<1>19. y.usdc \in Nat
  BY <1>3, <1>6, <1>9
<1>20. QED
  BY <1>11, <1>15, <1>18, <1>19 DEF y

(* The two events that close a batch say nothing new of anybody's fills. *)
LEMMA BatchEventsGood ==
  ASSUME NEW D \in SUBSET Tickets, NEW takers, NEW f, NEW w, NEW ls, ExchangeGood(D, takers, f, w, ls),
         NEW a \in LogRow(D), NEW b \in LogRow(D), a.order \in takers,
         a.event = "OrderFilled" => a.total <= f[a.order], b.event = "OrdersMatched"
  PROVE  ExchangeGood(D, takers, f, w, Append(Append(ls, a), b))
<1> DEFINE l1 == Append(ls, a)
           l2 == Append(l1, b)
<1>1. ls \in Seq(LogRow(D)) /\ f \in [Tickets -> Nat]
  BY DEF ExchangeGood
<1>2. l1 \in Seq(LogRow(D)) /\ l2 \in Seq(LogRow(D))
  BY <1>1
<1>3. \A n \in DOMAIN l1 : l1[n].event = "OrderFilled" => l1[n].total <= f[l1[n].order]
  <2>1. ASSUME NEW n \in DOMAIN l1, l1[n].event = "OrderFilled" PROVE l1[n].total <= f[l1[n].order]
    <3>1. CASE n \in DOMAIN ls
      BY <3>1, <2>1, <1>1 DEF ExchangeGood
    <3>2. CASE n \notin DOMAIN ls
      <4>1. l1[n] = a
        BY <3>2, <1>1
      <4>2. QED
        BY <4>1, <2>1
    <3>3. QED
      BY <3>1, <3>2
  <2>2. QED
    BY <2>1
<1> HIDE DEF l1
<1>4. \A n \in DOMAIN l2 : l2[n].event = "OrderFilled" => l2[n].total <= f[l2[n].order]
  <2>1. ASSUME NEW n \in DOMAIN l2, l2[n].event = "OrderFilled" PROVE l2[n].total <= f[l2[n].order]
    <3>1. CASE n \in DOMAIN l1
      BY <3>1, <2>1, <1>2, <1>3
    <3>2. CASE n \notin DOMAIN l1
      <4>1. l2[n] = b
        BY <3>2, <1>2
      <4>2. QED
        BY <4>1, <2>1
    <3>3. QED
      BY <3>1, <3>2
  <2>2. QED
    BY <2>1
<1>5. ASSUME NEW h \in Tickets \ takers PROVE Paid(l2, h) = BuyReservation(Signed[h], f[h])
  <2>1. Paid(ls, h) = BuyReservation(Signed[h], f[h]) /\ f[h] \in Nat
    BY <1>1 DEF ExchangeGood
  <2>2. Paid(ls, h) \in Int
    BY <2>1, SignedReservation
  <2>3. Paid(l1, h) = Paid(ls, h)
    <3>1. Paid(l1, h) = Paid(ls, h) + (IF a.event = "OrderFilled" /\ a.order = h THEN a.usdc ELSE 0)
      BY <1>1, PaidAppend DEF l1
    <3>2. QED
      BY <3>1, <2>2, <1>5
  <2>4. Paid(l2, h) = Paid(l1, h)
    <3>1. Paid(l2, h) = Paid(l1, h) + (IF b.event = "OrderFilled" /\ b.order = h THEN b.usdc ELSE 0)
      BY <1>2, PaidAppend
    <3>2. QED
      BY <3>1, <2>2, <2>3
  <2>5. QED
    BY <2>1, <2>3, <2>4
<1>6. ExchangeGood(D, takers, f, w, l2)
  <2> HIDE DEF l2
  <2>1. QED
    BY <1>2, <1>4, <1>5 DEF ExchangeGood
<1>7. QED
  BY <1>6 DEF l1

(* A fill, accepted or not, and the batch before its first fill. *)
LEMMA MatchMakerKeeps ==
  ASSUME NEW D \in SUBSET Tickets, NEW takers, NEW before \in [Tickets -> Nat], NEW ls \in Seq(LogRow(D)),
         NEW tx \in Nat, NEW x \in BatchStates(D, tx, takers, before, ls), NEW taker \in D,
         taker \in takers, NEW fill \in FillRow(D), NEW timestamp
  PROVE  MatchMakerOrder(x, taker, fill, timestamp, tx) \in BatchStates(D, tx, takers, before, ls)
<1> DEFINE y == MatchMakerOrder(x, taker, fill, timestamp, tx)
<1>1. fill.maker \in D /\ fill.amount \in Nat \ {0}
  BY DEF FillRow
<1>2. y \in BatchRecord(D, tx)
  BY <1>1, MatchMakerTyped
<1>3. ASSUME y.ok
      PROVE  /\ ExchangeGood(D, takers, y.filled, y.wallet, ls \o y.logs)
             /\ y.logs \in Seq(LogRow(D)) /\ y.usdc \in Nat
             /\ \A h \in Tickets : before[h] <= y.filled[h]
  BY <1>1, <1>3, MatchMakerGood
<1> HIDE DEF y
<1>4. y \in BatchStates(D, tx, takers, before, ls)
  BY <1>2, <1>3 DEF BatchStates
<1>5. QED
  BY <1>4 DEF y

LEMMA BatchStart ==
  ASSUME NEW D \in SUBSET Tickets, NEW takers, NEW f, NEW w, NEW ls, ExchangeGood(D, takers, f, w, ls),
         NEW ok \in BOOLEAN, NEW tx \in Nat
  PROVE  [ok |-> ok, filled |-> f, wallet |-> w, usdc |-> 0, logs |-> <<>>]
           \in BatchStates(D, tx, takers, f, ls)
<1> DEFINE x == [ok |-> ok, filled |-> f, wallet |-> w, usdc |-> 0, logs |-> <<>>]
<1>1. f \in [Tickets -> Nat] /\ w \in [ReservationKeys -> Nat] /\ ls \in Seq(LogRow(D))
  BY DEF ExchangeGood
<1>2. /\ x.ok \in BOOLEAN /\ x.filled \in [Tickets -> Int] /\ x.wallet \in [ReservationKeys -> Int]
      /\ x.usdc \in Int /\ x.logs \in Seq(AnyLog(D, tx))
      /\ x = [ok |-> x.ok, filled |-> x.filled, wallet |-> x.wallet, usdc |-> x.usdc, logs |-> x.logs]
  BY <1>1
<1>3. ls \o x.logs = ls
  BY <1>1, ConcatEmptySeq
<1>4. x.filled = f /\ x.wallet = w /\ x.logs \in Seq(LogRow(D)) /\ x.usdc \in Nat
  OBVIOUS
<1>5. \A h \in Tickets : f[h] <= f[h]
  BY <1>1
<1> HIDE DEF x
<1>6. x \in BatchRecord(D, tx)
  BY <1>2 DEF BatchRecord
<1>7. x \in BatchStates(D, tx, takers, f, ls)
  BY <1>3, <1>4, <1>5, <1>6 DEF BatchStates
<1>8. QED
  BY <1>7 DEF x

(* The batch after its last fill, with the taker's event and its own.         *)
Closed(x, trade, tx) ==
  [x EXCEPT !.logs = @ \o
     <<[event |-> "OrderFilled", tx |-> tx, order |-> trade.taker,
        total |-> x.filled[trade.taker], usdc |-> x.usdc],
       [event |-> "OrdersMatched", tx |-> tx, order |-> trade.taker,
        total |-> trade.amount, usdc |-> x.usdc]>>]

(* The states a batch goes through, one fill after the other.                *)
BatchRun(c, D, takers, trade, timestamp, tx) ==
  LET fills == trade.fills IN
  /\ c \in [0 .. Len(fills) -> BatchStates(D, tx, takers, filledAmounts, logs)]
  /\ c[0].filled = filledAmounts
  /\ \A k \in 0 .. Len(fills) - 1 :
       c[k + 1] = MatchMakerOrder(c[k], trade.taker, fills[k + 1], timestamp, tx)
  /\ MatchBatch(trade, timestamp, tx) = Closed(c[Len(fills)], trade, tx)

LEMMA MatchSteps ==
  ASSUME NEW D \in SUBSET Tickets, NEW takers, ExchangeGood(D, takers, filledAmounts, wallet, logs),
         NEW trade, trade.taker \in D, trade.taker \in takers, trade.amount \in Nat,
         trade.fills \in Seq(FillRow(D)),
         NEW timestamp, NEW tx \in Nat
  PROVE  \E c : BatchRun(c, D, takers, trade, timestamp, tx)
<1> DEFINE fills == trade.fills
           n == Len(fills)
           X == BatchStates(D, tx, takers, filledAmounts, logs)
           base == [ok |-> ValidateOrder(Signed[trade.taker], timestamp) /\ fills # <<>>,
                    filled |-> filledAmounts, wallet |-> wallet, usdc |-> 0, logs |-> <<>>]
           op(x, i) == MatchMakerOrder(x, trade.taker, fills[i], timestamp, tx)
<1>1. /\ n \in Nat /\ DOMAIN fills = 1 .. n
      /\ \A i \in 1 .. n : fills[i] \in FillRow(D)
  OBVIOUS
<1>2. /\ filledAmounts \in [Tickets -> Nat] /\ wallet \in [ReservationKeys -> Nat]
      /\ logs \in Seq(LogRow(D))
  BY DEF ExchangeGood
<1>3. base \in X
  <2>1. (ValidateOrder(Signed[trade.taker], timestamp) /\ fills # <<>>) \in BOOLEAN
    OBVIOUS
  <2>2. QED
    BY <2>1, BatchStart
<1>4. ASSUME NEW x \in X, NEW i \in 1 .. n PROVE op(x, i) \in X
  <2>1. fills[i] \in FillRow(D)
    BY <1>1
  <2> HIDE DEF fills
  <2>2. QED
    BY <2>1, <1>2, MatchMakerKeeps
<1> DEFINE Rec(g) == g = [s \in SUBSET (1 .. n) |->
                            IF s = {} THEN base ELSE op(g[s \ {Max(s)}], Max(s))]
<1> HIDE DEF X, base
<1>5. \E g \in [SUBSET (1 .. n) -> X] : Rec(g)
  <2> DEFINE step == [z \in X \X (1 .. n) |-> op(z[1], z[2])]
  <2>1. step \in [X \X (1 .. n) -> X]
    BY <1>4
  <2>2. \A x \in X, i \in 1 .. n : step[<<x, i>>] = op(x, i)
    OBVIOUS
  <2> HIDE DEF step, op, n
  <2>3. PICK g \in [SUBSET (1 .. n) -> X] : IsFold(g, n, base, step)
    BY <2>1, <1>3, <1>1, FoldExists
  <2>4. ASSUME NEW s \in SUBSET (1 .. n), s # {}
        PROVE  step[<<g[s \ {Max(s)}], Max(s)>>] = op(g[s \ {Max(s)}], Max(s))
    <3>1. Max(s) \in 1 .. n /\ g[s \ {Max(s)}] \in X
      BY <1>1, <2>4, MaxInside
    <3>2. QED
      BY <3>1, <2>2
  <2>5. \A s \in SUBSET (1 .. n) : g[s] = IF s = {} THEN base ELSE op(g[s \ {Max(s)}], Max(s))
    BY <2>3, <2>4 DEF IsFold
  <2>6. QED
    BY <2>5
<1> DEFINE g == CHOOSE f : Rec(f)
<1>6. MatchBatch(trade, timestamp, tx) = Closed(g[1 .. n], trade, tx)
  BY <1>1 DEF MatchBatch, FoldLeft, MapThenFoldSet, base, Closed
<1>7. Rec(g)
  BY <1>5
<1> HIDE DEF g
<1>8. ASSUME NEW k \in 0 .. n - 1 PROVE g[1 .. k + 1] = op(g[1 .. k], k + 1)
  <2>1. 1 .. k + 1 \in SUBSET (1 .. n) /\ k + 1 \in 1 .. k + 1 /\ k + 1 \in 1 .. n
    BY <1>1
  <2>2. Max(1 .. k + 1) = k + 1
    BY <2>1, MaxIsLast
  <2>3. (1 .. k + 1) \ {k + 1} = 1 .. k
    OBVIOUS
  <2>4. QED
    BY <1>7, <2>1, <2>2, <2>3
<1>9. g[1 .. 0] = base
  BY <1>7
<1>10. ASSUME NEW m \in 0 .. n PROVE g[1 .. m] \in X
  <2> DEFINE G == {k \in 0 .. m : g[1 .. k] \in X}
  <2>1. 0 \in G
    BY <1>3, <1>9, <1>1
  <2>2. ASSUME NEW k \in 0 .. m - 1, k \in G PROVE k + 1 \in G
    <3>1. k \in 0 .. n - 1 /\ k + 1 \in 1 .. n /\ k + 1 \in 0 .. m /\ g[1 .. k] \in X
      BY <1>1, <2>2
    <3>2. QED
      BY <3>1, <1>4, <1>8
  <2> HIDE DEF G
  <2>3. m \in G
    BY <2>1, <2>2, <1>1, UpTo
  <2>4. QED
    BY <2>3 DEF G
<1> DEFINE c == [k \in 0 .. n |-> g[1 .. k]]
<1>11. c \in [0 .. n -> X] /\ c[0] = base /\ c[n] = g[1 .. n]
  <2>1. 0 \in 0 .. n /\ n \in 0 .. n
    BY <1>1
  <2>2. QED
    BY <2>1, <1>9, <1>10
<1>12. \A k \in 0 .. n - 1 : c[k + 1] = op(c[k], k + 1)
  <2>1. \A k \in 0 .. n - 1 : k \in 0 .. n /\ k + 1 \in 0 .. n
    BY <1>1
  <2> HIDE DEF op
  <2>2. QED
    BY <2>1, <1>8
<1>13. base.filled = filledAmounts
  BY DEF base
<1> HIDE DEF c
<1>14. BatchRun(c, D, takers, trade, timestamp, tx)
  BY <1>6, <1>11, <1>12, <1>13 DEF BatchRun, X
<1>15. QED
  BY <1>14

LEMMA MatchBatchGood ==
  ASSUME NEW D \in SUBSET Tickets, NEW takers, ExchangeGood(D, takers, filledAmounts, wallet, logs),
         NEW trade, trade.taker \in D, trade.taker \in takers, trade.amount \in Nat,
         trade.fills \in Seq(FillRow(D)),
         NEW timestamp, NEW tx \in Nat, MatchBatch(trade, timestamp, tx).ok
  PROVE  LET x == MatchBatch(trade, timestamp, tx) IN
         /\ ExchangeGood(D, takers, x.filled, x.wallet, logs \o x.logs)
         /\ x.logs \in Seq(LogRow(D)) /\ \A i \in DOMAIN x.logs : x.logs[i].tx = tx
         /\ \A h \in Tickets : filledAmounts[h] <= x.filled[h]
<1> DEFINE n == Len(trade.fills)
           X == BatchStates(D, tx, takers, filledAmounts, logs)
<1>1. PICK c : BatchRun(c, D, takers, trade, timestamp, tx)
  BY MatchSteps
<1>2. logs \in Seq(LogRow(D))
  BY DEF ExchangeGood
<1> DEFINE x == c[n]
           a == [event |-> "OrderFilled", tx |-> tx, order |-> trade.taker,
                 total |-> x.filled[trade.taker], usdc |-> x.usdc]
           b == [event |-> "OrdersMatched", tx |-> tx, order |-> trade.taker,
                 total |-> trade.amount, usdc |-> x.usdc]
<1>3. MatchBatch(trade, timestamp, tx) = [x EXCEPT !.logs = @ \o <<a, b>>]
  BY <1>1 DEF BatchRun, Closed
<1>4. x \in X
  <2>1. n \in 0 .. n
    OBVIOUS
  <2>2. QED
    BY <2>1, <1>1 DEF BatchRun
<1> HIDE DEF x, n, X
<1>5. DOMAIN x = {"ok", "filled", "wallet", "usdc", "logs"}
  BY <1>4 DEF X, BatchStates, BatchRecord
<1> DEFINE y == MatchBatch(trade, timestamp, tx)
<1>6. y.ok = x.ok /\ y.filled = x.filled /\ y.wallet = x.wallet /\ y.logs = x.logs \o <<a, b>>
  BY <1>3, <1>5
<1>7. /\ ExchangeGood(D, takers, x.filled, x.wallet, logs \o x.logs)
       /\ x.logs \in Seq(LogRow(D)) /\ x.usdc \in Nat
       /\ \A h \in Tickets : filledAmounts[h] <= x.filled[h]
  BY <1>4, <1>6 DEF X, BatchStates
<1>8. a \in LogRow(D) /\ b \in LogRow(D) /\ x.filled[trade.taker] \in Nat
  <2>1. x.filled[trade.taker] \in Nat
    BY <1>7 DEF ExchangeGood
  <2>2. QED
    BY <2>1, <1>7 DEF LogRow
<1>9. a.order \in takers /\ a.total <= x.filled[a.order] /\ b.event = "OrdersMatched"
  BY <1>8
<1> HIDE DEF a, b, y
<1>10. logs \o y.logs = Append(Append(logs \o x.logs, a), b) /\ y.logs \in Seq(LogRow(D))
  <2> DEFINE ls == logs \o x.logs
             l == x.logs
  <2>1. ls \in Seq(LogRow(D)) /\ l \in Seq(LogRow(D))
    BY <1>2, <1>7, ConcatProperties
  <2>2. Append(l, a) \in Seq(LogRow(D)) /\ Append(Append(l, a), b) \in Seq(LogRow(D))
    BY <2>1, <1>8, AppendProperties
  <2>3. logs \o Append(l, a) = Append(ls, a)
    <3> DEFINE S == LogRow(D)
    <3>1. logs \in Seq(S) /\ l \in Seq(S) /\ a \in S
      BY <1>2, <2>1, <1>8
    <3> HIDE DEF l, S
    <3>2. logs \o Append(l, a) = Append(logs \o l, a)
      BY <3>1, ConcatAppend
    <3>3. QED
      BY <3>2 DEF l
  <2>4. logs \o Append(Append(l, a), b) = Append(logs \o Append(l, a), b)
    <3> DEFINE m == Append(l, a)
           S == LogRow(D)
    <3>1. logs \in Seq(S) /\ m \in Seq(S) /\ b \in S
      BY <1>2, <2>2, <1>8
    <3> HIDE DEF m, S
    <3>2. logs \o Append(m, b) = Append(logs \o m, b)
      BY <3>1, ConcatAppend
    <3>3. QED
      BY <3>2 DEF m
  <2>5. l \o <<a, b>> = Append(Append(l, a), b)
    <3> HIDE DEF l
    <3>1. QED
      BY <2>1, <1>8
  <2>6. y.logs = l \o <<a, b>>
    BY <1>6
  <2>7. logs \o y.logs = logs \o Append(Append(l, a), b)
    BY <2>5, <2>6
  <2> HIDE DEF ls, l
  <2>8. logs \o y.logs = Append(Append(ls, a), b) /\ y.logs \in Seq(LogRow(D))
    BY <2>2, <2>3, <2>4, <2>5, <2>6, <2>7
  <2>9. QED
    BY <2>8 DEF ls
<1>11. ExchangeGood(D, takers, y.filled, y.wallet, logs \o y.logs)
  <2> DEFINE ls == logs \o x.logs
             fs == x.filled
             w == x.wallet
  <2>1. ExchangeGood(D, takers, fs, w, ls)
    BY <1>7
  <2>2. a.total <= fs[a.order]
    BY <1>9
  <2> HIDE DEF ls, fs, w
  <2>3. ExchangeGood(D, takers, fs, w, Append(Append(ls, a), b))
    BY <1>8, <1>9, <2>1, <2>2, BatchEventsGood
  <2>4. QED
    BY <1>6, <1>10, <2>3 DEF ls, fs, w
<1>12. \A i \in DOMAIN y.logs : y.logs[i].tx = tx
  <2> DEFINE R == AnyLog(D, tx)
             l == x.logs
  <2>1. l \in Seq(R) /\ \A r \in R : r.tx = tx
    BY <1>4 DEF X, BatchStates, BatchRecord, AnyLog
  <2>2. y.logs = l \o <<a, b>> /\ a.tx = tx /\ b.tx = tx
    BY <1>6 DEF a, b
  <2> HIDE DEF R, l
  <2>3. ASSUME NEW i \in DOMAIN (l \o <<a, b>>)
        PROVE  (l \o <<a, b>>)[i] \in {a, b} \/ (i \in DOMAIN l /\ (l \o <<a, b>>)[i] = l[i])
    BY <2>1, EitherPart
  <2>4. QED
    BY <2>1, <2>2, <2>3
<1>13. QED
  BY <1>6, <1>7, <1>10, <1>11, <1>12 DEF y

-----------------------------------------------------------------------------
(* What a batch fills of each order is its part of the trade. *)

LEMMA BatchFills ==
  ASSUME NEW D \in SUBSET Tickets, NEW takers, ExchangeGood(D, takers, filledAmounts, wallet, logs),
         NEW trade, trade.taker \in D, trade.taker \in takers, trade.amount \in Nat,
         trade.fills \in Seq(FillRow(D)), MadeByMatch(trade),
         NEW timestamp, NEW tx \in Nat
  PROVE  \A h \in Tickets :
           MatchBatch(trade, timestamp, tx).filled[h] = filledAmounts[h] + AmountIn(trade, h)
<1> SUFFICES ASSUME NEW h \in Tickets
             PROVE  MatchBatch(trade, timestamp, tx).filled[h] = filledAmounts[h] + AmountIn(trade, h)
  OBVIOUS
<1> DEFINE fills == trade.fills
           n == Len(fills)
           X == BatchStates(D, tx, takers, filledAmounts, logs)
           up(k) == PartUpTo(trade, h, k)
<1>1. PICK c : BatchRun(c, D, takers, trade, timestamp, tx)
  BY MatchSteps
<1>2. n \in Nat /\ DOMAIN fills = 1 .. n /\ filledAmounts[h] \in Nat
  BY DEF ExchangeGood
<1>3. /\ \A k \in 0 .. n : c[k] \in X
      /\ c[0].filled = filledAmounts
      /\ \A k \in 0 .. n - 1 :
           c[k + 1] = MatchMakerOrder(c[k], trade.taker, fills[k + 1], timestamp, tx)
      /\ MatchBatch(trade, timestamp, tx) = Closed(c[n], trade, tx)
  BY <1>1 DEF BatchRun
<1>4. /\ \A k \in 0 .. n : up(k) \in Nat
      /\ up(0) = 0 /\ AmountIn(trade, h) = up(n)
      /\ \A k \in 0 .. n - 1 :
           up(k + 1) = up(k) + (IF h \in {trade.taker, fills[k + 1].maker} THEN fills[k + 1].amount ELSE 0)
  <2>1. Grows(trade, h)
    BY PartGrows
  <2>2. QED
    BY <2>1 DEF Grows
<1> HIDE DEF up
<1>5. \A x \in X : /\ x.filled \in [Tickets -> Int]
                   /\ x = [ok |-> x.ok, filled |-> x.filled, wallet |-> x.wallet, usdc |-> x.usdc,
                           logs |-> x.logs]
  BY DEF BatchStates, BatchRecord
<1>6. ASSUME NEW k \in 0 .. n - 1
      PROVE  c[k + 1].filled[h] = c[k].filled[h] + (IF h \in {trade.taker, fills[k + 1].maker}
                                                    THEN fills[k + 1].amount ELSE 0)
  <2> DEFINE fill == fills[k + 1]
             before == c[k].filled
             taker == trade.taker
             m == fill.maker
             a == fill.amount
  <2>1. k \in 0 .. n /\ k + 1 \in 1 .. n
    BY <1>2
  <2>2. before \in [Tickets -> Int]
    BY <2>1, <1>5, <1>3
  <2>3. fill \in FillRow(D) /\ m # taker
    BY <2>1, <1>2 DEF MadeByMatch
  <2>4. m \in Tickets /\ taker \in Tickets /\ a \in Nat
    BY <2>3 DEF FillRow
  <2>5. c[k + 1].filled = [[before EXCEPT ![taker] = @ + a] EXCEPT ![m] = @ + a]
    <3> DEFINE x == c[k]
    <3>1. c[k + 1] = MatchMakerOrder(x, taker, fill, timestamp, tx)
      BY <1>3
    <3> HIDE DEF x, fill, taker
    <3>2. MatchMakerOrder(x, taker, fill, timestamp, tx).filled
            = [[x.filled EXCEPT ![taker] = @ + fill.amount] EXCEPT ![fill.maker] = @ + fill.amount]
      BY DEF MatchMakerOrder
    <3>3. QED
      BY <3>1, <3>2 DEF x
  <2> HIDE DEF before, fill, taker, m, a
  <2>6. c[k + 1].filled[h] = before[h] + (IF h \in {taker, m} THEN a ELSE 0)
    BY <2>2, <2>3, <2>4, <2>5
  <2>7. QED
    BY <2>6 DEF before, fill, taker, m, a
<1>7. c[n].filled[h] = filledAmounts[h] + up(n)
  <2> DEFINE G == {k \in 0 .. n : c[k].filled[h] = filledAmounts[h] + up(k)}
  <2>1. 0 \in G
    BY <1>3, <1>2, <1>4
  <2>2. ASSUME NEW k \in 0 .. n - 1, k \in G PROVE k + 1 \in G
    <3> DEFINE more == IF h \in {trade.taker, fills[k + 1].maker} THEN fills[k + 1].amount ELSE 0
    <3>1. k \in 0 .. n /\ k + 1 \in 0 .. n /\ k + 1 \in 1 .. n
      BY <1>2
    <3>2. fills[k + 1] \in FillRow(D)
      BY <3>1, <1>2
    <3>3. more \in Nat
      BY <3>2 DEF FillRow
    <3>4. c[k].filled[h] = filledAmounts[h] + up(k)
      BY <2>2
    <3>5. c[k + 1].filled[h] = filledAmounts[h] + up(k + 1)
      <4>1. c[k + 1].filled[h] = c[k].filled[h] + more
        BY <1>6
      <4>2. up(k + 1) = up(k) + more
        BY <1>4
      <4>3. up(k) \in Nat
        BY <3>1, <1>4
      <4> HIDE DEF more
      <4>4. QED
        BY <4>1, <4>2, <4>3, <3>3, <3>4, <1>2
    <3>6. QED
      BY <3>1, <3>5
  <2> HIDE DEF G
  <2>3. n \in G
    BY <2>1, <2>2, <1>2, UpTo
  <2>4. QED
    BY <2>3 DEF G
<1>8. MatchBatch(trade, timestamp, tx).filled = c[n].filled
  <2>1. c[n] \in X
    BY <1>2, <1>3
  <2> DEFINE x == c[n]
  <2>2. x = [ok |-> x.ok, filled |-> x.filled, wallet |-> x.wallet, usdc |-> x.usdc, logs |-> x.logs]
    BY <2>1, <1>5
  <2> HIDE DEF x
  <2>3. Closed(x, trade, tx).filled = x.filled
    BY <2>2 DEF Closed
  <2>4. QED
    BY <2>3, <1>3 DEF x
<1>9. QED
  BY <1>4, <1>7, <1>8

-----------------------------------------------------------------------------
(* What a state of the system keeps: the tables, what the loops carry, the   *)
(* chain, and the indexer's way through its events.                          *)

TradeRow(D) ==
  [taker : D, fills : Seq(FillRow(D)), book : Books, amount : Nat \ {0}, usdc : Nat \ {0},
   status : TradeStatus, tx : Nat]
AttemptRow(T) == [trade : T, status : SettlementAttemptStatus, tx : Nat]

TablesInv ==
  /\ OrdersInv(orders) /\ reservations \in ReservationTables
  /\ trades \in Seq(TradeRow(DOMAIN orders))
  /\ attempts \in Seq(AttemptRow(TradeIds))
  /\ sent \in Seq(TradeIds)
  /\ \A t \in TradeIds : trades[t].tx <= Len(sent)

(* Copies of orders, as the cleanups read them. *)
Copies == {<<>>} \cup UNION {[S -> OrderRow] : S \in SUBSET Tickets}

ExecutorPc == {"idle", "begin", "attempt", "submit", "recordAttempt", "recordTrade", "failed",
               "retrying", "cleanup", "release"}
ExecutorRow(T) ==
  [pc : ExecutorPc, batch : SUBSET T, trade : Nat, left : Int, before : Nat, attempt : Nat,
   tx : Nat, seen : Copies]
ExecutorInv ==
  /\ executor \in ExecutorRow(TradeIds)
  /\ executor.pc \notin {"idle", "begin"} => executor.trade \in TradeIds
  /\ executor.pc = "release" => executor.seen \in [OrdersOf(executor.trade) -> OrderRow]
  /\ executor.tx <= Len(sent)

SweepRow(A) == [todo : SUBSET A, verdict : {"none", "DROPPED", "REVERTED"}, seen : Copies]
SweepInv ==
  /\ sweep \in SweepRow(DOMAIN attempts)
  /\ sweep.verdict # "none" => sweep.todo # {}
  /\ sweep.seen # <<>> =>
       sweep.verdict # "none" /\ sweep.seen \in [OrdersOf(attempts[Swept].trade) -> OrderRow]

ChainInv ==
  /\ mempool \subseteq DOMAIN sent /\ DOMAIN receipts \subseteq DOMAIN sent
  /\ blocks \in Seq(Nat)
  /\ \A b \in DOMAIN blocks : blocks[b] <= Len(logs)

Takers == {trades[t].taker : t \in TradeIds}
ContractInv == ExchangeGood(DOMAIN orders, Takers, filledAmounts, wallet, logs)

(* The events the indexer has passed are processed; where it goes, and where  *)
(* its cursor stands, there are blocks.                                      *)
IndexInv ==
  /\ cursor # {} /\ cursor \subseteq 0 .. Len(blocks)
  /\ processed \subseteq DOMAIN logs
  /\ \A c \in cursor : 1 .. LogsUpTo(c) \subseteq processed
  /\ indexer = IdleIndexer
     \/ /\ indexer \in [to : 1 .. Len(blocks), next : Nat \ {0}]
        /\ 1 .. indexer.next - 1 \subseteq processed

IInv == TablesInv /\ ExecutorInv /\ SweepInv /\ ChainInv /\ ContractInv /\ IndexInv

LEMMA OrdersOfInside ==
  ASSUME TablesInv, NEW t \in TradeIds
  PROVE  /\ trades[t] \in TradeRow(DOMAIN orders)
         /\ OrdersOf(t) \subseteq DOMAIN orders
         /\ [h \in OrdersOf(t) |-> orders[h]] \in [OrdersOf(t) -> OrderRow]
         /\ [h \in OrdersOf(t) |-> orders[h]] \in Copies
<1>1. trades[t] \in TradeRow(DOMAIN orders)
  BY DEF TablesInv, TradeIds
<1>2. /\ trades[t].taker \in DOMAIN orders
      /\ \A i \in DOMAIN trades[t].fills : trades[t].fills[i] \in FillRow(DOMAIN orders)
  BY <1>1 DEF TradeRow
<1>3. OrdersOf(t) \subseteq DOMAIN orders
  BY <1>2 DEF OrdersOf, FillRow
<1>4. [h \in OrdersOf(t) |-> orders[h]] \in [OrdersOf(t) -> OrderRow]
  BY <1>3 DEF TablesInv, OrdersInv
<1>5. OrdersOf(t) \in SUBSET Tickets
  BY <1>3 DEF TablesInv, OrdersInv
<1>6. QED
  BY <1>1, <1>3, <1>4, <1>5 DEF Copies

-----------------------------------------------------------------------------
(* Which actions write which variables.                                      *)
WritesOrders ==
  \/ ReleaseFailedTrade \/ FinalizeSwept \/ ApplyLog \/ (\E h \in Cancellable : CancelOrder(h))
WritesTrades ==
  \/ (\E stale \in SUBSET TradeIds : ResetStaleExecutingTrades(stale)) \/ ClaimExecutableTrades
  \/ RecordTrade \/ MarkTradeRetrying \/ ReleaseFailedTrade \/ MarkAttempt \/ FinalizeSwept
  \/ ApplyLog
WritesAttempts ==
  \/ CreateAttempt \/ RecordAttempt \/ MarkAttemptFailed \/ MarkAttempt \/ FinalizeSwept
  \/ ApplyLog
WritesSent ==
  \/ SubmitMatchOrders \/ SubmitUnanswered
WritesChain ==
  \/ SubmitMatchOrders \/ (\E tx \in mempool : Mine(tx)) \/ SubmitUnanswered
  \/ (\E tx \in mempool : LoseTransaction(tx))
WritesExchange ==
  \/ (\E tx \in mempool : Mine(tx)) \/ AssetsMove
WritesIndex ==
  \/ StartIndexing \/ ApplyLog \/ IndexingFails \/ AdvanceCursor \/ Restart
WritesExecutor ==
  \/ ClaimExecutableTrades \/ (\E t \in executor.batch : BeginTrade(t)) \/ CreateAttempt
  \/ SubmitMatchOrders \/ RecordAttempt \/ RecordTrade \/ MarkAttemptFailed \/ MarkTradeRetrying
  \/ ReadFailedTrade \/ ReleaseFailedTrade \/ SubmitUnanswered \/ RecordFails \/ Restart
WritesSweep ==
  \/ StartSweep \/ ReadReceipt \/ MarkAttempt \/ FinalizeSwept \/ Restart
Writers ==
  /\ UNCHANGED <<orders, reservations, givenUp>> \/ WritesOrders
  /\ UNCHANGED trades \/ WritesTrades
  /\ UNCHANGED attempts \/ WritesAttempts
  /\ UNCHANGED sent \/ WritesSent
  /\ UNCHANGED <<mempool, receipts, blocks>> \/ WritesChain
  /\ UNCHANGED <<filledAmounts, wallet, logs>> \/ WritesExchange
  /\ UNCHANGED <<cursor, processed, indexer>> \/ WritesIndex
  /\ UNCHANGED executor \/ WritesExecutor
  /\ UNCHANGED sweep \/ WritesSweep

LEMMA NextWriters ==
  ASSUME [Next]_vars
  PROVE  Writers
<1>1. CASE \E stale \in SUBSET TradeIds : ResetStaleExecutingTrades(stale)
  <2>1. UNCHANGED <<orders, reservations, givenUp, attempts, sent, mempool, receipts, blocks,
                    filledAmounts, wallet, logs, cursor, processed, indexer, executor, sweep>>
    BY <1>1 DEF ResetStaleExecutingTrades, ledgerVars, exchangeVars, chainVars, indexVars, auxVars
  <2>2. QED
    BY <1>1, <2>1 DEF Writers, WritesTrades
<1>2. CASE ClaimExecutableTrades
  <2>1. UNCHANGED <<orders, reservations, givenUp, attempts, sent, mempool, receipts, blocks,
                    filledAmounts, wallet, logs, cursor, processed, indexer, sweep>>
    BY <1>2 DEF ClaimExecutableTrades, ledgerVars, exchangeVars, chainVars, indexVars, auxVars
  <2>2. QED
    BY <1>2, <2>1 DEF Writers, WritesTrades, WritesExecutor
<1>3. CASE \E t \in executor.batch : BeginTrade(t)
  <2>1. UNCHANGED <<orders, reservations, givenUp, trades, attempts, sent, mempool, receipts, blocks,
                    filledAmounts, wallet, logs, cursor, processed, indexer, sweep>>
    BY <1>3 DEF BeginTrade, ledgerVars, exchangeVars, chainVars, indexVars, auxVars
  <2>2. QED
    BY <1>3, <2>1 DEF Writers, WritesExecutor
<1>4. CASE CreateAttempt
  <2>1. UNCHANGED <<orders, reservations, givenUp, trades, sent, mempool, receipts, blocks, filledAmounts,
                    wallet, logs, cursor, processed, indexer, sweep>>
    BY <1>4 DEF CreateAttempt, ledgerVars, exchangeVars, chainVars, indexVars, auxVars
  <2>2. QED
    BY <1>4, <2>1 DEF Writers, WritesAttempts, WritesExecutor
<1>5. CASE SubmitMatchOrders
  <2>1. UNCHANGED <<orders, reservations, givenUp, trades, attempts, filledAmounts, wallet, logs, cursor,
                    processed, indexer, sweep>>
    BY <1>5 DEF SubmitMatchOrders, Broadcast, ledgerVars, exchangeVars, chainVars, indexVars,
       auxVars
  <2>2. QED
    BY <1>5, <2>1 DEF Writers, WritesSent, WritesChain, WritesExecutor
<1>6. CASE RecordAttempt
  <2>1. UNCHANGED <<orders, reservations, givenUp, trades, sent, mempool, receipts, blocks, filledAmounts,
                    wallet, logs, cursor, processed, indexer, sweep>>
    BY <1>6 DEF RecordAttempt, ledgerVars, exchangeVars, chainVars, indexVars, auxVars
  <2>2. QED
    BY <1>6, <2>1 DEF Writers, WritesAttempts, WritesExecutor
<1>7. CASE RecordTrade
  <2>1. UNCHANGED <<orders, reservations, givenUp, attempts, sent, mempool, receipts, blocks,
                    filledAmounts, wallet, logs, cursor, processed, indexer, sweep>>
    BY <1>7 DEF RecordTrade, ledgerVars, exchangeVars, chainVars, indexVars, auxVars
  <2>2. QED
    BY <1>7, <2>1 DEF Writers, WritesTrades, WritesExecutor
<1>8. CASE MarkAttemptFailed
  <2>1. UNCHANGED <<orders, reservations, givenUp, trades, sent, mempool, receipts, blocks, filledAmounts,
                    wallet, logs, cursor, processed, indexer, sweep>>
    BY <1>8 DEF MarkAttemptFailed, ledgerVars, exchangeVars, chainVars, indexVars, auxVars
  <2>2. QED
    BY <1>8, <2>1 DEF Writers, WritesAttempts, WritesExecutor
<1>9. CASE MarkTradeRetrying
  <2>1. UNCHANGED <<orders, reservations, givenUp, attempts, sent, mempool, receipts, blocks,
                    filledAmounts, wallet, logs, cursor, processed, indexer, sweep>>
    BY <1>9 DEF MarkTradeRetrying, ledgerVars, exchangeVars, chainVars, indexVars, auxVars
  <2>2. QED
    BY <1>9, <2>1 DEF Writers, WritesTrades, WritesExecutor
<1>10. CASE ReadFailedTrade
  <2>1. UNCHANGED <<orders, reservations, givenUp, trades, attempts, sent, mempool, receipts, blocks,
                    filledAmounts, wallet, logs, cursor, processed, indexer, sweep>>
    BY <1>10 DEF ReadFailedTrade, ledgerVars, exchangeVars, chainVars, indexVars, auxVars
  <2>2. QED
    BY <1>10, <2>1 DEF Writers, WritesExecutor
<1>11. CASE ReleaseFailedTrade
  <2>1. UNCHANGED <<attempts, sent, mempool, receipts, blocks, filledAmounts, wallet, logs,
                    cursor, processed, indexer, sweep>>
    BY <1>11 DEF ReleaseFailedTrade, ledgerVars, exchangeVars, chainVars, indexVars, auxVars
  <2>2. QED
    BY <1>11, <2>1 DEF Writers, WritesOrders, WritesTrades, WritesExecutor
<1>12. CASE StartSweep
  <2>1. UNCHANGED <<orders, reservations, givenUp, trades, attempts, sent, mempool, receipts, blocks,
                    filledAmounts, wallet, logs, cursor, processed, indexer, executor>>
    BY <1>12 DEF StartSweep, ledgerVars, exchangeVars, chainVars, indexVars, auxVars
  <2>2. QED
    BY <1>12, <2>1 DEF Writers, WritesSweep
<1>13. CASE ReadReceipt
  <2>1. UNCHANGED <<orders, reservations, givenUp, trades, attempts, sent, mempool, receipts, blocks,
                    filledAmounts, wallet, logs, cursor, processed, indexer, executor>>
    BY <1>13 DEF ReadReceipt, ledgerVars, exchangeVars, chainVars, indexVars, auxVars
  <2>2. QED
    BY <1>13, <2>1 DEF Writers, WritesSweep
<1>14. CASE MarkAttempt
  <2>1. UNCHANGED <<orders, reservations, givenUp, sent, mempool, receipts, blocks, filledAmounts, wallet,
                    logs, cursor, processed, indexer, executor>>
    BY <1>14 DEF MarkAttempt, ledgerVars, exchangeVars, chainVars, indexVars, auxVars
  <2>2. QED
    BY <1>14, <2>1 DEF Writers, WritesTrades, WritesAttempts, WritesSweep
<1>15. CASE FinalizeSwept
  <2>1. UNCHANGED <<sent, mempool, receipts, blocks, filledAmounts, wallet, logs, cursor,
                    processed, indexer, executor>>
    BY <1>15 DEF FinalizeSwept, ledgerVars, exchangeVars, chainVars, indexVars, auxVars
  <2>2. QED
    BY <1>15, <2>1 DEF Writers, WritesOrders, WritesTrades, WritesAttempts, WritesSweep
<1>16. CASE StartIndexing
  <2>1. UNCHANGED <<orders, reservations, givenUp, trades, attempts, sent, mempool, receipts, blocks,
                    filledAmounts, wallet, logs, executor, sweep>>
    BY <1>16 DEF StartIndexing, ledgerVars, exchangeVars, chainVars, indexVars, auxVars
  <2>2. QED
    BY <1>16, <2>1 DEF Writers, WritesIndex
<1>17. CASE ApplyLog
  <2>1. UNCHANGED <<sent, mempool, receipts, blocks, filledAmounts, wallet, logs, executor,
                    sweep>>
    BY <1>17 DEF ApplyLog, ledgerVars, exchangeVars, chainVars, indexVars, auxVars
  <2>2. QED
    BY <1>17, <2>1 DEF Writers, WritesOrders, WritesTrades, WritesAttempts, WritesIndex
<1>18. CASE IndexingFails
  <2>1. UNCHANGED <<orders, reservations, givenUp, trades, attempts, sent, mempool, receipts, blocks,
                    filledAmounts, wallet, logs, executor, sweep>>
    BY <1>18 DEF IndexingFails, ledgerVars, exchangeVars, chainVars, indexVars, auxVars
  <2>2. QED
    BY <1>18, <2>1 DEF Writers, WritesIndex
<1>19. CASE AdvanceCursor
  <2>1. UNCHANGED <<orders, reservations, givenUp, trades, attempts, sent, mempool, receipts, blocks,
                    filledAmounts, wallet, logs, executor, sweep>>
    BY <1>19 DEF AdvanceCursor, ledgerVars, exchangeVars, chainVars, indexVars, auxVars
  <2>2. QED
    BY <1>19, <2>1 DEF Writers, WritesIndex
<1>20. CASE \E tx \in mempool : Mine(tx)
  <2>1. UNCHANGED <<orders, reservations, givenUp, trades, attempts, sent, cursor, processed, indexer,
                    executor, sweep>>
    BY <1>20 DEF Mine, Include, ledgerVars, exchangeVars, chainVars, indexVars, auxVars
  <2>2. QED
    BY <1>20, <2>1 DEF Writers, WritesChain, WritesExchange
<1>21. CASE SubmitUnanswered
  <2>1. UNCHANGED <<orders, reservations, givenUp, trades, attempts, filledAmounts, wallet, logs, cursor,
                    processed, indexer, sweep>>
    BY <1>21 DEF SubmitUnanswered, Broadcast, ledgerVars, exchangeVars, chainVars, indexVars,
       auxVars
  <2>2. QED
    BY <1>21, <2>1 DEF Writers, WritesSent, WritesChain, WritesExecutor
<1>22. CASE RecordFails
  <2>1. UNCHANGED <<orders, reservations, givenUp, trades, attempts, sent, mempool, receipts, blocks,
                    filledAmounts, wallet, logs, cursor, processed, indexer, sweep>>
    BY <1>22 DEF RecordFails, ledgerVars, exchangeVars, chainVars, indexVars, auxVars
  <2>2. QED
    BY <1>22, <2>1 DEF Writers, WritesExecutor
<1>23. CASE Restart
  <2>1. UNCHANGED <<orders, reservations, givenUp, trades, attempts, sent, mempool, receipts, blocks,
                    filledAmounts, wallet, logs>>
    BY <1>23 DEF Restart, ledgerVars, exchangeVars, chainVars, indexVars, auxVars
  <2>2. QED
    BY <1>23, <2>1 DEF Writers, WritesIndex, WritesExecutor, WritesSweep
<1>24. CASE AssetsMove
  <2>1. UNCHANGED <<orders, reservations, givenUp, trades, attempts, sent, mempool, receipts, blocks,
                    cursor, processed, indexer, executor, sweep>>
    BY <1>24 DEF AssetsMove, ledgerVars, exchangeVars, chainVars, indexVars, auxVars
  <2>2. QED
    BY <1>24, <2>1 DEF Writers, WritesExchange
<1>25. CASE Tick
  <2>1. UNCHANGED <<orders, reservations, givenUp, trades, attempts, sent, mempool, receipts, blocks,
                    filledAmounts, wallet, logs, cursor, processed, indexer, executor, sweep>>
    BY <1>25 DEF Tick, ledgerVars, exchangeVars, chainVars, indexVars, auxVars
  <2>2. QED
    BY <1>25, <2>1 DEF Writers
<1>26. CASE \E tx \in mempool : LoseTransaction(tx)
  <2>1. UNCHANGED <<orders, reservations, givenUp, trades, attempts, sent, filledAmounts, wallet, logs,
                    cursor, processed, indexer, executor, sweep>>
    BY <1>26 DEF LoseTransaction, ledgerVars, exchangeVars, chainVars, indexVars, auxVars
  <2>2. QED
    BY <1>26, <2>1 DEF Writers, WritesChain
<1>27. CASE \E h \in Cancellable : CancelOrder(h)
  <2>1. UNCHANGED <<trades, attempts, sent, mempool, receipts, blocks, filledAmounts, wallet,
                    logs, cursor, processed, indexer, executor, sweep>>
    BY <1>27 DEF CancelOrder, ledgerVars, exchangeVars, chainVars, indexVars, auxVars
  <2>2. QED
    BY <1>27, <2>1 DEF Writers, WritesOrders
<1>28. CASE UNCHANGED vars
  BY <1>28 DEF Writers, vars, ledgerVars, exchangeVars, chainVars, indexVars, auxVars
<1>29. QED
  BY <1>1, <1>2, <1>3, <1>4, <1>5, <1>6, <1>7, <1>8, <1>9, <1>10, <1>11, <1>12, <1>13, <1>14,
     <1>15, <1>16, <1>17, <1>18, <1>19, <1>20, <1>21, <1>22, <1>23, <1>24, <1>25, <1>26, <1>27,
     <1>28 DEF Next, Execute, Sweep, Index

-----------------------------------------------------------------------------
(* The tables from one state to the next.                                    *)

(* An event confirms what it says of an order beyond what was confirmed. *)
LEMMA ApplyOrderFilledKeeps ==
  ASSUME OrdersInv(orders), reservations \in ReservationTables, NEW log, log.order \in DOMAIN orders,
         log.total \in Nat, ApplyOrderFilled(log).ok
  PROVE  LET x == ApplyOrderFilled(log) IN
         /\ OrdersInv(x.orders) /\ DOMAIN x.orders = DOMAIN orders
         /\ x.reservations \in ReservationTables
         /\ Confirmed(x.orders[log.order]) = Larger(Confirmed(orders[log.order]), log.total)
         /\ log.total <= Confirmed(orders[log.order]) + orders[log.order].pending =>
              Confirmed(x.orders[log.order]) + x.orders[log.order].pending =
                Confirmed(orders[log.order]) + orders[log.order].pending
         /\ \A g \in DOMAIN orders \ {log.order} : x.orders[g] = orders[g]
<1> DEFINE x == ApplyOrderFilled(log)
           h == log.order
           delta == CalculateConfirmedFillDelta(orders[h], log.total)
           key == BuildOrderReservationKey(orders[h])
           release == ConfirmedFillRelease(orders[h], delta)
<1>1. orders[h] \in OrderRow /\ RowInv(orders[h])
  BY DEF OrdersInv
<1>2. Confirmed(orders[h]) \in Int /\ delta = Larger(0, log.total - Confirmed(orders[h]))
  BY <1>1 DEF Confirmed, OrderRow, CalculateConfirmedFillDelta
<1>3. CASE delta = 0
  <2>1. x = Tables
    BY <1>3 DEF ApplyOrderFilled
  <2>2. x.orders = orders /\ x.reservations = reservations
    BY <2>1 DEF Tables
  <2>3. Larger(Confirmed(orders[h]), log.total) = Confirmed(orders[h])
    BY <1>2, <1>3 DEF Larger
  <2>4. QED
    BY <2>2, <2>3
<1>4. CASE delta # 0
  <2>1. delta \in Nat /\ delta = log.total - Confirmed(orders[h])
        /\ Larger(Confirmed(orders[h]), log.total) = log.total
    BY <1>2, <1>4 DEF Larger
  <2>2. x = ConfirmFill(Tables, h, delta)
    BY <1>4 DEF ApplyOrderFilled
  <2> HIDE DEF x, delta
  <2>3. release \in Int
    <3>1. Confirmed(orders[h]) + delta \in Int
      BY <1>2, <2>1
    <3>2. BuyReservation(orders[h], Confirmed(orders[h])) \in Int
      BY <1>1, <1>2, BuyReservationInt DEF OrderRow
    <3>3. BuyReservation(orders[h], Confirmed(orders[h]) + delta) \in Int
      BY <1>1, <3>1, BuyReservationInt DEF OrderRow
    <3>4. orders[h].usdcAmount \in Int
      BY <1>1 DEF OrderRow
    <3>5. QED
      BY <1>1, <1>2, <2>1, <3>1, <3>2, <3>3, <3>4 DEF ConfirmedFillRelease, OrderRow
  <2>4. /\ x.ok
        /\ Tables.orders = orders /\ Tables.reservations = reservations
    BY DEF x, Tables
  <2>5. /\ CanDecreaseReservation(reservations, key, release) /\ CanConfirmFill(orders, h, delta)
        /\ x.orders = ConfirmOrderFill(orders, h, delta)
        /\ x.reservations = DecreaseReservation(reservations, key, release)
    BY <2>2, <2>4 DEF ConfirmFill, Tables
  <2>6. /\ OrdersInv(x.orders) /\ DOMAIN x.orders = DOMAIN orders
        /\ Confirmed(x.orders[h]) = Confirmed(orders[h]) + delta
        /\ delta <= orders[h].pending => x.orders[h].pending = orders[h].pending - delta
        /\ \A g \in DOMAIN orders \ {h} : x.orders[g] = orders[g]
    BY <2>1, <2>5, ConfirmKeepsRow
  <2>7. x.reservations \in ReservationTables
    BY <2>3, <2>5, DecreaseKeepsTable
  <2>8. Confirmed(orders[h]) + delta = log.total
    BY <1>2, <2>1
  <2>9. log.total <= Confirmed(orders[h]) + orders[h].pending =>
          Confirmed(x.orders[h]) + x.orders[h].pending = Confirmed(orders[h]) + orders[h].pending
    <3>1. orders[h].pending \in Nat
      BY <1>1 DEF OrderRow
    <3>2. QED
      BY <3>1, <1>2, <2>1, <2>6
  <2>10. QED
    BY <2>1, <2>6, <2>7, <2>8, <2>9 DEF x
<1>5. QED
  BY <1>3, <1>4

(* The log the indexer is at is one of the contract's. *)
LEMMA NextLog ==
  ASSUME IInv, Indexing
  PROVE  /\ indexer.next \in DOMAIN logs /\ indexer.next \in Nat
         /\ logs[indexer.next] \in LogRow(DOMAIN orders)
<1>1. /\ indexer \in [to : 1 .. Len(blocks), next : Nat \ {0}]
      /\ indexer.next <= LogsUpTo(indexer.to)
  BY DEF IInv, IndexInv, Indexing
<1>2. indexer.to \in DOMAIN blocks /\ indexer.to # 0 /\ LogsUpTo(indexer.to) = blocks[indexer.to]
  <2>1. Len(blocks) \in Nat /\ DOMAIN blocks = 1 .. Len(blocks)
    BY DEF IInv, ChainInv
  <2>2. QED
    BY <1>1, <2>1 DEF LogsUpTo
<1>3. logs \in Seq(LogRow(DOMAIN orders))
  BY DEF IInv, ContractInv, ExchangeGood
<1>4. blocks[indexer.to] <= Len(logs) /\ blocks[indexer.to] \in Nat
  BY <1>2 DEF IInv, ChainInv
<1>5. indexer.next \in 1 .. Len(logs) /\ DOMAIN logs = 1 .. Len(logs)
  BY <1>1, <1>2, <1>3, <1>4
<1>6. QED
  BY <1>3, <1>5

(* The attempt the sweep is at is in the table, and so is its trade. *)
LEMMA SweptInside ==
  ASSUME IInv, sweep.todo # {}
  PROVE  /\ Swept \in sweep.todo /\ Swept \in DOMAIN attempts
         /\ attempts[Swept] \in AttemptRow(TradeIds)
         /\ attempts[Swept].trade \in TradeIds
<1> DEFINE T == TradeIds
<1>1. attempts \in Seq(AttemptRow(T)) /\ sweep.todo \subseteq DOMAIN attempts
  BY DEF IInv, TablesInv, SweepInv, SweepRow
<1> HIDE DEF T
<1>2. \A a \in DOMAIN attempts : a \in Nat /\ attempts[a] \in AttemptRow(T)
  BY <1>1
<1>3. Swept \in sweep.todo
  BY <1>1, <1>2, MinInside DEF Swept
<1>4. attempts[Swept] \in AttemptRow(T)
  BY <1>1, <1>2, <1>3
<1>5. attempts[Swept].trade \in T
  BY <1>4 DEF AttemptRow
<1>6. QED
  BY <1>1, <1>3, <1>4, <1>5 DEF T

(* The one step that confirms something: a fill not applied before. *)
FillEvent ==
  ApplyLog /\ indexer.next \notin processed /\ logs[indexer.next].event = "OrderFilled"

(* A trade is given up with the cleanup of its orders. *)
GivesUp(t) ==
  /\ \E seen \in [OrdersOf(t) -> OrderRow] : CommitTables(Cleanup(t, seen))
  /\ givenUp' = Append(givenUp, t)

OrdersStep ==
  /\ OrdersInv(orders') /\ DOMAIN orders' = DOMAIN orders
  /\ reservations' \in ReservationTables
  /\ FillEvent \/ \A h \in DOMAIN orders : Confirmed(orders'[h]) = Confirmed(orders[h])
  /\ \/ \E t \in TradeIds : GivesUp(t)
     \/ /\ UNCHANGED givenUp
        /\ FillEvent \/ \A h \in DOMAIN orders : orders'[h].pending = orders[h].pending

LEMMA FillConfirms ==
  ASSUME IInv, FillEvent
  PROVE  LET log == logs[indexer.next] IN
         /\ log.order \in DOMAIN orders /\ log.total \in Nat
         /\ OrdersInv(orders') /\ DOMAIN orders' = DOMAIN orders
         /\ reservations' \in ReservationTables
         /\ Confirmed(orders'[log.order]) = Larger(Confirmed(orders[log.order]), log.total)
         /\ log.total <= Confirmed(orders[log.order]) + orders[log.order].pending =>
              Confirmed(orders'[log.order]) + orders'[log.order].pending =
                Confirmed(orders[log.order]) + orders[log.order].pending
         /\ \A g \in DOMAIN orders \ {log.order} : orders'[g] = orders[g]
<1> DEFINE log == logs[indexer.next]
           x == ApplyOrderFilled(log)
<1>1. Indexing /\ x.ok /\ orders' = x.orders /\ reservations' = x.reservations
  BY DEF FillEvent, ApplyLog, CommitTables
<1>2. log.order \in DOMAIN orders /\ log.total \in Nat
  BY <1>1, NextLog DEF LogRow
<1> HIDE DEF log
<1>3. /\ OrdersInv(x.orders) /\ DOMAIN x.orders = DOMAIN orders
      /\ x.reservations \in ReservationTables
      /\ Confirmed(x.orders[log.order]) = Larger(Confirmed(orders[log.order]), log.total)
      /\ log.total <= Confirmed(orders[log.order]) + orders[log.order].pending =>
           Confirmed(x.orders[log.order]) + x.orders[log.order].pending =
             Confirmed(orders[log.order]) + orders[log.order].pending
      /\ \A g \in DOMAIN orders \ {log.order} : x.orders[g] = orders[g]
  BY <1>1, <1>2, ApplyOrderFilledKeeps DEF IInv, TablesInv
<1> HIDE DEF x
<1>4. QED
  BY <1>1, <1>2, <1>3 DEF log

LEMMA CommittedCleanup ==
  ASSUME IInv, NEW t \in TradeIds, NEW seen, seen \in [OrdersOf(t) -> OrderRow],
         CommitTables(Cleanup(t, seen)), givenUp' = Append(givenUp, t)
  PROVE  OrdersStep
<1>1. trades[t] \in TradeRow(DOMAIN orders)
  BY OrdersOfInside DEF IInv
<1>2. Cleanup(t, seen) \in TablesAfter(orders)
  BY <1>1, CleanupKeeps DEF IInv, TablesInv, TradeRow
<1> DEFINE x == Cleanup(t, seen)
<1> HIDE DEF x
<1>3. /\ OrdersInv(x.orders) /\ x.orders \in [DOMAIN orders -> OrderRow]
      /\ x.reservations \in ReservationTables
      /\ \A h \in DOMAIN orders : Confirmed(x.orders[h]) = Confirmed(orders[h])
  BY <1>2 DEF TablesAfter, x
<1>4. orders' = x.orders /\ reservations' = x.reservations
  BY DEF CommitTables, x
<1>5. GivesUp(t)
  BY DEF GivesUp
<1>6. QED
  BY <1>3, <1>4, <1>5 DEF OrdersStep

LEMMA OrdersStay ==
  ASSUME IInv, [Next]_vars
  PROVE  OrdersStep
<1>1. CASE UNCHANGED <<orders, reservations, givenUp>>
  BY <1>1 DEF OrdersStep, IInv, TablesInv
<1>2. CASE ReleaseFailedTrade
  <2>1. executor.trade \in TradeIds /\ executor.seen \in [OrdersOf(executor.trade) -> OrderRow]
    BY <1>2 DEF ReleaseFailedTrade, IInv, ExecutorInv
  <2>2. CASE CommitTables(Cleanup(Current, executor.seen)) /\ givenUp' = Append(givenUp, Current)
    BY <2>1, <2>2, CommittedCleanup DEF Current
  <2>3. CASE UNCHANGED <<ledgerVars, givenUp>>
    BY <2>3, <1>1 DEF ledgerVars
  <2>4. QED
    BY <1>2, <2>2, <2>3 DEF ReleaseFailedTrade, FinalizeFailedTrade
<1>3. CASE FinalizeSwept
  <2> DEFINE t == attempts[Swept].trade
  <2>1. sweep.todo # {}
    BY <1>3 DEF FinalizeSwept, IInv, SweepInv
  <2>3. t \in TradeIds
    BY <2>1, SweptInside
  <2>4. sweep.seen \in [OrdersOf(t) -> OrderRow]
    BY <1>3 DEF FinalizeSwept, IInv, SweepInv
  <2>5. CASE CommitTables(Cleanup(t, sweep.seen)) /\ givenUp' = Append(givenUp, t)
    <3> HIDE DEF t
    <3>1. QED
      BY <2>3, <2>4, <2>5, CommittedCleanup
  <2>6. CASE UNCHANGED <<ledgerVars, givenUp>>
    BY <2>6, <1>1 DEF ledgerVars
  <2>7. QED
    BY <1>3, <2>5, <2>6 DEF FinalizeSwept, FinalizeFailedTrade
<1>4. CASE ApplyLog
  <2>0. UNCHANGED givenUp
    BY <1>4 DEF ApplyLog, auxVars
  <2>1. CASE FillEvent
    BY <2>0, <2>1, FillConfirms DEF OrdersStep
  <2>2. CASE ~ FillEvent
    <3>1. UNCHANGED <<orders, reservations, givenUp>>
      BY <1>4, <2>0, <2>2 DEF FillEvent, ApplyLog, ledgerVars
    <3>2. QED
      BY <3>1, <1>1
  <2>3. QED
    BY <2>1, <2>2
<1>5. ASSUME NEW h \in Cancellable, CancelOrder(h) PROVE OrdersStep
  <2> DEFINE key == BuildOrderReservationKey(orders[h])
             release == AvailableRemainderRelease(orders[h])
  <2>1. /\ h \in DOMAIN orders /\ CanCancelRemainder(orders, h)
        /\ CanReleaseRemainder(reservations, key, release)
        /\ reservations' = ReleaseRemainder(reservations, key, release)
        /\ orders' = CancelOrderAvailableRemainder(orders, h)
    BY <1>5 DEF CancelOrder, CancelOrderTx
  <2>2. release \in Int
    <3>1. orders[h] \in OrderRow
      BY <2>1 DEF IInv, TablesInv, OrdersInv
    <3>2. Confirmed(orders[h]) \in Int /\ Confirmed(orders[h]) + orders[h].pending \in Int
      BY <3>1 DEF OrderRow, Confirmed
    <3>3. BuyReservation(orders[h], Confirmed(orders[h]) + orders[h].pending) \in Int
      BY <3>1, <3>2, BuyReservationInt DEF OrderRow
    <3>4. QED
      BY <3>1, <3>3 DEF AvailableRemainderRelease, OrderRow, Available
  <2>3. reservations' \in ReservationTables
    <3> HIDE DEF release, key
    <3>1. reservations \in ReservationTables
      BY DEF IInv, TablesInv
    <3>2. CASE release > 0
      BY <3>1, <3>2, <2>1, <2>2, DecreaseKeepsTable DEF CanReleaseRemainder, ReleaseRemainder
    <3>3. CASE ~ (release > 0)
      BY <3>1, <3>3, <2>1 DEF ReleaseRemainder
    <3>4. QED
      BY <3>2, <3>3
  <2>4. OrdersInv(orders)
    BY DEF IInv, TablesInv
  <2>5. /\ OrdersInv(orders') /\ DOMAIN orders' = DOMAIN orders
        /\ \A g \in DOMAIN orders : /\ Confirmed(orders'[g]) = Confirmed(orders[g])
                                    /\ orders'[g].pending = orders[g].pending
    BY <2>1, <2>4, CancelKeepsRow
  <2>6. UNCHANGED givenUp
    BY <1>5 DEF CancelOrder
  <2>7. QED
    BY <2>3, <2>5, <2>6 DEF OrdersStep
<1>6. QED
  BY <1>1, <1>2, <1>3, <1>4, <1>5, NextWriters DEF Writers, WritesOrders

(* A trade keeps its taker, its fills and its amount; its transaction is one  *)
(* that was sent.                                                            *)
TradesStep ==
  /\ trades' \in Seq(TradeRow(DOMAIN orders)) /\ TradeIds' = TradeIds
  /\ \A t \in TradeIds : /\ trades'[t].taker = trades[t].taker /\ trades'[t].fills = trades[t].fills
                         /\ trades'[t].amount = trades[t].amount
                         /\ trades'[t].tx <= Len(sent)

(* All but one of the writes set the status of some trades. *)
StatusMove ==
  \E S \in SUBSET TradeIds, status \in TradeStatus :
    trades' = [t \in TradeIds |-> IF t \in S THEN [trades[t] EXCEPT !.status = status] ELSE trades[t]]

LEMMA StatusMoveKeeps ==
  ASSUME IInv, StatusMove
  PROVE  TradesStep
<1> DEFINE D == DOMAIN orders
<1>1. trades \in Seq(TradeRow(D)) /\ \A t \in TradeIds : trades[t].tx <= Len(sent)
  BY DEF IInv, TablesInv
<1> HIDE DEF D
<1>2. PICK S \in SUBSET TradeIds, status \in TradeStatus :
        trades' = [t \in TradeIds |-> IF t \in S THEN [trades[t] EXCEPT !.status = status] ELSE trades[t]]
  BY DEF StatusMove
<1>3. trades' = [t \in DOMAIN trades |-> trades'[t]]
  BY <1>2 DEF TradeIds
<1>4. ASSUME NEW t \in DOMAIN trades
      PROVE  /\ trades'[t] \in TradeRow(D)
             /\ trades'[t].taker = trades[t].taker /\ trades'[t].fills = trades[t].fills
             /\ trades'[t].amount = trades[t].amount /\ trades'[t].tx = trades[t].tx
  <2>1. trades[t] \in TradeRow(D)
    BY <1>1
  <2>2. trades'[t] = IF t \in S THEN [trades[t] EXCEPT !.status = status] ELSE trades[t]
    BY <1>2 DEF TradeIds
  <2>3. QED
    BY <2>1, <2>2 DEF TradeRow
<1>5. trades' \in Seq(TradeRow(D)) /\ DOMAIN trades' = DOMAIN trades
  BY <1>1, <1>3, <1>4, SeqOfRows
<1>6. QED
  BY <1>1, <1>4, <1>5 DEF TradesStep, TradeIds, D

LEMMA UpdateMoves ==
  ASSUME IInv, NEW t \in TradeIds, NEW status \in TradeStatus, trades' = UpdateTradeStatus(t, status)
  PROVE  TradesStep
<1>1. trades = [u \in TradeIds |-> trades[u]]
  BY DEF IInv, TablesInv, TradeIds
<1>2. trades' = [u \in TradeIds |-> IF u \in {t} THEN [trades[u] EXCEPT !.status = status]
                                    ELSE trades[u]]
  BY <1>1 DEF UpdateTradeStatus, TradeIds
<1>3. StatusMove
  BY <1>2 DEF StatusMove
<1>4. QED
  BY <1>3, StatusMoveKeeps

LEMMA TradesStay ==
  ASSUME IInv, [Next]_vars
  PROVE  TradesStep
<1>0. {"EXECUTING", "SUBMITTED", "CONFIRMED", "RETRYING", "FAILED"} \subseteq TradeStatus
  BY DEF TradeStatus
<1>1. CASE UNCHANGED trades
  BY <1>1 DEF TradesStep, IInv, TablesInv, TradeIds
<1>2. CASE \E stale \in SUBSET TradeIds : ResetStaleExecutingTrades(stale)
  <2>1. StatusMove
    BY <1>2, <1>0 DEF ResetStaleExecutingTrades, StatusMove
  <2>2. QED
    BY <2>1, StatusMoveKeeps
<1>3. CASE ClaimExecutableTrades
  <2> DEFINE claimed == Oldest({t \in TradeIds : Executable(t) /\ ~TradeLocked(t)}, BatchLimit)
  <2>1. claimed \in SUBSET TradeIds
    BY DEF Oldest
  <2>2. trades' = [t \in TradeIds |-> IF t \in claimed
                                      THEN [trades[t] EXCEPT !.status = "EXECUTING"] ELSE trades[t]]
    BY <1>3 DEF ClaimExecutableTrades
  <2> HIDE DEF claimed
  <2>3. StatusMove
    BY <2>1, <2>2, <1>0 DEF StatusMove
  <2>4. QED
    BY <2>3, StatusMoveKeeps
<1>4. CASE RecordTrade
  <2> DEFINE D == DOMAIN orders
             c == executor.trade
             row == [[trades[c] EXCEPT !.status = "SUBMITTED"] EXCEPT !.tx = executor.tx]
  <2>1. /\ trades \in Seq(TradeRow(D)) /\ DOMAIN trades = TradeIds
        /\ \A t \in TradeIds : trades[t].tx <= Len(sent)
    BY DEF IInv, TablesInv, TradeIds
  <2>2. c \in TradeIds /\ executor.tx \in Nat /\ executor.tx <= Len(sent)
    BY <1>4 DEF RecordTrade, IInv, ExecutorInv, ExecutorRow
  <2>3. trades' = [trades EXCEPT ![c] = row]
    BY <1>4, <2>1, <2>2 DEF RecordTrade, MarkTradeSubmitted, Current
  <2>4. /\ row \in TradeRow(D) /\ row.taker = trades[c].taker /\ row.fills = trades[c].fills
        /\ row.amount = trades[c].amount /\ row.tx = executor.tx
    <3>1. trades[c] \in TradeRow(D)
      BY <2>1, <2>2
    <3>2. QED
      BY <3>1, <2>2, <1>0 DEF TradeRow
  <2> HIDE DEF D, row, c
  <2>5. ASSUME NEW t \in DOMAIN trades
        PROVE  trades'[t] = (IF t = c THEN row ELSE trades[t]) /\ trades'[t] \in TradeRow(D)
    <3>1. trades'[t] = IF t = c THEN row ELSE trades[t]
      BY <2>1, <2>2, <2>3
    <3>2. trades[t] \in TradeRow(D)
      BY <2>1
    <3>3. QED
      BY <3>1, <3>2, <2>4
  <2>6. trades' = [t \in DOMAIN trades |-> trades'[t]]
    BY <2>1, <2>2, <2>3
  <2>7. trades' \in Seq(TradeRow(D)) /\ DOMAIN trades' = DOMAIN trades
    BY <2>1, <2>5, <2>6, SeqOfRows
  <2>8. \A t \in TradeIds :
          /\ trades'[t].taker = trades[t].taker /\ trades'[t].fills = trades[t].fills
          /\ trades'[t].amount = trades[t].amount /\ trades'[t].tx <= Len(sent)
    BY <2>1, <2>2, <2>4, <2>5
  <2>9. QED
    BY <2>1, <2>7, <2>8 DEF TradesStep, D, TradeIds
<1>5. CASE MarkTradeRetrying
  <2>1. Current \in TradeIds
    BY <1>5 DEF MarkTradeRetrying, IInv, ExecutorInv, Current
  <2>2. QED
    BY <2>1, <1>5, <1>0, UpdateMoves DEF MarkTradeRetrying
<1>6. CASE ReleaseFailedTrade
  <2>1. Current \in TradeIds
    BY <1>6 DEF ReleaseFailedTrade, IInv, ExecutorInv, Current
  <2>2. trades' = UpdateTradeStatus(Current, "FAILED") \/ UNCHANGED trades
    BY <1>6 DEF ReleaseFailedTrade, FinalizeFailedTrade, UpdateTradeStatus, ledgerVars
  <2>3. QED
    BY <2>1, <2>2, <1>0, <1>1, UpdateMoves
<1>7. CASE MarkAttempt \/ FinalizeSwept
  <2> DEFINE t == attempts[Swept].trade
  <2>1. t \in TradeIds
    BY <1>7, SweptInside DEF MarkAttempt, FinalizeSwept, IInv, SweepInv
  <2>2. \/ trades' = UpdateTradeStatus(t, "FAILED") \/ trades' = UpdateTradeStatus(t, "RETRYING")
        \/ UNCHANGED trades
    BY <1>7 DEF MarkAttempt, FinalizeSwept, FinalizeFailedTrade, UpdateTradeStatus, ledgerVars
  <2> HIDE DEF t
  <2>3. QED
    BY <2>1, <2>2, <1>0, <1>1, UpdateMoves
<1>8. CASE ApplyLog
  <2>1. UNCHANGED trades \/ ApplyOrdersMatched(logs[indexer.next])
    BY <1>8 DEF ApplyLog, ledgerVars
  <2>2. ASSUME ApplyOrdersMatched(logs[indexer.next]) PROVE TradesStep
    <3>1. PICK t \in GetTradeByTxHash(logs[indexer.next].tx) : trades' = UpdateTradeStatus(t, "CONFIRMED")
      BY <2>2 DEF ApplyOrdersMatched
    <3>2. t \in TradeIds
      BY DEF GetTradeByTxHash
    <3>3. QED
      BY <3>1, <3>2, <1>0, UpdateMoves
  <2>3. QED
    BY <2>1, <2>2, <1>1
<1>9. QED
  BY <1>1, <1>2, <1>3, <1>4, <1>5, <1>6, <1>7, <1>8, NextWriters DEF Writers, WritesTrades

(* An attempt stays an attempt of its trade; only CreateAttempt makes one. *)
AttemptsStep ==
  /\ attempts' \in Seq(AttemptRow(TradeIds))
  /\ DOMAIN attempts \subseteq DOMAIN attempts'
  /\ \A a \in DOMAIN attempts : attempts'[a].trade = attempts[a].trade
  /\ CreateAttempt \/ DOMAIN attempts' = DOMAIN attempts

AttemptMove ==
  \E S \in SUBSET DOMAIN attempts, status \in SettlementAttemptStatus :
    attempts' = [a \in DOMAIN attempts |-> IF a \in S THEN [attempts[a] EXCEPT !.status = status]
                                           ELSE attempts[a]]

LEMMA AttemptMoveKeeps ==
  ASSUME IInv, AttemptMove
  PROVE  AttemptsStep
<1> DEFINE T == TradeIds
<1>1. attempts \in Seq(AttemptRow(T))
  BY DEF IInv, TablesInv
<1> HIDE DEF T
<1>2. PICK S \in SUBSET DOMAIN attempts, status \in SettlementAttemptStatus :
        attempts' = [a \in DOMAIN attempts |-> IF a \in S THEN [attempts[a] EXCEPT !.status = status]
                                               ELSE attempts[a]]
  BY DEF AttemptMove
<1>3. attempts' = [a \in DOMAIN attempts |-> attempts'[a]]
  BY <1>2
<1>4. ASSUME NEW a \in DOMAIN attempts
      PROVE  attempts'[a] \in AttemptRow(T) /\ attempts'[a].trade = attempts[a].trade
  <2>1. attempts[a] \in AttemptRow(T)
    BY <1>1
  <2>2. attempts'[a] = IF a \in S THEN [attempts[a] EXCEPT !.status = status] ELSE attempts[a]
    BY <1>2
  <2>3. QED
    BY <2>1, <2>2 DEF AttemptRow
<1>5. attempts' \in Seq(AttemptRow(T)) /\ DOMAIN attempts' = DOMAIN attempts
  BY <1>1, <1>3, <1>4, SeqOfRows
<1>6. QED
  BY <1>4, <1>5 DEF AttemptsStep, T

LEMMA AttemptUpdateMoves ==
  ASSUME IInv, NEW a, NEW status \in SettlementAttemptStatus,
         attempts' = UpdateSettlementAttempt(a, status)
  PROVE  AttemptsStep
<1>1. attempts = [b \in DOMAIN attempts |-> attempts[b]]
  BY DEF IInv, TablesInv
<1>2. attempts' = [b \in DOMAIN attempts |-> IF b \in {a} \cap DOMAIN attempts
                                             THEN [attempts[b] EXCEPT !.status = status]
                                             ELSE attempts[b]]
  BY <1>1 DEF UpdateSettlementAttempt
<1>3. {a} \cap DOMAIN attempts \in SUBSET DOMAIN attempts
  OBVIOUS
<1>4. AttemptMove
  BY <1>2, <1>3 DEF AttemptMove
<1>5. QED
  BY <1>4, AttemptMoveKeeps

LEMMA AttemptsStay ==
  ASSUME IInv, [Next]_vars
  PROVE  AttemptsStep
<1>0. {"CREATED", "SUBMITTED", "MINED", "FAILED", "REVERTED", "DROPPED"} \subseteq SettlementAttemptStatus
  BY DEF SettlementAttemptStatus
<1>t. attempts \in Seq(AttemptRow(TradeIds))
  BY DEF IInv, TablesInv
<1>1. CASE UNCHANGED attempts
  BY <1>1, <1>t DEF AttemptsStep
<1>2. CASE CreateAttempt
  <2> DEFINE T == TradeIds
             row == [trade |-> Current, status |-> "CREATED", tx |-> NoTx]
  <2>1. Current \in T
    BY <1>2 DEF CreateAttempt, IInv, ExecutorInv, Current
  <2>2. row \in AttemptRow(T)
    BY <2>1, <1>0 DEF AttemptRow, NoTx
  <2>3. attempts' = Append(attempts, row) /\ attempts \in Seq(AttemptRow(T))
    BY <1>2, <1>t DEF CreateAttempt, CreateSettlementAttempt
  <2> HIDE DEF T, row
  <2>4. /\ attempts' \in Seq(AttemptRow(T)) /\ DOMAIN attempts \subseteq DOMAIN attempts'
        /\ \A a \in DOMAIN attempts : attempts'[a] = attempts[a]
    BY <2>2, <2>3
  <2>5. QED
    BY <2>4, <1>2 DEF AttemptsStep, T
<1>3. CASE RecordAttempt
  <2> DEFINE T == TradeIds
             b == executor.attempt
             row == [[attempts[b] EXCEPT !.status = "SUBMITTED"] EXCEPT !.tx = executor.tx]
  <2>1. executor.tx \in Nat
    BY DEF IInv, ExecutorInv, ExecutorRow
  <2>2. attempts \in Seq(AttemptRow(T)) /\ attempts' = [attempts EXCEPT ![b] = row]
    BY <1>3, <1>t DEF RecordAttempt, MarkSettlementAttemptSubmitted
  <2> HIDE DEF T
  <2>3. b \in DOMAIN attempts => row \in AttemptRow(T) /\ row.trade = attempts[b].trade
    <3>1. b \in DOMAIN attempts => attempts[b] \in AttemptRow(T)
      BY <2>2
    <3>2. QED
      BY <3>1, <2>1, <1>0 DEF AttemptRow
  <2> HIDE DEF row, b
  <2>4. attempts' = [a \in DOMAIN attempts |-> attempts'[a]]
    BY <2>2
  <2>5. ASSUME NEW a \in DOMAIN attempts
        PROVE  attempts'[a] \in AttemptRow(T) /\ attempts'[a].trade = attempts[a].trade
    <3>1. attempts[a] \in AttemptRow(T) /\ attempts'[a] = IF a = b THEN row ELSE attempts[a]
      BY <2>2
    <3>2. QED
      BY <3>1, <2>3
  <2>6. attempts' \in Seq(AttemptRow(T)) /\ DOMAIN attempts' = DOMAIN attempts
    <3>1. attempts \in Seq(AttemptRow(T)) /\ \A a \in DOMAIN attempts : attempts'[a] \in AttemptRow(T)
      BY <2>2, <2>5
    <3>2. QED
      BY <3>1, <2>4, SeqOfRows
  <2>7. QED
    BY <2>5, <2>6 DEF AttemptsStep, T
<1>4. CASE MarkAttemptFailed
  BY <1>4, <1>0, AttemptUpdateMoves DEF MarkAttemptFailed
<1>5. CASE MarkAttempt \/ FinalizeSwept
  <2>1. sweep.verdict \in SettlementAttemptStatus
    BY <1>5, <1>0 DEF MarkAttempt, FinalizeSwept, IInv, SweepInv, SweepRow
  <2>2. attempts' = UpdateSettlementAttempt(Swept, sweep.verdict) \/ UNCHANGED attempts
    BY <1>5 DEF MarkAttempt, FinalizeSwept
  <2>3. QED
    BY <2>1, <2>2, <1>1, AttemptUpdateMoves
<1>6. CASE ApplyLog
  <2> DEFINE S == GetSettlementAttemptByTxHash(logs[indexer.next].tx)
  <2>1. S \in SUBSET DOMAIN attempts
    BY DEF GetSettlementAttemptByTxHash
  <2>2. UNCHANGED attempts \/ ApplyOrdersMatched(logs[indexer.next])
    BY <1>6 DEF ApplyLog
  <2>3. ASSUME ApplyOrdersMatched(logs[indexer.next]) PROVE AttemptsStep
    <3>1. attempts' = [a \in DOMAIN attempts |-> IF a \in S THEN [attempts[a] EXCEPT !.status = "MINED"]
                                                 ELSE attempts[a]]
      BY <2>3 DEF ApplyOrdersMatched
    <3> HIDE DEF S
    <3>2. AttemptMove
      BY <2>1, <3>1, <1>0 DEF AttemptMove
    <3>3. QED
      BY <3>2, AttemptMoveKeeps
  <2>4. QED
    BY <2>2, <2>3, <1>1
<1>7. QED
  BY <1>1, <1>2, <1>3, <1>4, <1>5, <1>6, NextWriters DEF Writers, WritesAttempts

(* What was broadcast stays known. *)
SentStep ==
  /\ sent' \in Seq(TradeIds) /\ Len(sent) <= Len(sent') /\ DOMAIN sent \subseteq DOMAIN sent'
  /\ \A tx \in DOMAIN sent : sent'[tx] = sent[tx]
  /\ mempool' \subseteq DOMAIN sent' /\ DOMAIN receipts' \subseteq DOMAIN sent'

LEMMA SentStay ==
  ASSUME IInv, [Next]_vars
  PROVE  SentStep
<1> DEFINE T == TradeIds
<1>1. /\ sent \in Seq(T) /\ mempool \subseteq DOMAIN sent /\ DOMAIN receipts \subseteq DOMAIN sent
      /\ Len(sent) \in Nat
  BY DEF IInv, TablesInv, ChainInv
<1>2. UNCHANGED sent \/ Broadcast
  BY NextWriters DEF Writers, WritesSent, SubmitMatchOrders, SubmitUnanswered, chainVars
<1>3. CASE UNCHANGED sent
  <2>1. CASE UNCHANGED <<mempool, receipts, blocks>>
    BY <2>1, <1>1, <1>3 DEF SentStep
  <2>2. CASE SubmitMatchOrders \/ SubmitUnanswered
    <3>1. UNCHANGED <<mempool, receipts>>
      <4>1. Broadcast => sent' = Append(sent, Current)
        BY DEF Broadcast
      <4>2. ~ Broadcast
        <5>1. Append(sent, Current) # sent
          <6>1. Current \in T
            BY <2>2 DEF SubmitMatchOrders, SubmitUnanswered, IInv, ExecutorInv, Current
          <6>2. Len(Append(sent, Current)) = Len(sent) + 1
            BY <1>1, <6>1
          <6>3. QED
            BY <1>1, <6>2
        <5>2. QED
          BY <4>1, <5>1, <1>3
      <4>3. QED
        BY <2>2, <4>2 DEF SubmitMatchOrders, SubmitUnanswered, chainVars
    <3>2. QED
      BY <3>1, <1>1, <1>3 DEF SentStep
  <2>3. ASSUME NEW tx \in mempool, Mine(tx) PROVE SentStep
    <3>1. mempool' = mempool \ {tx} /\ DOMAIN receipts' = DOMAIN receipts \cup {tx}
      BY <2>3 DEF Mine, Include
    <3>2. QED
      BY <3>1, <1>1, <1>3 DEF SentStep
  <2>4. ASSUME NEW tx \in mempool, LoseTransaction(tx) PROVE SentStep
    BY <2>4, <1>1, <1>3 DEF LoseTransaction, SentStep
  <2>5. QED
    BY <2>1, <2>2, <2>3, <2>4, NextWriters DEF Writers, WritesChain
<1>4. CASE Broadcast /\ ~ UNCHANGED sent
  <2>1. SubmitMatchOrders \/ SubmitUnanswered
    BY <1>4, NextWriters DEF Writers, WritesSent
  <2>2. Current \in T
    BY <2>1 DEF SubmitMatchOrders, SubmitUnanswered, IInv, ExecutorInv, Current
  <2>3. /\ sent' = Append(sent, Current) /\ mempool' = mempool \cup {Len(sent) + 1}
        /\ UNCHANGED receipts
    BY <1>4 DEF Broadcast
  <2> HIDE DEF T
  <2>4. /\ sent' \in Seq(T) /\ Len(sent') = Len(sent) + 1 /\ DOMAIN sent' = 1 .. Len(sent) + 1
        /\ \A tx \in DOMAIN sent : sent'[tx] = sent[tx]
        /\ DOMAIN sent = 1 .. Len(sent)
    BY <1>1, <2>2, <2>3
  <2>5. DOMAIN sent \subseteq DOMAIN sent' /\ Len(sent) + 1 \in DOMAIN sent' /\ Len(sent) <= Len(sent')
    BY <1>1, <2>4
  <2>6. QED
    BY <1>1, <2>3, <2>4, <2>5 DEF SentStep, T
<1>5. QED
  BY <1>2, <1>3, <1>4

-----------------------------------------------------------------------------
(* What the loops carry from one state to the next.                          *)

LEMMA OrdersOfStay ==
  ASSUME TradesStep, NEW t \in TradeIds
  PROVE  t \in TradeIds' /\ OrdersOf(t)' = OrdersOf(t)
BY DEF TradesStep, OrdersOf

LEMMA CountNat ==
  ASSUME IInv, NEW t
  PROVE  GetSettlementAttemptCountByTrade(t) \in Nat
<1> DEFINE S == {a \in DOMAIN attempts : attempts[a].trade = t}
<1>1. DOMAIN attempts = 1 .. Len(attempts) /\ Len(attempts) \in Nat
  BY DEF IInv, TablesInv
<1>2. IsFiniteSet(DOMAIN attempts)
  BY <1>1, FS_Interval
<1>3. IsFiniteSet(S)
  BY <1>2, FS_Subset
<1>4. QED
  BY <1>3, FS_CardinalityType DEF GetSettlementAttemptCountByTrade

LEMMA ExecutorMoves ==
  ASSUME TradesStep, executor' \in ExecutorRow(TradeIds), executor'.pc # "release",
         executor'.pc \notin {"idle", "begin"} => executor'.trade \in TradeIds,
         executor'.tx <= Len(sent')
  PROVE  ExecutorInv'
<1>1. TradeIds' = TradeIds
  BY DEF TradesStep
<1>2. executor' \in ExecutorRow(TradeIds)'
  BY <1>1 DEF ExecutorRow
<1>3. QED
  BY <1>1, <1>2 DEF ExecutorInv

LEMMA ExecutorStay ==
  ASSUME IInv, [Next]_vars
  PROVE  ExecutorInv'
<1> DEFINE T == TradeIds
<1>1. TradesStep /\ SentStep /\ TradeIds' = T
  BY TradesStay, SentStay DEF TradesStep
<1>2. /\ executor \in ExecutorRow(T) /\ executor.tx <= Len(sent) /\ executor.tx \in Nat
      /\ Len(sent) \in Nat /\ Len(sent') \in Nat /\ Len(sent) <= Len(sent')
  BY <1>1 DEF IInv, ExecutorInv, ExecutorRow, TablesInv, SentStep
<1>3. executor.pc \notin {"idle", "begin"} => executor.trade \in T
  BY DEF IInv, ExecutorInv
<1>4. IdleExecutor \in ExecutorRow(T) /\ IdleExecutor.pc = "idle" /\ IdleExecutor.tx = 0
  BY DEF IdleExecutor, ExecutorRow, ExecutorPc, NoTrade, NoTx, Copies
<1>5. \A batch \in SUBSET T : [IdleExecutor EXCEPT !.pc = "begin", !.batch = batch] \in ExecutorRow(T)
  <2> HIDE DEF T
  <2>1. QED
    BY <1>4 DEF ExecutorRow, ExecutorPc
<1>6. CASE executor' = IdleExecutor
  BY <1>1, <1>2, <1>4, <1>6, ExecutorMoves
<1>7. CASE executor' = NextInBatch
  <2>1. CASE executor.batch = {}
    BY <2>1, <1>6, <1>7 DEF NextInBatch
  <2>2. CASE executor.batch # {}
    <3>1. executor' = [IdleExecutor EXCEPT !.pc = "begin", !.batch = executor.batch]
      BY <2>2, <1>7 DEF NextInBatch
    <3>2. executor.batch \in SUBSET T
      BY <1>2 DEF ExecutorRow
    <3>3. executor' \in ExecutorRow(T)
      BY <3>1, <3>2, <1>5
    <3>4. executor'.pc = "begin" /\ executor'.tx = 0
      BY <3>1 DEF IdleExecutor, NoTx
    <3>5. QED
      BY <3>3, <3>4, <1>1, <1>2, ExecutorMoves
  <2>3. QED
    BY <2>1, <2>2
<1>8. CASE UNCHANGED executor
  <2>1. executor' \in ExecutorRow(TradeIds)'
    BY <1>1, <1>2, <1>8 DEF ExecutorRow
  <2>2. executor'.pc = "release" => executor'.seen \in [OrdersOf(executor.trade)' -> OrderRow]
    BY <1>1, <1>3, <1>8, OrdersOfStay DEF IInv, ExecutorInv
  <2>3. executor'.tx <= Len(sent')
    BY <1>2, <1>8
  <2>4. QED
    BY <1>1, <1>3, <1>8, <2>1, <2>2, <2>3 DEF ExecutorInv
<1>9. CASE ClaimExecutableTrades
  <2> DEFINE claimed == Oldest({t \in TradeIds : Executable(t) /\ ~TradeLocked(t)}, BatchLimit)
  <2>1. claimed \in SUBSET T
    BY DEF Oldest
  <2>2. executor' = [executor EXCEPT !.pc = "begin", !.batch = claimed]
    BY <1>9 DEF ClaimExecutableTrades
  <2> HIDE DEF claimed, T
  <2>3. executor' \in ExecutorRow(T) /\ executor'.pc = "begin" /\ executor'.tx = executor.tx
    BY <1>2, <2>1, <2>2 DEF ExecutorRow, ExecutorPc
  <2>4. executor'.tx <= Len(sent')
    BY <2>3, <1>2
  <2>5. QED
    BY <2>3, <2>4, <1>1, ExecutorMoves DEF T
<1>10. ASSUME NEW t \in executor.batch, BeginTrade(t) PROVE ExecutorInv'
  <2> DEFINE remaining == CalculateRemainingSettlementAttempts(GetSettlementAttemptCountByTrade(t))
  <2>1. remaining \in Int
    BY CountNat, SettlementAssumption DEF CalculateRemainingSettlementAttempts, Larger
  <2>2. executor' = [executor EXCEPT !.pc = IF remaining = 0 THEN "cleanup" ELSE "attempt",
                                     !.batch = executor.batch \ {t}, !.trade = t,
                                     !.left = remaining, !.before = Len(sent)]
    BY <1>10 DEF BeginTrade
  <2>3. t \in T /\ t \in Nat
    BY <1>2 DEF ExecutorRow, IInv, TablesInv, TradeIds
  <2> HIDE DEF remaining, T
  <2>4. /\ executor' \in ExecutorRow(T) /\ executor'.pc # "release" /\ executor'.trade = t
        /\ executor'.tx = executor.tx
    BY <1>2, <2>1, <2>2, <2>3 DEF ExecutorRow, ExecutorPc
  <2>5. executor'.tx <= Len(sent')
    BY <2>4, <1>2
  <2>6. QED
    BY <2>3, <2>4, <2>5, <1>1, ExecutorMoves DEF T
<1>11. CASE CreateAttempt \/ RecordAttempt \/ MarkAttemptFailed \/ MarkTradeRetrying \/ RecordFails
  <2>1. executor.trade \in T /\ Len(attempts) \in Nat
    BY <1>11, <1>3 DEF CreateAttempt, RecordAttempt, MarkAttemptFailed, MarkTradeRetrying, RecordFails,
                       IInv, TablesInv
  <2> HIDE DEF T
  <2>2. /\ executor' \in ExecutorRow(T) /\ executor'.pc # "release" /\ executor'.trade = executor.trade
        /\ executor'.tx \in {0, executor.tx}
    <3>1. CASE CreateAttempt
      <4> DEFINE n == Len(attempts) + 1
      <4>1. n \in Nat /\ executor' = [executor EXCEPT !.pc = "submit", !.attempt = n]
        BY <2>1, <3>1 DEF CreateAttempt
      <4> HIDE DEF n
      <4>2. QED
        BY <4>1, <1>2 DEF ExecutorRow, ExecutorPc
    <3>2. CASE RecordAttempt
      BY <3>2, <1>2 DEF RecordAttempt, ExecutorRow, ExecutorPc
    <3>3. CASE MarkAttemptFailed
      BY <3>3, <1>2 DEF MarkAttemptFailed, ExecutorRow, ExecutorPc
    <3>4. CASE MarkTradeRetrying
      <4> DEFINE n == executor.left - 1
                 pc == IF executor.left > 1 THEN "attempt" ELSE "cleanup"
      <4>1. /\ n \in Int /\ pc \in {"attempt", "cleanup"}
            /\ executor' = [executor EXCEPT !.pc = pc, !.left = n, !.attempt = 0, !.tx = 0]
        BY <3>4, <1>2 DEF MarkTradeRetrying, ExecutorRow, NoTx
      <4> HIDE DEF n, pc
      <4>2. QED
        BY <4>1, <1>2 DEF ExecutorRow, ExecutorPc
    <3>5. CASE RecordFails
      BY <3>5, <1>2 DEF RecordFails, ExecutorRow, ExecutorPc
    <3>6. QED
      BY <1>11, <3>1, <3>2, <3>3, <3>4, <3>5
  <2>3. executor'.tx <= Len(sent')
    BY <2>2, <1>2
  <2>4. QED
    BY <2>1, <2>2, <2>3, <1>1, ExecutorMoves DEF T
<1>12. CASE SubmitMatchOrders \/ SubmitUnanswered
  <2>1. Current \in T /\ executor.trade \in T
    BY <1>12, <1>3 DEF SubmitMatchOrders, SubmitUnanswered, Current
  <2>2. Broadcast => Len(sent') = Len(sent) + 1
    BY <2>1 DEF Broadcast, IInv, TablesInv
  <2> HIDE DEF T
  <2>3. \/ executor' = [executor EXCEPT !.pc = "failed"]
        \/ executor' = [executor EXCEPT !.pc = "recordAttempt", !.tx = Len(sent) + 1] /\ Broadcast
    BY <1>12 DEF SubmitMatchOrders, SubmitUnanswered
  <2>4. CASE executor' = [executor EXCEPT !.pc = "failed"]
    <3>1. /\ executor' \in ExecutorRow(T) /\ executor'.pc = "failed" /\ executor'.trade = executor.trade
          /\ executor'.tx = executor.tx
      BY <2>4, <1>2 DEF ExecutorRow, ExecutorPc
    <3>2. executor'.tx <= Len(sent')
      BY <3>1, <1>2
    <3>3. QED
      BY <2>1, <3>1, <3>2, <1>1, ExecutorMoves DEF T
  <2>5. CASE /\ executor' = [executor EXCEPT !.pc = "recordAttempt", !.tx = Len(sent) + 1]
             /\ Broadcast
    <3>1. /\ executor' \in ExecutorRow(T) /\ executor'.pc = "recordAttempt"
          /\ executor'.trade = executor.trade /\ executor'.tx = Len(sent) + 1
      <4> DEFINE n == Len(sent) + 1
      <4>1. n \in Nat /\ executor' = [executor EXCEPT !.pc = "recordAttempt", !.tx = n]
        BY <2>5, <1>2
      <4> HIDE DEF n
      <4>2. executor' \in ExecutorRow(T) /\ executor'.pc = "recordAttempt" /\ executor'.tx = n
            /\ executor'.trade = executor.trade
        BY <4>1, <1>2 DEF ExecutorRow, ExecutorPc
      <4>3. QED
        BY <4>2 DEF n
    <3>2. executor'.tx <= Len(sent')
      BY <3>1, <2>2, <2>5, <1>2
    <3>3. QED
      BY <2>1, <3>1, <3>2, <1>1, ExecutorMoves DEF T
  <2>6. QED
    BY <2>3, <2>4, <2>5
<1>13. CASE ReadFailedTrade
  <2>1. Current \in T /\ Current = executor.trade
    BY <1>13, <1>3 DEF ReadFailedTrade, Current
  <2>2. CASE executor' = [executor EXCEPT !.pc = "release",
                                          !.seen = [h \in OrdersOf(Current) |-> orders[h]]]
    <3> DEFINE copy == [h \in OrdersOf(Current) |-> orders[h]]
    <3>1. copy \in Copies /\ copy \in [OrdersOf(Current) -> OrderRow]
      BY <2>1, OrdersOfInside DEF IInv
    <3>2. OrdersOf(Current)' = OrdersOf(Current)
      <4>1. executor'.trade = executor.trade
        BY <2>2, <1>2 DEF ExecutorRow
      <4>2. OrdersOf(executor.trade)' = OrdersOf(Current)
        <5>1. trades' = trades
          BY <1>13 DEF ReadFailedTrade, ledgerVars
        <5>2. QED
          BY <4>1, <5>1, <2>1 DEF OrdersOf
      <4>3. QED
        BY <4>1, <4>2 DEF Current
    <3> HIDE DEF copy, T
    <3>3. /\ executor' \in ExecutorRow(T) /\ executor'.pc = "release" /\ executor'.trade = executor.trade
          /\ executor'.tx = executor.tx /\ executor'.seen = copy
      BY <2>2, <1>2, <3>1 DEF ExecutorRow, ExecutorPc, copy
    <3>4. executor' \in ExecutorRow(TradeIds)'
      BY <3>3, <1>1 DEF ExecutorRow
    <3>5. executor'.tx <= Len(sent')
      BY <3>3, <1>2
    <3>6. QED
      BY <2>1, <3>1, <3>2, <3>3, <3>4, <3>5, <1>1 DEF ExecutorInv, Current
  <2>3. QED
    BY <1>13, <2>2, <1>6 DEF ReadFailedTrade
<1>14. CASE RecordTrade \/ ReleaseFailedTrade \/ Restart
  <2>1. executor' = NextInBatch \/ executor' = IdleExecutor
    BY <1>14 DEF RecordTrade, ReleaseFailedTrade, Restart
  <2>2. QED
    BY <2>1, <1>6, <1>7
<1>15. QED
  BY <1>8, <1>9, <1>10, <1>11, <1>12, <1>13, <1>14, NextWriters DEF Writers, WritesExecutor

(* A sweep that has read no orders. *)
LEMMA SweepMoves ==
  ASSUME AttemptsStep, sweep' \in SweepRow(DOMAIN attempts), sweep'.seen = <<>>,
         sweep'.verdict # "none" => sweep'.todo # {}
  PROVE  SweepInv'
<1>1. DOMAIN attempts \subseteq DOMAIN attempts'
  BY DEF AttemptsStep
<1>2. sweep' \in SweepRow(DOMAIN attempts')
  BY <1>1 DEF SweepRow
<1>3. QED
  BY <1>2 DEF SweepInv

LEMMA SweepStay ==
  ASSUME IInv, [Next]_vars
  PROVE  SweepInv'
<1> DEFINE A == DOMAIN attempts
<1>1. AttemptsStep /\ TradesStep /\ A \subseteq DOMAIN attempts'
  BY AttemptsStay, TradesStay DEF AttemptsStep
<1>2. /\ sweep \in SweepRow(A)
      /\ sweep.verdict # "none" => sweep.todo # {}
      /\ sweep.verdict = "none" => sweep.seen = <<>>
  BY DEF IInv, SweepInv
<1>3. IdleSweep \in SweepRow(A) /\ IdleSweep.seen = <<>> /\ IdleSweep.verdict = "none"
  BY DEF IdleSweep, SweepRow, Copies
<1>4. CASE sweep' = IdleSweep
  BY <1>1, <1>3, <1>4, SweepMoves
<1>5. ASSUME NEW S \in SUBSET A, sweep' = [IdleSweep EXCEPT !.todo = S] PROVE SweepInv'
  <2> HIDE DEF A
  <2>1. sweep' \in SweepRow(A) /\ sweep'.seen = <<>> /\ sweep'.verdict = "none"
    BY <1>5, <1>3 DEF SweepRow
  <2>2. QED
    BY <1>1, <2>1, SweepMoves DEF A
<1>6. OthersToSweep \in SUBSET A
  BY <1>2 DEF OthersToSweep, SweepRow
<1>7. CASE UNCHANGED sweep
  <2>1. sweep' \in SweepRow(DOMAIN attempts')
    BY <1>1, <1>2, <1>7 DEF SweepRow
  <2>2. ASSUME sweep.seen # <<>>
        PROVE  sweep.seen \in [OrdersOf(attempts[Swept].trade)' -> OrderRow]
    <3>1. sweep.verdict # "none" /\ sweep.todo # {}
          /\ sweep.seen \in [OrdersOf(attempts[Swept].trade) -> OrderRow]
      BY <2>2, <1>2 DEF IInv, SweepInv
    <3>2. Swept \in A /\ attempts[Swept].trade \in TradeIds /\ Swept' = Swept
      BY <3>1, <1>7, SweptInside DEF Swept
    <3>3. attempts'[Swept'].trade = attempts[Swept].trade
      BY <3>2, <1>1 DEF AttemptsStep
    <3> DEFINE t == attempts[Swept].trade
    <3>4. OrdersOf(t)' = OrdersOf(t)
      <4>1. t' = t
        BY <3>3
      <4>2. /\ trades'[t].taker = trades[t].taker /\ trades'[t].fills = trades[t].fills
        BY <3>2, <1>1 DEF TradesStep
      <4> HIDE DEF t
      <4>3. QED
        BY <4>1, <4>2 DEF OrdersOf
    <3>5. QED
      BY <3>1, <3>4
  <2>3. QED
    BY <1>2, <1>7, <2>1, <2>2 DEF IInv, SweepInv
<1>8. CASE StartSweep
  <2>1. GetSubmittedSettlementAttemptsForCheck \in SUBSET A
    BY DEF GetSubmittedSettlementAttemptsForCheck, Oldest
  <2>2. QED
    BY <2>1, <1>5, <1>8 DEF StartSweep
<1>9. CASE ReadReceipt
  <2> HIDE DEF A
  <2>1. sweep.todo # {} /\ sweep.verdict = "none" /\ sweep.seen = <<>>
    BY <1>9, <1>2 DEF ReadReceipt
  <2>2. \/ sweep' = [sweep EXCEPT !.todo = OthersToSweep]
        \/ sweep' = [sweep EXCEPT !.verdict = "DROPPED"]
        \/ sweep' = [sweep EXCEPT !.verdict = "REVERTED"]
    BY <1>9 DEF ReadReceipt
  <2>3. /\ sweep' \in SweepRow(A) /\ sweep'.seen = <<>>
        /\ sweep'.verdict # "none" => sweep'.todo # {}
    BY <2>1, <2>2, <1>2, <1>6 DEF SweepRow
  <2>4. QED
    BY <2>3, <1>1, SweepMoves DEF A
<1>10. CASE MarkAttempt
  <2> DEFINE t == attempts[Swept].trade
             copy == [h \in OrdersOf(t) |-> orders[h]]
  <2>1. sweep.verdict # "none" /\ sweep.todo # {}
    BY <1>10, <1>2 DEF MarkAttempt
  <2>2. t \in TradeIds
    BY <2>1, SweptInside
  <2>3. \/ sweep' = [IdleSweep EXCEPT !.todo = OthersToSweep]
        \/ sweep' = [sweep EXCEPT !.seen = copy] /\ UNCHANGED <<trades, attempts>>
    BY <1>10 DEF MarkAttempt
  <2>4. CASE sweep' = [sweep EXCEPT !.seen = copy] /\ UNCHANGED <<trades, attempts>>
    <3>1. copy \in Copies /\ copy \in [OrdersOf(t) -> OrderRow]
      <4> HIDE DEF t
      <4>1. QED
        BY <2>2, OrdersOfInside DEF IInv
    <3> HIDE DEF copy, A
    <3>2. /\ sweep' \in SweepRow(A) /\ sweep'.todo = sweep.todo /\ sweep'.verdict = sweep.verdict
          /\ sweep'.seen = copy
      BY <2>4, <1>2, <3>1 DEF SweepRow
    <3>3. Swept' = Swept
      BY <3>2 DEF Swept
    <3>4. OrdersOf(attempts[Swept].trade)' = OrdersOf(t)
      BY <3>3, <2>4 DEF OrdersOf
    <3>5. sweep' \in SweepRow(DOMAIN attempts')
      BY <3>2, <1>1 DEF SweepRow
    <3>6. QED
      BY <2>1, <3>1, <3>2, <3>4, <3>5 DEF SweepInv
  <2>5. QED
    BY <2>3, <2>4, <1>5, <1>6
<1>11. CASE FinalizeSwept \/ Restart
  <2>1. sweep' = [IdleSweep EXCEPT !.todo = OthersToSweep] \/ sweep' = IdleSweep
    BY <1>11 DEF FinalizeSwept, Restart
  <2>2. QED
    BY <2>1, <1>4, <1>5, <1>6
<1>12. QED
  BY <1>7, <1>8, <1>9, <1>10, <1>11, NextWriters DEF Writers, WritesSweep

-----------------------------------------------------------------------------
(* The contract from one state to the next: its books stay right, fills only  *)
(* grow, events are only added.                                              *)

LogsGrow ==
  /\ Len(logs) <= Len(logs') /\ DOMAIN logs \subseteq DOMAIN logs'
  /\ \A n \in DOMAIN logs : logs'[n] = logs[n]
FillsGrow == \A h \in Tickets : filledAmounts[h] <= filledAmounts'[h]

LEMMA SameParties ==
  ASSUME IInv, [Next]_vars
  PROVE  DOMAIN orders' = DOMAIN orders /\ Takers' = Takers
<1>1. DOMAIN orders' = DOMAIN orders
  BY OrdersStay DEF OrdersStep
<1>2. TradeIds' = TradeIds /\ \A t \in TradeIds : trades'[t].taker = trades[t].taker
  BY TradesStay DEF TradesStep
<1>3. QED
  BY <1>1, <1>2 DEF Takers

LEMMA MinedBatch ==
  ASSUME IInv, NEW tx \in mempool, MatchOrders(Executor, trades[sent[tx]], clock, tx)
  PROVE  /\ ExchangeGood(DOMAIN orders, Takers, filledAmounts', wallet', logs')
         /\ FillsGrow /\ LogsGrow
         /\ \A n \in DOMAIN logs' \ DOMAIN logs : logs'[n].tx = tx
<1> DEFINE t == sent[tx]
           x == MatchBatch(trades[t], clock, tx)
           D == DOMAIN orders
<1>1. t \in TradeIds /\ tx \in Nat
  <2>1. sent \in Seq(TradeIds) /\ tx \in DOMAIN sent
    BY DEF IInv, TablesInv, ChainInv
  <2>2. QED
    BY <2>1
<1>2. trades[t] \in TradeRow(D)
  <2> HIDE DEF t
  <2>1. QED
    BY <1>1, OrdersOfInside DEF IInv
<1>3. /\ trades[t].taker \in D /\ trades[t].amount \in Nat /\ trades[t].fills \in Seq(FillRow(D))
      /\ trades[t].taker \in Takers
  BY <1>1, <1>2 DEF TradeRow, Takers
<1>4. D \in SUBSET Tickets /\ ExchangeGood(D, Takers, filledAmounts, wallet, logs)
  BY DEF IInv, TablesInv, OrdersInv, ContractInv
<1>5. x.ok /\ filledAmounts' = x.filled /\ wallet' = x.wallet /\ logs' = logs \o x.logs
  BY DEF MatchOrders
<1>6. /\ ExchangeGood(D, Takers, x.filled, x.wallet, logs \o x.logs)
      /\ x.logs \in Seq(LogRow(D)) /\ (\A i \in DOMAIN x.logs : x.logs[i].tx = tx)
      /\ \A h \in Tickets : filledAmounts[h] <= x.filled[h]
  <2> DEFINE u == trades[t]
             T == Takers
  <2>1. /\ u.taker \in D /\ u.taker \in T /\ u.amount \in Nat /\ u.fills \in Seq(FillRow(D))
        /\ D \in SUBSET Tickets /\ ExchangeGood(D, T, filledAmounts, wallet, logs)
        /\ MatchBatch(u, clock, tx).ok /\ tx \in Nat
    BY <1>1, <1>3, <1>4, <1>5
  <2> HIDE DEF D, t, T, u
  <2>2. LET y == MatchBatch(u, clock, tx) IN
        /\ ExchangeGood(D, T, y.filled, y.wallet, logs \o y.logs)
        /\ y.logs \in Seq(LogRow(D)) /\ \A i \in DOMAIN y.logs : y.logs[i].tx = tx
        /\ \A h \in Tickets : filledAmounts[h] <= y.filled[h]
    BY <2>1, MatchBatchGood
  <2>3. QED
    BY <2>2 DEF T, u
<1> HIDE DEF x
<1>7. logs \in Seq(LogRow(D))
  BY <1>4 DEF ExchangeGood
<1>8. LogsGrow /\ \A n \in DOMAIN logs' \ DOMAIN logs : logs'[n].tx = tx
  <2> DEFINE l == x.logs
             S == LogRow(D)
  <2>1. logs \in Seq(S) /\ l \in Seq(S) /\ logs' = logs \o l
    BY <1>5, <1>6, <1>7
  <2>2. \A i \in DOMAIN l : l[i].tx = tx
    BY <1>6
  <2> HIDE DEF l, S
  <2>3. /\ Len(logs \o l) = Len(logs) + Len(l) /\ Len(l) \in Nat /\ Len(logs) \in Nat
        /\ DOMAIN logs = 1 .. Len(logs) /\ DOMAIN (logs \o l) = 1 .. Len(logs) + Len(l)
        /\ \A n \in 1 .. Len(logs) : (logs \o l)[n] = logs[n]
        /\ DOMAIN l = 1 .. Len(l)
    BY <2>1
  <2>4. \A n \in 1 .. Len(logs) + Len(l) :
          n \notin 1 .. Len(logs) => n - Len(logs) \in DOMAIN l /\ (logs \o l)[n] = l[n - Len(logs)]
    BY <2>1, <2>3
  <2>5. QED
    BY <2>1, <2>2, <2>3, <2>4 DEF LogsGrow
<1>9. QED
  BY <1>5, <1>6, <1>8 DEF FillsGrow, D

LEMMA ContractStay ==
  ASSUME IInv, [Next]_vars
  PROVE  ContractInv' /\ FillsGrow /\ LogsGrow
<1>1. DOMAIN orders' = DOMAIN orders /\ Takers' = Takers
  BY SameParties
<1>2. ExchangeGood(DOMAIN orders, Takers, filledAmounts, wallet, logs)
  BY DEF IInv, ContractInv
<1>3. filledAmounts \in [Tickets -> Nat] /\ Len(logs) \in Nat
  BY <1>2 DEF ExchangeGood
<1>4. CASE UNCHANGED <<filledAmounts, wallet, logs>>
  <2>1. FillsGrow /\ LogsGrow
    BY <1>3, <1>4 DEF FillsGrow, LogsGrow
  <2>2. QED
    BY <1>1, <1>2, <1>4, <2>1 DEF ContractInv
<1>5. ASSUME NEW tx \in mempool, Mine(tx) PROVE ContractInv' /\ FillsGrow /\ LogsGrow
  <2>1. CASE MatchOrders(Executor, trades[sent[tx]], clock, tx)
    BY <1>1, <2>1, MinedBatch DEF ContractInv
  <2>2. CASE UNCHANGED exchangeVars
    BY <2>2, <1>4 DEF exchangeVars
  <2>3. QED
    BY <1>5, <2>1, <2>2 DEF Mine
<1>6. CASE AssetsMove
  <2>1. CASE UNCHANGED <<filledAmounts, wallet, logs>>
    BY <2>1, <1>4
  <2>2. ASSUME NEW w \in Withdrawals, WalletDrops(w[1], w[2])
        PROVE  ContractInv' /\ FillsGrow /\ LogsGrow
    <3>1. w[2] \in Nat
      BY SettlementAssumption
    <3>2. /\ wallet' = [wallet EXCEPT ![w[1]] = w[2]] /\ UNCHANGED <<filledAmounts, logs>>
          /\ wallet \in [ReservationKeys -> Nat]
      BY <2>2, <1>2 DEF WalletDrops, ExchangeGood
    <3>3. wallet' \in [ReservationKeys -> Nat]
      BY <3>1, <3>2
    <3>4. ExchangeGood(DOMAIN orders, Takers, filledAmounts, wallet', logs)
      BY <1>2, <3>3 DEF ExchangeGood
    <3>5. FillsGrow /\ LogsGrow
      BY <1>3, <3>2 DEF FillsGrow, LogsGrow
    <3>6. QED
      BY <1>1, <3>2, <3>4, <3>5 DEF ContractInv
  <2>3. QED
    BY <1>6, <2>1, <2>2 DEF AssetsMove, SetOperator
<1>7. QED
  BY <1>4, <1>5, <1>6, NextWriters DEF Writers, WritesExchange

LEMMA ChainStay ==
  ASSUME IInv, [Next]_vars
  PROVE  ChainInv' /\ Len(blocks) <= Len(blocks') /\ (\A b \in DOMAIN blocks : blocks'[b] = blocks[b])
<1>1. /\ blocks \in Seq(Nat) /\ Len(blocks) \in Nat /\ DOMAIN blocks = 1 .. Len(blocks)
      /\ \A b \in DOMAIN blocks : blocks[b] \in Nat /\ blocks[b] <= Len(logs)
      /\ Len(logs) \in Nat
  BY DEF IInv, ChainInv, ContractInv, ExchangeGood
<1>2. Len(logs) <= Len(logs') /\ Len(logs') \in Nat
  BY ContractStay DEF LogsGrow, ContractInv, ExchangeGood
<1>3. mempool' \subseteq DOMAIN sent' /\ DOMAIN receipts' \subseteq DOMAIN sent'
  BY SentStay DEF SentStep
<1>4. CASE UNCHANGED blocks
  <2>1. \A b \in DOMAIN blocks : blocks[b] <= Len(logs')
    BY <1>1, <1>2
  <2>2. QED
    BY <1>1, <1>3, <1>4, <2>1 DEF ChainInv
<1>5. CASE blocks' = Append(blocks, Len(logs'))
  <2> DEFINE n == Len(logs')
  <2>1. n \in Nat
    BY <1>2
  <2>2. blocks' = Append(blocks, n)
    BY <1>5
  <2> HIDE DEF n
  <2>3. /\ blocks' \in Seq(Nat) /\ Len(blocks') = Len(blocks) + 1
        /\ DOMAIN blocks' = 1 .. Len(blocks) + 1
        /\ \A b \in 1 .. Len(blocks) : blocks'[b] = blocks[b]
        /\ blocks'[Len(blocks) + 1] = n
    BY <1>1, <2>1, <2>2
  <2>4. \A b \in DOMAIN blocks' : blocks'[b] <= n
    <3>1. ASSUME NEW b \in DOMAIN blocks' PROVE blocks'[b] <= n
      <4>1. CASE b = Len(blocks) + 1
        BY <4>1, <2>1, <2>3
      <4>2. CASE b # Len(blocks) + 1
        <5>1. b \in DOMAIN blocks
          BY <4>2, <1>1, <2>3
        <5>2. QED
          BY <5>1, <1>1, <1>2, <2>3 DEF n
      <4>3. QED
        BY <4>1, <4>2
    <3>2. QED
      BY <3>1
  <2>5. ChainInv'
    BY <1>3, <2>3, <2>4 DEF ChainInv, n
  <2>6. QED
    BY <1>1, <2>3, <2>5
<1>6. QED
  BY <1>4, <1>5, NextWriters
     DEF Writers, WritesChain, SubmitMatchOrders, SubmitUnanswered, Broadcast, chainVars, Mine,
         LoseTransaction

-----------------------------------------------------------------------------
(* The indexer: what its cursor has passed is processed.                     *)

LEMMA LogsUpToNat ==
  ASSUME IInv, NEW b \in 0 .. Len(blocks)
  PROVE  LogsUpTo(b) \in Nat /\ LogsUpTo(b) <= Len(logs)
<1>1. /\ blocks \in Seq(Nat) /\ Len(blocks) \in Nat /\ DOMAIN blocks = 1 .. Len(blocks)
      /\ \A c \in DOMAIN blocks : blocks[c] \in Nat /\ blocks[c] <= Len(logs)
      /\ Len(logs) \in Nat
  BY DEF IInv, ChainInv, ContractInv, ExchangeGood
<1>2. QED
  BY <1>1 DEF LogsUpTo

LEMMA LogsUpToStay ==
  ASSUME IInv, [Next]_vars, NEW b \in 0 .. Len(blocks)
  PROVE  b \in 0 .. Len(blocks') /\ LogsUpTo(b)' = LogsUpTo(b)
<1>1. /\ Len(blocks) \in Nat /\ DOMAIN blocks = 1 .. Len(blocks) /\ Len(blocks') \in Nat
  BY ChainStay DEF IInv, ChainInv
<1>2. Len(blocks) <= Len(blocks') /\ \A c \in DOMAIN blocks : blocks'[c] = blocks[c]
  BY ChainStay
<1>3. QED
  BY <1>1, <1>2 DEF LogsUpTo

IndexerInv ==
  indexer = IdleIndexer
  \/ /\ indexer \in [to : 1 .. Len(blocks), next : Nat \ {0}]
     /\ 1 .. indexer.next - 1 \subseteq processed

LEMMA IndexStay ==
  ASSUME IInv, [Next]_vars
  PROVE  IndexInv' /\ processed \subseteq processed'
<1>1. /\ cursor # {} /\ cursor \subseteq 0 .. Len(blocks) /\ Len(blocks) \in Nat
      /\ processed \subseteq DOMAIN logs /\ \A c \in cursor : 1 .. LogsUpTo(c) \subseteq processed
      /\ IndexerInv
  BY DEF IInv, IndexInv, ChainInv, IndexerInv
<1>2. DOMAIN logs \subseteq DOMAIN logs' /\ Len(blocks) <= Len(blocks') /\ Len(blocks') \in Nat
  BY ContractStay, ChainStay DEF LogsGrow, ChainInv
<1>3. ASSUME processed \subseteq processed', processed' \subseteq DOMAIN logs',
             UNCHANGED cursor
      PROVE  /\ cursor' # {} /\ cursor' \subseteq 0 .. Len(blocks')
             /\ processed' \subseteq DOMAIN logs'
             /\ \A c \in cursor' : 1 .. LogsUpTo(c)' \subseteq processed'
  <2>1. \A c \in cursor : c \in 0 .. Len(blocks') /\ LogsUpTo(c)' = LogsUpTo(c)
    BY <1>1, LogsUpToStay
  <2>2. QED
    BY <2>1, <1>1, <1>3
<1>4. CASE UNCHANGED <<cursor, processed, indexer>>
  <2>1. IndexerInv'
    <3>1. CASE indexer = IdleIndexer
      BY <3>1, <1>4 DEF IndexerInv, IdleIndexer
    <3>2. CASE indexer # IdleIndexer
      <4>1. indexer \in [to : 1 .. Len(blocks), next : Nat \ {0}] /\ 1 .. indexer.next - 1 \subseteq processed
        BY <1>1, <3>2 DEF IndexerInv
      <4>2. 1 .. Len(blocks) \subseteq 1 .. Len(blocks')
        BY <1>1, <1>2
      <4>3. indexer \in [to : 1 .. Len(blocks'), next : Nat \ {0}]
        BY <4>1, <4>2
      <4>4. QED
        BY <4>1, <4>3, <1>4 DEF IndexerInv
    <3>3. QED
      BY <3>1, <3>2
  <2>2. QED
    BY <1>1, <1>2, <1>3, <1>4, <2>1 DEF IndexInv, IndexerInv
<1>5. CASE StartIndexing
  <2>1. PICK c \in cursor : /\ c < SafeHead
                            /\ indexer' = [to |-> Smaller(SafeHead, c + MaxBlocksPerRun),
                                           next |-> LogsUpTo(c) + 1]
    BY <1>5 DEF StartIndexing
  <2>2. UNCHANGED <<cursor, processed, blocks>>
    BY <1>5 DEF StartIndexing, chainVars
  <2>3. c \in 0 .. Len(blocks) /\ c \in Nat
    BY <1>1
  <2>4. SafeHead \in Nat /\ SafeHead <= Len(blocks)
    BY <1>1, SettlementAssumption DEF SafeHead, Larger
  <2> DEFINE to == Smaller(SafeHead, c + MaxBlocksPerRun)
  <2>5. to \in 1 .. Len(blocks)
    <3>1. MaxBlocksPerRun \in Nat /\ MaxBlocksPerRun > 0
      BY SettlementAssumption
    <3>2. to \in {SafeHead, c + MaxBlocksPerRun} /\ to <= SafeHead
      BY <3>1, <2>3, <2>4 DEF Smaller
    <3> HIDE DEF to
    <3>3. QED
      BY <3>1, <3>2, <2>1, <2>3, <2>4, <1>1
  <2> DEFINE u == LogsUpTo(c)
  <2>6. u \in Nat /\ 1 .. u \subseteq processed
    BY <1>1, <2>3, LogsUpToNat
  <2>7. indexer' = [to |-> to, next |-> u + 1]
    BY <2>1
  <2> HIDE DEF to, u
  <2>8. (u + 1) - 1 = u /\ u + 1 \in Nat \ {0}
    BY <2>6
  <2>9. indexer' \in [to : 1 .. Len(blocks'), next : Nat \ {0}] /\ indexer'.next = u + 1
    BY <2>2, <2>5, <2>7, <2>8
  <2>10. IndexerInv'
    BY <2>2, <2>6, <2>8, <2>9 DEF IndexerInv
  <2>11. QED
    BY <1>1, <1>2, <1>3, <2>2, <2>10 DEF IndexInv, IndexerInv
<1>6. CASE ApplyLog
  <2> DEFINE n == indexer.next
  <2>1. /\ Indexing /\ indexer' = [indexer EXCEPT !.next = n + 1] /\ processed' = processed \cup {n}
        /\ UNCHANGED <<cursor, blocks>>
    BY <1>6 DEF ApplyLog, chainVars
  <2>2. n \in DOMAIN logs /\ n \in Nat
    BY <2>1, NextLog
  <2>3. indexer \in [to : 1 .. Len(blocks), next : Nat \ {0}] /\ 1 .. n - 1 \subseteq processed
    BY <1>1, <2>1 DEF IndexerInv, Indexing
  <2>4. indexer' \in [to : 1 .. Len(blocks'), next : Nat \ {0}] /\ indexer'.next = n + 1
    <3> HIDE DEF n
    <3>1. n + 1 \in Nat \ {0}
      BY <2>2
    <3>2. QED
      BY <2>1, <2>3, <3>1
  <2> HIDE DEF n
  <2>5. 1 .. (n + 1) - 1 \subseteq processed'
    BY <2>1, <2>2, <2>3
  <2>6. IndexerInv'
    BY <2>4, <2>5 DEF IndexerInv
  <2>7. processed \subseteq processed' /\ processed' \subseteq DOMAIN logs'
    BY <2>1, <2>2, <1>1, <1>2
  <2>8. QED
    BY <1>3, <2>1, <2>6, <2>7 DEF IndexInv, IndexerInv
<1>7. CASE IndexingFails
  <2>1. UNCHANGED <<cursor, processed>> /\ indexer' = IdleIndexer
    BY <1>7 DEF IndexingFails
  <2>2. QED
    BY <1>1, <1>2, <1>3, <2>1 DEF IndexInv, IdleIndexer
<1>8. CASE AdvanceCursor
  <2>1. /\ indexer # IdleIndexer /\ ~ Indexing /\ indexer' = IdleIndexer
        /\ cursor' = {Larger(c, indexer.to) : c \in cursor}
        /\ UNCHANGED <<processed, blocks>>
    BY <1>1, <1>8 DEF AdvanceCursor, chainVars
  <2>2. indexer \in [to : 1 .. Len(blocks), next : Nat \ {0}] /\ 1 .. indexer.next - 1 \subseteq processed
    BY <1>1, <2>1 DEF IndexerInv
  <2> DEFINE b == indexer.to
             u == LogsUpTo(b)
             n == indexer.next
  <2>3. b \in 0 .. Len(blocks) /\ n \in Nat /\ 1 .. n - 1 \subseteq processed
    BY <2>2, <1>1
  <2>4. u \in Nat /\ ~ (n <= u)
    <3>1. u \in Nat
      <4> HIDE DEF b
      <4>1. QED
        BY <2>3, LogsUpToNat
    <3>2. QED
      BY <3>1, <2>1 DEF Indexing
  <2>5. 1 .. LogsUpTo(b) \subseteq processed
    <3>1. 1 .. u \subseteq 1 .. n - 1
      <4> HIDE DEF u, n
      <4>1. QED
        BY <2>3, <2>4
    <3>2. QED
      BY <3>1, <2>3
  <2>6. \A c \in cursor' : c \in cursor \cup {b}
    BY <2>1 DEF Larger
  <2>7. \A c \in cursor' : c \in 0 .. Len(blocks) /\ 1 .. LogsUpTo(c) \subseteq processed
    <3> HIDE DEF b
    <3>1. QED
      BY <2>3, <2>5, <2>6, <1>1
  <2>8. \A c \in cursor' : c \in 0 .. Len(blocks') /\ LogsUpTo(c)' = LogsUpTo(c)
    BY <2>7, LogsUpToStay
  <2>9. cursor' # {}
    BY <2>1, <1>1
  <2>10. indexer' = IdleIndexer /\ IdleIndexer' = IdleIndexer
    BY <2>1 DEF IdleIndexer
  <2>11. QED
    BY <1>1, <1>2, <2>1, <2>7, <2>8, <2>9, <2>10 DEF IndexInv
<1>9. CASE Restart
  <2>1. UNCHANGED <<cursor, processed>> /\ indexer' = IdleIndexer
    BY <1>1, <1>9 DEF Restart, BootstrapReconciliationCursor
  <2>2. QED
    BY <1>1, <1>2, <1>3, <2>1 DEF IndexInv, IdleIndexer
<1>10. QED
  BY <1>4, <1>5, <1>6, <1>7, <1>8, <1>9, NextWriters DEF Writers, WritesIndex

-----------------------------------------------------------------------------
(* Attempts are counted before they are made: what the executor has left of   *)
(* them and what the trade has had are together no more than the policy says.  *)

AttemptsInv ==
  /\ \A t \in TradeIds : GetSettlementAttemptCountByTrade(t) <= MaxAttempts
  /\ executor.pc = "attempt" =>
       /\ executor.left >= 1
       /\ GetSettlementAttemptCountByTrade(executor.trade) + executor.left <= MaxAttempts
  /\ executor.pc \in {"submit", "recordAttempt", "recordTrade", "failed", "retrying"} =>
       /\ executor.left >= 1
       /\ GetSettlementAttemptCountByTrade(executor.trade) + executor.left <= MaxAttempts + 1

LEMMA CountStay ==
  ASSUME IInv, [Next]_vars, NEW t \in TradeIds
  PROVE  \/ GetSettlementAttemptCountByTrade(t)' = GetSettlementAttemptCountByTrade(t)
         \/ /\ CreateAttempt /\ t = executor.trade
            /\ GetSettlementAttemptCountByTrade(t)' = GetSettlementAttemptCountByTrade(t) + 1
<1> DEFINE S == {a \in DOMAIN attempts : attempts[a].trade = t}
           S2 == {a \in DOMAIN attempts' : attempts'[a].trade = t}
<1>1. GetSettlementAttemptCountByTrade(t) = Cardinality(S)
      /\ GetSettlementAttemptCountByTrade(t)' = Cardinality(S2)
  BY DEF GetSettlementAttemptCountByTrade
<1>2. \A a \in DOMAIN attempts : attempts'[a].trade = attempts[a].trade
  BY AttemptsStay DEF AttemptsStep
<1>3. CASE DOMAIN attempts' = DOMAIN attempts
  <2>1. S2 = S
    BY <1>2, <1>3
  <2>2. QED
    BY <1>1, <2>1
<1>4. CASE CreateAttempt
  <2> DEFINE n == Len(attempts) + 1
             row == [trade |-> executor.trade, status |-> "CREATED", tx |-> NoTx]
             T == TradeIds
  <2>1. /\ attempts' = Append(attempts, row)
        /\ attempts \in Seq(AttemptRow(T))
    BY <1>4 DEF CreateAttempt, CreateSettlementAttempt, Current, IInv, TablesInv
  <2>2. row \in AttemptRow(T)
    BY <1>4 DEF AttemptRow, CreateAttempt, IInv, ExecutorInv, NoTx, SettlementAttemptStatus
  <2>3. row.trade = executor.trade
    OBVIOUS
  <2> HIDE DEF row, T
  <2>4. /\ DOMAIN attempts = 1 .. Len(attempts) /\ DOMAIN attempts' = 1 .. Len(attempts) + 1
        /\ Len(attempts) \in Nat /\ attempts'[Len(attempts) + 1] = row
    BY <2>1, <2>2
  <2>5. n \notin DOMAIN attempts /\ DOMAIN attempts' = DOMAIN attempts \cup {n} /\ attempts'[n] = row
    BY <2>4
  <2>6. IsFiniteSet(S)
    <3>1. IsFiniteSet(DOMAIN attempts)
      BY <2>4, FS_Interval
    <3>2. QED
      BY <3>1, FS_Subset
  <2> HIDE DEF n
  <2>7. CASE t = executor.trade
    <3>1. S2 = S \cup {n} /\ n \notin S
      BY <1>2, <2>3, <2>5, <2>7
    <3>2. Cardinality(S2) = Cardinality(S) + 1
      <4> HIDE DEF S, S2
      <4>1. QED
        BY <2>6, <3>1, FS_AddElement
    <3>3. QED
      BY <1>1, <1>4, <2>7, <3>2
  <2>8. CASE t # executor.trade
    <3>1. S2 = S
      BY <1>2, <2>3, <2>5, <2>8
    <3>2. QED
      BY <1>1, <3>1
  <2>9. QED
    BY <2>7, <2>8
<1>5. QED
  BY <1>3, <1>4, AttemptsStay DEF AttemptsStep

LEMMA AttemptsInvStay ==
  ASSUME IInv, AttemptsInv, [Next]_vars
  PROVE  AttemptsInv'
<1> DEFINE count(t) == GetSettlementAttemptCountByTrade(t)
           After == {"submit", "recordAttempt", "recordTrade", "failed", "retrying"}
           e == executor'
<1>1. TradeIds' = TradeIds
  BY TradesStay DEF TradesStep
<1>2. \A t \in TradeIds : count(t) \in Nat /\ count(t) <= MaxAttempts
  BY CountNat DEF AttemptsInv
<1>3. MaxAttempts \in Nat /\ executor \in ExecutorRow(TradeIds) /\ executor.left \in Int
  BY SettlementAssumption DEF IInv, ExecutorInv, ExecutorRow
<1>4. executor.pc \notin {"idle", "begin"} => executor.trade \in TradeIds
  BY DEF IInv, ExecutorInv
<1>5. CASE CreateAttempt
  <2>1. executor.trade \in TradeIds /\ executor.pc = "attempt"
    BY <1>4, <1>5 DEF CreateAttempt
  <2>2. executor.left >= 1 /\ count(executor.trade) + executor.left <= MaxAttempts
    BY <2>1 DEF AttemptsInv
  <2>3. e.pc = "submit" /\ e.left = executor.left /\ e.trade = executor.trade
    BY <1>3, <1>5 DEF CreateAttempt, ExecutorRow
  <2>4. \A t \in TradeIds : \/ count(t)' = count(t)
                            \/ t = executor.trade /\ count(t)' = count(t) + 1
    <3> HIDE DEF count
    <3>1. ASSUME NEW t \in TradeIds
          PROVE  count(t)' = count(t) \/ (t = executor.trade /\ count(t)' = count(t) + 1)
      BY CountStay DEF count
    <3>2. QED
      BY <3>1
  <2>0. PICK c \in TradeIds : c = executor.trade
    BY <2>1
  <2> DEFINE d == count(c)'
  <2>5. d = count(c) \/ d = count(c) + 1
    BY <2>4
  <2>6. \A t \in TradeIds : count(t)' <= MaxAttempts
    <3> HIDE DEF count
    <3>1. QED
      BY <2>1, <2>2, <2>4, <1>2, <1>3
  <2>7. d + e.left <= MaxAttempts + 1
    <3> HIDE DEF count, d
    <3>1. QED
      BY <2>0, <2>2, <2>3, <2>5, <1>2, <1>3
  <2>8. GetSettlementAttemptCountByTrade(executor.trade)' = d
    BY <2>0, <2>3 DEF GetSettlementAttemptCountByTrade
  <2>9. QED
    BY <1>1, <2>2, <2>3, <2>6, <2>7, <2>8 DEF AttemptsInv
<1>6. CASE ~ CreateAttempt
  <2>1. \A t \in TradeIds : count(t)' = count(t)
    <3>1. ASSUME NEW t \in TradeIds PROVE count(t)' = count(t)
      BY <1>6, CountStay
    <3>2. QED
      BY <3>1
  <2>2. \A t \in TradeIds' : count(t)' <= MaxAttempts
    BY <2>1, <1>1, <1>2
  <2>3. /\ e.pc = "attempt" => e.trade \in TradeIds /\ e.left >= 1 /\ count(e.trade) + e.left <= MaxAttempts
        /\ e.pc \in After => /\ e.trade \in TradeIds /\ e.left >= 1
                             /\ count(e.trade) + e.left <= MaxAttempts + 1
    <3> HIDE DEF count
    <3>0. /\ executor.pc = "attempt" =>
               executor.left >= 1 /\ count(executor.trade) + executor.left <= MaxAttempts
          /\ executor.pc \in After =>
               executor.left >= 1 /\ count(executor.trade) + executor.left <= MaxAttempts + 1
      BY DEF AttemptsInv, count
    <3>1. CASE UNCHANGED executor
      BY <3>0, <3>1, <1>4
    <3>2. CASE ClaimExecutableTrades
      <4>1. e.pc = "begin"
        BY <3>2, <1>3 DEF ClaimExecutableTrades, ExecutorRow
      <4>2. QED
        BY <4>1
    <3>3. ASSUME NEW t \in executor.batch, BeginTrade(t)
          PROVE  /\ e.trade = t /\ t \in TradeIds /\ e.pc \in {"cleanup", "attempt"}
                 /\ e.pc = "attempt" => e.left >= 1 /\ count(t) + e.left <= MaxAttempts
      <4> DEFINE remaining == CalculateRemainingSettlementAttempts(GetSettlementAttemptCountByTrade(t))
      <4>1. t \in TradeIds
        BY <1>3 DEF ExecutorRow
      <4>2. remaining = Larger(0, MaxAttempts - count(t)) /\ count(t) \in Nat /\ count(t) <= MaxAttempts
        BY <4>1, <1>2 DEF CalculateRemainingSettlementAttempts, count
      <4>3. /\ remaining \in Nat /\ count(t) + remaining <= MaxAttempts
        BY <4>2, <1>3 DEF Larger
      <4>4. /\ e.pc = (IF remaining = 0 THEN "cleanup" ELSE "attempt")
            /\ e.trade = t /\ e.left = remaining
        <5> HIDE DEF remaining
        <5>1. executor' = [executor EXCEPT !.pc = IF remaining = 0 THEN "cleanup" ELSE "attempt",
                                           !.batch = executor.batch \ {t}, !.trade = t,
                                           !.left = remaining, !.before = Len(sent)]
          BY <3>3 DEF BeginTrade, remaining
        <5>2. QED
          BY <5>1, <1>3 DEF ExecutorRow
      <4> HIDE DEF remaining
      <4>5. QED
        BY <4>1, <4>3, <4>4
    <3>4. CASE \/ SubmitMatchOrders \/ SubmitUnanswered \/ RecordAttempt \/ MarkAttemptFailed
               \/ RecordFails
      <4>1. executor.pc \in After
        BY <3>4 DEF SubmitMatchOrders, SubmitUnanswered, RecordAttempt, MarkAttemptFailed, RecordFails
      <4>2. e.pc \in After /\ e.trade = executor.trade /\ e.left = executor.left
        <5>1. CASE SubmitMatchOrders \/ SubmitUnanswered
          BY <5>1, <1>3 DEF SubmitMatchOrders, SubmitUnanswered, ExecutorRow
        <5>2. CASE RecordAttempt \/ MarkAttemptFailed \/ RecordFails
          BY <5>2, <1>3 DEF RecordAttempt, MarkAttemptFailed, RecordFails, ExecutorRow
        <5>3. QED
          BY <3>4, <5>1, <5>2
      <4>3. executor.trade \in TradeIds /\ e.pc # "attempt"
        BY <4>1, <4>2, <1>4
      <4>4. QED
        BY <3>0, <4>1, <4>2, <4>3
    <3>5. CASE MarkTradeRetrying
      <4>1. /\ executor.pc = "retrying"
            /\ e.pc = IF executor.left > 1 THEN "attempt" ELSE "cleanup"
            /\ e.trade = executor.trade /\ e.left = executor.left - 1
        BY <3>5, <1>3 DEF MarkTradeRetrying, ExecutorRow
      <4>2. executor.trade \in TradeIds /\ executor.pc \in After
        BY <4>1, <1>4
      <4>3. count(executor.trade) \in Nat
        BY <4>2, <1>2
      <4>4. e.pc \notin After
        BY <4>1
      <4>5. e.pc = "attempt" => e.left >= 1 /\ count(e.trade) + e.left <= MaxAttempts
        BY <3>0, <4>1, <4>2, <4>3, <1>3
      <4>6. QED
        BY <4>1, <4>2, <4>4, <4>5
    <3>6. CASE executor' = NextInBatch \/ executor' = IdleExecutor
      <4>1. e.pc \in {"idle", "begin"}
        <5>1. CASE executor' = IdleExecutor
          BY <5>1 DEF IdleExecutor
        <5>2. CASE executor' = [IdleExecutor EXCEPT !.pc = "begin", !.batch = executor.batch]
          BY <5>2 DEF IdleExecutor
        <5>3. QED
          BY <3>6, <5>1, <5>2 DEF NextInBatch
      <4>2. QED
        BY <4>1
    <3>7. CASE ReadFailedTrade /\ executor' # IdleExecutor
      <4>1. e.pc = "release"
        BY <3>7, <1>3 DEF ReadFailedTrade, ExecutorRow
      <4>2. QED
        BY <4>1
    <3>8. CASE RecordTrade \/ ReleaseFailedTrade \/ Restart \/ ReadFailedTrade
      <4>1. executor' = NextInBatch \/ executor' = IdleExecutor \/ ReadFailedTrade
        BY <3>8 DEF RecordTrade, ReleaseFailedTrade, Restart
      <4>2. QED
        BY <4>1, <3>6, <3>7
    <3>9. CASE \E t \in executor.batch : BeginTrade(t)
      BY <3>3, <3>9
    <3>10. QED
      BY <1>6, <3>1, <3>2, <3>4, <3>5, <3>8, <3>9, NextWriters DEF Writers, WritesExecutor
  <2>4. e.trade \in TradeIds => GetSettlementAttemptCountByTrade(executor.trade)' = count(e.trade)
    <3>1. GetSettlementAttemptCountByTrade(executor.trade)' = Cardinality({a \in DOMAIN attempts' : attempts'[a].trade = e.trade})
      BY DEF GetSettlementAttemptCountByTrade
    <3>2. ASSUME NEW t \in TradeIds
          PROVE  Cardinality({a \in DOMAIN attempts' : attempts'[a].trade = t}) = count(t)
      BY <3>2, <2>1 DEF GetSettlementAttemptCountByTrade
    <3>3. QED
      BY <3>1, <3>2
  <2> HIDE DEF count
  <2>5. QED
    BY <2>2, <2>3, <2>4 DEF AttemptsInv, count
<1>7. QED
  BY <1>5, <1>6

-----------------------------------------------------------------------------
(* What becomes of a confirmed trade.                                        *)

(* The writes of a trade, and what each finds and leaves.                    *)
TradeMove(t) ==
  \/ /\ \E stale \in SUBSET TradeIds : ResetStaleExecutingTrades(stale)
     /\ trades[t].status = "EXECUTING" /\ trades'[t].status = "RETRYING"
  \/ /\ ClaimExecutableTrades /\ t \in executor'.batch
     /\ Executable(t) /\ trades'[t].status = "EXECUTING"
  \/ MarkTradeRetrying /\ t = executor.trade /\ trades'[t].status = "RETRYING"
  \/ ReleaseFailedTrade /\ t = executor.trade /\ trades'[t].status = "FAILED"
  \/ /\ MarkAttempt \/ FinalizeSwept
     /\ sweep.verdict # "none" /\ t = attempts[Swept].trade
     /\ attempts' = UpdateSettlementAttempt(Swept, sweep.verdict)
     /\ \/ MarkAttempt /\ GetSettlementAttemptCountByTrade(t) < MaxAttempts
        \/ trades'[t].status = "FAILED"
     /\ trades'[t].status # "CONFIRMED"
  \/ /\ ApplyLog /\ indexer.next \in DOMAIN logs /\ trades[t].tx = logs[indexer.next].tx
     /\ trades'[t].status = "CONFIRMED"

LEMMA UpdatedTrade ==
  ASSUME IInv, NEW t \in TradeIds, NEW u \in TradeIds, NEW status,
         trades' = UpdateTradeStatus(t, status)
  PROVE  /\ u # t => trades'[u] = trades[u]
         /\ u = t => trades'[u].status = status /\ trades'[u].tx = trades[u].tx
<1>1. trades[u] \in TradeRow(DOMAIN orders)
  BY OrdersOfInside DEF IInv
<1>2. DOMAIN trades = TradeIds
  BY DEF IInv, TablesInv, TradeIds
<1>3. trades'[u] = IF u = t THEN [trades[u] EXCEPT !.status = status] ELSE trades[u]
  BY <1>2 DEF UpdateTradeStatus
<1>4. QED
  BY <1>1, <1>3 DEF TradeRow

LEMMA TradeMoves ==
  ASSUME IInv, [Next]_vars, NEW t \in TradeIds
  PROVE  \/ trades'[t] = trades[t]
         \/ trades'[t].tx = trades[t].tx /\ TradeMove(t)
         \/ /\ RecordTrade /\ t = executor.trade
            /\ trades'[t].tx = executor.tx /\ trades'[t].status = "SUBMITTED"
<1>1. trades[t] \in TradeRow(DOMAIN orders) /\ DOMAIN trades = TradeIds
  BY OrdersOfInside DEF IInv, TablesInv, TradeIds
<1>2. executor.pc \notin {"idle", "begin"} => executor.trade \in TradeIds
  BY DEF IInv, ExecutorInv
<1>3. ASSUME NEW stale \in SUBSET TradeIds, ResetStaleExecutingTrades(stale), t \in stale
      PROVE  trades'[t].tx = trades[t].tx /\ TradeMove(t)
  <2>1. trades'[t] = [trades[t] EXCEPT !.status = "RETRYING"] /\ trades[t].status = "EXECUTING"
    BY <1>3 DEF ResetStaleExecutingTrades
  <2>2. trades'[t].tx = trades[t].tx /\ trades'[t].status = "RETRYING"
    BY <1>1, <2>1 DEF TradeRow
  <2>3. QED
    BY <1>3, <2>1, <2>2 DEF TradeMove
<1>4. CASE ClaimExecutableTrades /\ trades'[t] # trades[t]
  <2> DEFINE claimed == Oldest({u \in TradeIds : Executable(u) /\ ~TradeLocked(u)}, BatchLimit)
  <2>1. /\ trades' = [u \in TradeIds |-> IF u \in claimed
                                         THEN [trades[u] EXCEPT !.status = "EXECUTING"] ELSE trades[u]]
        /\ executor' = [executor EXCEPT !.pc = "begin", !.batch = claimed]
    BY <1>4 DEF ClaimExecutableTrades
  <2>2. \A u \in claimed : Executable(u)
    BY DEF Oldest
  <2> HIDE DEF claimed
  <2>3. t \in claimed /\ trades'[t] = [trades[t] EXCEPT !.status = "EXECUTING"]
    BY <1>4, <2>1
  <2>4. trades'[t].tx = trades[t].tx /\ trades'[t].status = "EXECUTING"
    BY <1>1, <2>3 DEF TradeRow
  <2>5. executor'.batch = claimed
    BY <2>1 DEF IInv, ExecutorInv, ExecutorRow
  <2>6. QED
    BY <1>4, <2>2, <2>3, <2>4, <2>5 DEF TradeMove
<1>5. CASE RecordTrade
  <2>1. executor.trade \in TradeIds
    BY <1>2, <1>5 DEF RecordTrade
  <2>2. trades'[t] = IF t = executor.trade
                     THEN [[trades[t] EXCEPT !.status = "SUBMITTED"] EXCEPT !.tx = executor.tx]
                     ELSE trades[t]
    BY <1>1, <1>5, <2>1 DEF RecordTrade, MarkTradeSubmitted, Current
  <2>3. QED
    BY <1>1, <1>5, <2>2 DEF TradeRow
<1>6. CASE MarkTradeRetrying
  <2>1. executor.trade \in TradeIds /\ trades' = UpdateTradeStatus(executor.trade, "RETRYING")
    BY <1>2, <1>6 DEF MarkTradeRetrying, Current
  <2>2. QED
    BY <1>6, <2>1, UpdatedTrade DEF TradeMove
<1>7. CASE ReleaseFailedTrade
  <2>1. executor.trade \in TradeIds
    BY <1>2, <1>7 DEF ReleaseFailedTrade
  <2>2. trades' = UpdateTradeStatus(executor.trade, "FAILED") \/ UNCHANGED trades
    BY <1>7 DEF ReleaseFailedTrade, FinalizeFailedTrade, UpdateTradeStatus, ledgerVars, Current
  <2>3. QED
    BY <1>7, <2>1, <2>2, UpdatedTrade DEF TradeMove
<1>8. CASE (MarkAttempt \/ FinalizeSwept) /\ trades' # trades
  <2> DEFINE u == attempts[Swept].trade
  <2>1. sweep.verdict # "none" /\ u \in TradeIds
    BY <1>8, SweptInside DEF MarkAttempt, FinalizeSwept, IInv, SweepInv
  <2>2. /\ attempts' = UpdateSettlementAttempt(Swept, sweep.verdict)
        /\ \/ /\ MarkAttempt /\ ~ (GetSettlementAttemptCountByTrade(u) >= MaxAttempts)
              /\ trades' = UpdateTradeStatus(u, "RETRYING")
           \/ trades' = UpdateTradeStatus(u, "FAILED")
    BY <1>8 DEF MarkAttempt, FinalizeSwept, FinalizeFailedTrade, UpdateTradeStatus, ledgerVars
  <2>3. GetSettlementAttemptCountByTrade(u) \in Nat /\ MaxAttempts \in Nat
    BY CountNat, SettlementAssumption
  <2> HIDE DEF u
  <2>4. t # u => trades'[t] = trades[t]
    BY <2>1, <2>2, UpdatedTrade
  <2>5. t = u => trades'[t].tx = trades[t].tx /\ TradeMove(t)
    <3> SUFFICES ASSUME t = u PROVE trades'[t].tx = trades[t].tx /\ TradeMove(t)
      OBVIOUS
    <3>1. t = attempts[Swept].trade
      BY DEF u
    <3>2. CASE trades' = UpdateTradeStatus(u, "FAILED")
      <4>1. trades'[t].status = "FAILED" /\ trades'[t].tx = trades[t].tx
        BY <2>1, <3>2, UpdatedTrade
      <4>2. QED
        BY <1>8, <2>1, <2>2, <3>1, <4>1 DEF TradeMove
    <3>3. CASE /\ MarkAttempt /\ ~ (GetSettlementAttemptCountByTrade(u) >= MaxAttempts)
               /\ trades' = UpdateTradeStatus(u, "RETRYING")
      <4>1. trades'[t].status = "RETRYING" /\ trades'[t].tx = trades[t].tx
        BY <2>1, <3>3, UpdatedTrade
      <4>2. GetSettlementAttemptCountByTrade(t) < MaxAttempts
        BY <2>3, <3>3
      <4>3. QED
        BY <1>8, <2>1, <2>2, <3>1, <3>3, <4>1, <4>2 DEF TradeMove
    <3>4. QED
      BY <2>2, <3>2, <3>3
  <2>6. QED
    BY <2>4, <2>5
<1>9. CASE ApplyLog /\ trades' # trades
  <2>1. ApplyOrdersMatched(logs[indexer.next]) /\ Indexing
    BY <1>9 DEF ApplyLog, ledgerVars
  <2>2. PICK u \in GetTradeByTxHash(logs[indexer.next].tx) : trades' = UpdateTradeStatus(u, "CONFIRMED")
    BY <2>1 DEF ApplyOrdersMatched
  <2>3. u \in TradeIds /\ trades[u].tx = logs[indexer.next].tx
    BY <2>2 DEF GetTradeByTxHash
  <2>4. indexer.next \in DOMAIN logs
    BY <2>1, NextLog
  <2>5. CASE t # u
    BY <2>2, <2>3, <2>5, UpdatedTrade
  <2>6. CASE t = u
    <3>1. trades'[t].status = "CONFIRMED" /\ trades'[t].tx = trades[t].tx
      BY <2>2, <2>3, <2>6, UpdatedTrade
    <3>2. QED
      BY <1>9, <2>3, <2>4, <2>6, <3>1 DEF TradeMove
  <2>7. QED
    BY <2>5, <2>6
<1>10. CASE \E stale \in SUBSET TradeIds : ResetStaleExecutingTrades(stale)
  <2>1. PICK stale \in SUBSET TradeIds : ResetStaleExecutingTrades(stale)
    BY <1>10
  <2>2. t \notin stale => trades'[t] = trades[t]
    BY <2>1 DEF ResetStaleExecutingTrades
  <2>3. QED
    BY <2>1, <2>2, <1>3
<1>11. QED
  BY <1>4, <1>5, <1>6, <1>7, <1>8, <1>9, <1>10, NextWriters DEF Writers, WritesTrades

(* An attempt keeps its transaction, once it has one.                        *)
LEMMA AttemptMoves ==
  ASSUME IInv, [Next]_vars, NEW a \in DOMAIN attempts
  PROVE  /\ a \in DOMAIN attempts' /\ attempts'[a].trade = attempts[a].trade
         /\ \/ attempts'[a].tx = attempts[a].tx
            \/ RecordAttempt /\ a = executor.attempt /\ attempts'[a].tx = executor.tx
<1> DEFINE T == TradeIds
<1>1. a \in DOMAIN attempts' /\ attempts'[a].trade = attempts[a].trade
  BY AttemptsStay DEF AttemptsStep
<1>2. attempts \in Seq(AttemptRow(T))
  BY DEF IInv, TablesInv
<1> HIDE DEF T
<1>3. attempts[a] \in AttemptRow(T)
  BY <1>2
<1>4. CASE UNCHANGED attempts
  BY <1>1, <1>4
<1>5. CASE CreateAttempt
  <2>1. attempts' = Append(attempts, [trade |-> Current, status |-> "CREATED", tx |-> NoTx])
    BY <1>5 DEF CreateAttempt, CreateSettlementAttempt
  <2>2. attempts'[a] = attempts[a]
    BY <1>2, <2>1
  <2>3. QED
    BY <1>1, <2>2
<1>6. CASE RecordAttempt
  <2>1. attempts'[a] = IF a = executor.attempt
                       THEN [[attempts[a] EXCEPT !.status = "SUBMITTED"] EXCEPT !.tx = executor.tx]
                       ELSE attempts[a]
    BY <1>2, <1>6 DEF RecordAttempt, MarkSettlementAttemptSubmitted
  <2>2. QED
    BY <1>1, <1>3, <1>6, <2>1 DEF AttemptRow
<1>7. ASSUME NEW b, NEW status, attempts' = UpdateSettlementAttempt(b, status)
      PROVE  attempts'[a].tx = attempts[a].tx
  <2>1. attempts'[a] = IF a = b THEN [attempts[a] EXCEPT !.status = status] ELSE attempts[a]
    BY <1>2, <1>7 DEF UpdateSettlementAttempt
  <2>2. QED
    BY <1>3, <2>1 DEF AttemptRow
<1>8. CASE MarkAttemptFailed \/ MarkAttempt \/ FinalizeSwept
  <2>1. \/ UNCHANGED attempts \/ attempts' = UpdateSettlementAttempt(executor.attempt, "FAILED")
        \/ attempts' = UpdateSettlementAttempt(Swept, sweep.verdict)
    BY <1>8 DEF MarkAttemptFailed, MarkAttempt, FinalizeSwept
  <2>2. QED
    BY <1>1, <1>7, <2>1
<1>9. CASE ApplyLog
  <2> DEFINE S == GetSettlementAttemptByTxHash(logs[indexer.next].tx)
  <2>1. \/ UNCHANGED attempts
        \/ attempts' = [b \in DOMAIN attempts |-> IF b \in S THEN [attempts[b] EXCEPT !.status = "MINED"]
                                                  ELSE attempts[b]]
    BY <1>9 DEF ApplyLog, ApplyOrdersMatched
  <2> HIDE DEF S
  <2>2. attempts'[a] \in {attempts[a], [attempts[a] EXCEPT !.status = "MINED"]}
    BY <2>1
  <2>3. QED
    BY <1>1, <1>3, <2>2 DEF AttemptRow
<1>10. QED
  BY <1>4, <1>5, <1>6, <1>8, <1>9, NextWriters DEF Writers, WritesAttempts

(* A transaction of an attempt is mined at most once; who is confirmed had   *)
(* his mined, and every transaction of a trade is one of its attempts'.      *)
Succeeded == {tx \in DOMAIN receipts : receipts[tx]}
MinedInv ==
  /\ \A n \in DOMAIN logs : logs[n].tx \in Succeeded
  /\ mempool \cap DOMAIN receipts = {}
  /\ \A t \in TradeIds : trades[t].status = "CONFIRMED" => trades[t].tx \in Succeeded
TracesInv ==
  \A t \in TradeIds : trades[t].tx # NoTx =>
    \E b \in DOMAIN attempts : attempts[b].trade = t /\ attempts[b].tx = trades[t].tx

(* The attempt the executor works on is not the one whose transaction its    *)
(* trade has, and it gives a trade up only after all its attempts.           *)
Submitting == {"submit", "recordAttempt", "recordTrade", "failed", "retrying"}
CurrentInv ==
  /\ executor.pc \in Submitting =>
       /\ executor.attempt \in DOMAIN attempts /\ attempts[executor.attempt].trade = executor.trade
       /\ \A t \in TradeIds : trades[t].tx # NoTx => trades[t].tx # attempts[executor.attempt].tx
       /\ GetSettlementAttemptCountByTrade(executor.trade) + executor.left >= MaxAttempts + 1
  /\ executor.pc \in {"submit", "recordAttempt"} => attempts[executor.attempt].tx = NoTx
  /\ executor.pc \in {"recordAttempt", "recordTrade"} =>
       executor.tx # NoTx /\ \A t \in TradeIds : trades[t].tx # executor.tx
  /\ executor.pc = "recordTrade" => attempts[executor.attempt].tx = executor.tx
  /\ executor.pc = "attempt" =>
       GetSettlementAttemptCountByTrade(executor.trade) + executor.left >= MaxAttempts
  /\ executor.pc \in {"cleanup", "release"} =>
       GetSettlementAttemptCountByTrade(executor.trade) >= MaxAttempts

(* What the sweep found reverted was mined without success.                  *)
VerdictInv ==
  sweep.verdict = "REVERTED" =>
    attempts[Swept].tx \in DOMAIN receipts /\ ~ receipts[attempts[Swept].tx]

(* Where there is one attempt, a trade that was sent is not taken again.     *)
OnceInv ==
  MaxAttempts = 1 =>
    /\ \A t \in TradeIds :
         trades[t].tx # NoTx => trades[t].status \notin {"MATCHED", "EXECUTING", "RETRYING"}
    /\ \A t \in executor.batch : trades[t].tx = NoTx
    /\ executor.pc \notin {"idle", "begin"} =>
         trades[executor.trade].tx = NoTx /\ executor.trade \notin executor.batch

SettledInv == MinedInv /\ TracesInv /\ CurrentInv /\ VerdictInv /\ OnceInv

(* The attempts of a trade that one knows of are among those counted.        *)
LEMMA CountAtLeast ==
  ASSUME IInv, NEW t, NEW a \in DOMAIN attempts, attempts[a].trade = t
  PROVE  /\ GetSettlementAttemptCountByTrade(t) >= 1
         /\ \A b \in DOMAIN attempts :
              attempts[b].trade = t /\ b # a => GetSettlementAttemptCountByTrade(t) > 1
<1> DEFINE S == {b \in DOMAIN attempts : attempts[b].trade = t}
<1>1. DOMAIN attempts = 1 .. Len(attempts) /\ Len(attempts) \in Nat
  BY DEF IInv, TablesInv
<1>2. IsFiniteSet(S)
  <2>1. IsFiniteSet(DOMAIN attempts)
    BY <1>1, FS_Interval
  <2>2. QED
    BY <2>1, FS_Subset
<1>3. GetSettlementAttemptCountByTrade(t) = Cardinality(S) /\ a \in S
  BY DEF GetSettlementAttemptCountByTrade
<1>4. \A b \in DOMAIN attempts : attempts[b].trade = t => b \in S
  OBVIOUS
<1> HIDE DEF S
<1>5. Cardinality({a}) = 1 /\ Cardinality(S) \in Nat
  BY <1>2, FS_Singleton, FS_CardinalityType
<1>6. Cardinality(S) >= 1
  <2>1. Cardinality({a}) <= Cardinality(S)
    BY <1>2, <1>3, FS_Subset
  <2>2. QED
    BY <2>1, <1>5
<1>7. ASSUME NEW b \in S, b # a PROVE Cardinality(S) > 1
  <2> DEFINE one == {a}
  <2>1. IsFiniteSet(one) /\ b \notin one /\ Cardinality(one) = 1
    BY <1>5, <1>7, FS_Singleton
  <2> HIDE DEF one
  <2>2. Cardinality(one \cup {b}) = Cardinality(one) + 1
    BY <2>1, FS_AddElement
  <2> USE DEF one
  <2>3. Cardinality(one \cup {b}) <= Cardinality(S)
    <3>1. one \cup {b} \subseteq S
      BY <1>3
    <3>2. QED
      BY <3>1, <1>2, FS_Subset
  <2>4. QED
    BY <2>1, <2>2, <2>3, <1>5
<1>8. QED
  BY <1>3, <1>4, <1>6, <1>7

(* A mined transaction stays mined, with its outcome; nothing else changes   *)
(* what is mined, and the events are of transactions that succeeded.         *)
LEMMA ReceiptsStay ==
  ASSUME IInv, MinedInv, [Next]_vars
  PROVE  /\ DOMAIN receipts \subseteq DOMAIN receipts'
         /\ \A tx \in DOMAIN receipts : receipts'[tx] = receipts[tx]
         /\ mempool' \cap DOMAIN receipts' = {}
         /\ \A n \in DOMAIN logs' : logs'[n].tx \in Succeeded'
<1>1. /\ mempool \subseteq DOMAIN sent /\ DOMAIN receipts \subseteq DOMAIN sent
      /\ DOMAIN sent = 1 .. Len(sent) /\ Len(sent) \in Nat
      /\ mempool \cap DOMAIN receipts = {} /\ \A n \in DOMAIN logs : logs[n].tx \in Succeeded
  BY DEF IInv, TablesInv, ChainInv, MinedInv
<1>2. CASE UNCHANGED receipts /\ mempool' \subseteq mempool \cup {Len(sent) + 1} /\ UNCHANGED logs
  <2>1. Len(sent) + 1 \notin DOMAIN receipts
    BY <1>1
  <2>2. QED
    BY <1>1, <1>2, <2>1 DEF Succeeded
<1>3. ASSUME NEW tx \in mempool, Mine(tx)
      PROVE  /\ DOMAIN receipts \subseteq DOMAIN receipts'
             /\ \A r \in DOMAIN receipts : receipts'[r] = receipts[r]
             /\ mempool' \cap DOMAIN receipts' = {}
             /\ \A n \in DOMAIN logs' : logs'[n].tx \in Succeeded'
  <2>1. /\ mempool' = mempool \ {tx} /\ DOMAIN receipts' = DOMAIN receipts \cup {tx}
        /\ receipts'[tx] = Succeeds(tx)
        /\ \A r \in DOMAIN receipts : receipts'[r] = receipts[r]
    BY <1>1, <1>3 DEF Mine, Include
  <2>2. CASE Succeeds(tx)
    <3>1. MatchOrders(Executor, trades[sent[tx]], clock, tx)
      BY <1>3, <2>2 DEF Mine
    <3>2. \A n \in DOMAIN logs' : logs'[n].tx = tx \/ (n \in DOMAIN logs /\ logs'[n] = logs[n])
      BY <3>1, MinedBatch DEF LogsGrow
    <3>3. QED
      BY <1>1, <2>1, <2>2, <3>2 DEF Succeeded
  <2>3. CASE ~ Succeeds(tx)
    <3>1. UNCHANGED logs
      BY <1>3, <2>3 DEF Mine, exchangeVars
    <3>2. QED
      BY <1>1, <2>1, <3>1 DEF Succeeded
  <2>4. QED
    BY <2>2, <2>3
<1>4. CASE \E tx \in mempool : Mine(tx)
  BY <1>3, <1>4
<1>5. CASE ~ \E tx \in mempool : Mine(tx)
  <2>1. UNCHANGED logs
    BY <1>5, NextWriters DEF Writers, WritesExchange, AssetsMove, WalletDrops, SetOperator
  <2>2. UNCHANGED receipts /\ mempool' \subseteq mempool \cup {Len(sent) + 1}
    BY <1>5, NextWriters
       DEF Writers, WritesChain, SubmitMatchOrders, SubmitUnanswered, Broadcast, chainVars,
           LoseTransaction
  <2>3. QED
    BY <1>2, <2>1, <2>2
<1>6. QED
  BY <1>4, <1>5

LEMMA MinedStay ==
  ASSUME IInv, MinedInv, [Next]_vars
  PROVE  MinedInv'
<1>1. TradeIds' = TradeIds
  BY TradesStay DEF TradesStep
<1>2. Succeeded \subseteq Succeeded'
  BY ReceiptsStay DEF Succeeded
<1>3. ASSUME NEW t \in TradeIds, trades'[t].status = "CONFIRMED" PROVE trades'[t].tx \in Succeeded'
  <2>1. trades'[t].tx \in Succeeded
    <3>1. CASE trades'[t] = trades[t]
      BY <1>3, <3>1 DEF MinedInv
    <3>2. CASE trades'[t].tx = trades[t].tx /\ TradeMove(t)
      BY <1>3, <3>2 DEF MinedInv, TradeMove
    <3>3. QED
      BY <1>3, <3>1, <3>2, TradeMoves
  <2>2. QED
    BY <1>2, <2>1
<1>4. QED
  BY <1>1, <1>3, ReceiptsStay DEF MinedInv

LEMMA TracesStay ==
  ASSUME IInv, TracesInv, CurrentInv, [Next]_vars
  PROVE  TracesInv'
<1>1. TradeIds' = TradeIds
  BY TradesStay DEF TradesStep
<1>2. SUFFICES ASSUME NEW t \in TradeIds, trades'[t].tx # NoTx
               PROVE  \E b \in DOMAIN attempts' : attempts'[b].trade = t /\ attempts'[b].tx = trades'[t].tx
  BY <1>1 DEF TracesInv
<1>3. CASE trades'[t].tx = trades[t].tx
  <2>1. PICK b \in DOMAIN attempts : attempts[b].trade = t /\ attempts[b].tx = trades[t].tx
    BY <1>2, <1>3 DEF TracesInv
  <2>2. RecordAttempt => attempts[executor.attempt].tx = NoTx
    BY DEF RecordAttempt, CurrentInv
  <2>3. b \in DOMAIN attempts' /\ attempts'[b].trade = t /\ attempts'[b].tx = attempts[b].tx
    BY <1>2, <1>3, <2>1, <2>2, AttemptMoves
  <2>4. QED
    BY <1>3, <2>1, <2>3
<1>4. CASE RecordTrade /\ t = executor.trade /\ trades'[t].tx = executor.tx
  <2>1. /\ executor.attempt \in DOMAIN attempts /\ attempts[executor.attempt].trade = t
        /\ attempts[executor.attempt].tx = executor.tx /\ UNCHANGED attempts
    BY <1>4 DEF RecordTrade, CurrentInv, Submitting
  <2>2. QED
    BY <1>4, <2>1
<1>5. QED
  BY <1>3, <1>4, TradeMoves

LEMMA CurrentStay ==
  ASSUME IInv, CurrentInv, [Next]_vars
  PROVE  CurrentInv'
<1> DEFINE e == executor'
           n == [t \in TradeIds |-> GetSettlementAttemptCountByTrade(t)]
           m == [t \in TradeIds |-> Cardinality({a \in DOMAIN attempts' : attempts'[a].trade = t})]
<1>1. TradeIds' = TradeIds /\ MaxAttempts \in Nat \ {0}
  BY TradesStay, SettlementAssumption DEF TradesStep
<1>2. executor \in ExecutorRow(TradeIds) /\ executor.left \in Int
      /\ (executor.pc \notin {"idle", "begin"} => executor.trade \in TradeIds)
  BY DEF IInv, ExecutorInv, ExecutorRow
<1>3. \A t \in TradeIds : /\ n[t] \in Nat /\ m[t] \in Nat
                          /\ m[t] = n[t] \/ (CreateAttempt /\ t = executor.trade /\ m[t] = n[t] + 1)
  <2>1. ASSUME NEW t \in TradeIds
        PROVE  /\ n[t] \in Nat
               /\ m[t] = n[t] \/ (CreateAttempt /\ t = executor.trade /\ m[t] = n[t] + 1)
    <3>1. m[t] = GetSettlementAttemptCountByTrade(t)'
      BY DEF GetSettlementAttemptCountByTrade
    <3>2. QED
      BY <3>1, CountNat, CountStay
  <2> HIDE DEF n, m
  <2>2. QED
    BY <2>1
<1>4. \A t \in TradeIds : trades'[t].tx = trades[t].tx \/ RecordTrade
  BY TradeMoves
<1>5. \A a \in DOMAIN attempts : /\ a \in DOMAIN attempts' /\ attempts'[a].trade = attempts[a].trade
                                 /\ attempts'[a].tx = attempts[a].tx \/ RecordAttempt
  BY AttemptMoves
<1>6. /\ executor.pc \in Submitting =>
           /\ executor.attempt \in DOMAIN attempts /\ attempts[executor.attempt].trade = executor.trade
           /\ \A t \in TradeIds : trades[t].tx # NoTx => trades[t].tx # attempts[executor.attempt].tx
           /\ n[executor.trade] + executor.left >= MaxAttempts + 1
      /\ executor.pc = "attempt" => n[executor.trade] + executor.left >= MaxAttempts
      /\ executor.pc \in {"cleanup", "release"} => n[executor.trade] >= MaxAttempts
  BY <1>2 DEF CurrentInv, Submitting
<1>7. e.trade \in TradeIds => GetSettlementAttemptCountByTrade(executor.trade)' = m[e.trade]
  BY DEF GetSettlementAttemptCountByTrade
<1> DEFINE Good ==
             /\ e.pc \in Submitting =>
                  /\ e.trade \in TradeIds
                  /\ e.attempt \in DOMAIN attempts' /\ attempts'[e.attempt].trade = e.trade
                  /\ \A t \in TradeIds : trades'[t].tx # NoTx => trades'[t].tx # attempts'[e.attempt].tx
                  /\ m[e.trade] + e.left >= MaxAttempts + 1
             /\ e.pc \in {"submit", "recordAttempt"} => attempts'[e.attempt].tx = NoTx
             /\ e.pc \in {"recordAttempt", "recordTrade"} =>
                  e.tx # NoTx /\ \A t \in TradeIds : trades'[t].tx # e.tx
             /\ e.pc = "recordTrade" => attempts'[e.attempt].tx = e.tx
             /\ e.pc = "attempt" => e.trade \in TradeIds /\ m[e.trade] + e.left >= MaxAttempts
             /\ e.pc \in {"cleanup", "release"} => e.trade \in TradeIds /\ m[e.trade] >= MaxAttempts
<1> HIDE DEF n, m
<1>8. ASSUME executor.pc \in Submitting, e.pc \in Submitting, ~ RecordTrade, ~ CreateAttempt, ~ RecordAttempt,
             e.trade = executor.trade, e.attempt = executor.attempt, e.left = executor.left
      PROVE  /\ e.trade \in TradeIds
             /\ e.attempt \in DOMAIN attempts' /\ attempts'[e.attempt].trade = e.trade
             /\ attempts'[e.attempt].tx = attempts[executor.attempt].tx
             /\ \A t \in TradeIds : trades'[t].tx # NoTx => trades'[t].tx # attempts'[e.attempt].tx
             /\ m[e.trade] + e.left >= MaxAttempts + 1
  <2>1. executor.trade \in TradeIds /\ m[e.trade] = n[executor.trade]
    BY <1>2, <1>3, <1>8 DEF Submitting
  <2>2. QED
    BY <1>4, <1>5, <1>6, <1>8, <2>1
<1>9. CASE UNCHANGED executor
  <2>1. ~ RecordTrade /\ ~ CreateAttempt /\ ~ RecordAttempt
    <3>1. RecordTrade => e.pc \in {"idle", "begin"}
      BY DEF RecordTrade, NextInBatch, IdleExecutor
    <3>2. CreateAttempt => e.pc = "submit"
      BY <1>2 DEF CreateAttempt, ExecutorRow
    <3>3. RecordAttempt => e.pc = "recordTrade"
      BY <1>2 DEF RecordAttempt, ExecutorRow
    <3>4. QED
      BY <1>9, <3>1, <3>2, <3>3 DEF RecordTrade, CreateAttempt, RecordAttempt
  <2>2. e.pc \in {"attempt", "cleanup", "release"} => e.trade \in TradeIds /\ m[e.trade] = n[executor.trade]
    BY <1>2, <1>3, <1>9, <2>1
  <2>3. /\ e.pc \in {"submit", "recordAttempt"} => attempts[e.attempt].tx = NoTx
        /\ e.pc \in {"recordAttempt", "recordTrade"} =>
             e.tx # NoTx /\ \A t \in TradeIds : trades'[t].tx # e.tx
        /\ e.pc = "recordTrade" => attempts[e.attempt].tx = e.tx
    BY <1>4, <1>9, <2>1 DEF CurrentInv
  <2>4. Good
    BY <1>6, <1>8, <1>9, <2>1, <2>2, <2>3 DEF Submitting
  <2>5. QED
    BY <1>1, <1>7, <2>4 DEF CurrentInv
<1>10. CASE e.pc \in {"idle", "begin"}
  BY <1>10 DEF CurrentInv, Submitting
<1>11. ASSUME NEW t \in executor.batch, BeginTrade(t) PROVE CurrentInv'
  <2> DEFINE remaining == CalculateRemainingSettlementAttempts(GetSettlementAttemptCountByTrade(t))
  <2>1. t \in TradeIds
    BY <1>2 DEF ExecutorRow
  <2>2. remaining = Larger(0, MaxAttempts - n[t]) /\ n[t] \in Nat
    BY <1>3, <2>1 DEF CalculateRemainingSettlementAttempts, n
  <2>3. remaining \in Nat /\ n[t] + remaining >= MaxAttempts
    BY <1>1, <2>2 DEF Larger
  <2>4. /\ e.pc = (IF remaining = 0 THEN "cleanup" ELSE "attempt") /\ e.trade = t /\ e.left = remaining
    <3> HIDE DEF remaining
    <3>1. executor' = [executor EXCEPT !.pc = IF remaining = 0 THEN "cleanup" ELSE "attempt",
                                       !.batch = executor.batch \ {t}, !.trade = t,
                                       !.left = remaining, !.before = Len(sent)]
      BY <1>11 DEF BeginTrade, remaining
    <3>2. QED
      BY <3>1, <1>2 DEF ExecutorRow
  <2> HIDE DEF remaining
  <2>5. m[t] = n[t]
    BY <1>3, <1>11, <2>1 DEF BeginTrade, CreateAttempt
  <2>6. Good
    BY <2>1, <2>2, <2>3, <2>4, <2>5 DEF Submitting
  <2>7. QED
    BY <1>1, <1>7, <2>6 DEF CurrentInv
<1>12. CASE CreateAttempt
  <2> DEFINE k == Len(attempts) + 1
             row == [trade |-> executor.trade, status |-> "CREATED", tx |-> NoTx]
             T == TradeIds
  <2>1. /\ executor.pc = "attempt" /\ executor.trade \in TradeIds
        /\ e.pc = "submit" /\ e.attempt = k /\ e.left = executor.left /\ e.trade = executor.trade
    BY <1>2, <1>12 DEF CreateAttempt, ExecutorRow
  <2>2. attempts' = Append(attempts, row) /\ attempts \in Seq(AttemptRow(T))
    BY <1>12 DEF CreateAttempt, CreateSettlementAttempt, Current, IInv, TablesInv
  <2>3. row.trade = executor.trade /\ row.tx = NoTx
    OBVIOUS
  <2> HIDE DEF row, T
  <2>4. k \in DOMAIN attempts' /\ attempts'[k] = row
    BY <2>2
  <2>5. m[e.trade] + e.left >= MaxAttempts + 1
    <3>1. m[e.trade] = n[executor.trade] + 1
      <4>1. GetSettlementAttemptCountByTrade(executor.trade)' = m[executor.trade]
        BY <1>7, <2>1
      <4> DEFINE S == {a \in DOMAIN attempts : attempts[a].trade = executor.trade}
                 S2 == {a \in DOMAIN attempts' : attempts'[a].trade = executor.trade}
      <4>2. /\ DOMAIN attempts = 1 .. Len(attempts) /\ DOMAIN attempts' = 1 .. Len(attempts) + 1
            /\ Len(attempts) \in Nat
        BY <2>2
      <4>3. S2 = S \cup {k} /\ k \notin S
        BY <1>5, <1>12, <2>3, <2>4, <4>2
      <4>4. S2 # S
        BY <4>3
      <4>5. Cardinality(S) = n[executor.trade] /\ Cardinality(S2) = m[executor.trade]
        BY <2>1 DEF n, m, GetSettlementAttemptCountByTrade
      <4>6. IsFiniteSet(S)
        <5>1. IsFiniteSet(DOMAIN attempts)
          BY <4>2, FS_Interval
        <5>2. QED
          BY <5>1, FS_Subset
      <4> HIDE DEF S, S2
      <4>7. Cardinality(S2) = Cardinality(S) + 1
        BY <4>3, <4>6, FS_AddElement
      <4>8. QED
        BY <2>1, <4>5, <4>7
    <3>2. QED
      BY <1>1, <1>2, <1>3, <1>6, <2>1, <3>1
  <2>6. Good
    BY <2>1, <2>3, <2>4, <2>5 DEF Submitting
  <2>7. QED
    BY <1>1, <1>7, <2>6 DEF CurrentInv
<1>13. CASE RecordAttempt
  <2>1. /\ executor.pc = "recordAttempt" /\ e.pc = "recordTrade" /\ e.trade = executor.trade
        /\ e.attempt = executor.attempt /\ e.left = executor.left /\ e.tx = executor.tx
    BY <1>2, <1>13 DEF RecordAttempt, ExecutorRow
  <2>2. /\ executor.attempt \in DOMAIN attempts /\ attempts[executor.attempt].trade = executor.trade
        /\ executor.trade \in TradeIds
        /\ executor.tx # NoTx /\ \A t \in TradeIds : trades[t].tx # executor.tx
    BY <1>2, <1>6, <2>1 DEF CurrentInv, Submitting
  <2>3. attempts'[e.attempt].tx = executor.tx
    <3> DEFINE T == TradeIds
               a == executor.attempt
               row == [[attempts[a] EXCEPT !.status = "SUBMITTED"] EXCEPT !.tx = executor.tx]
    <3>1. attempts \in Seq(AttemptRow(T)) /\ attempts' = [attempts EXCEPT ![a] = row]
      BY <1>13 DEF RecordAttempt, MarkSettlementAttemptSubmitted, IInv, TablesInv
    <3> HIDE DEF T
    <3>2. attempts[a] \in AttemptRow(T)
      BY <2>2, <3>1
    <3>3. row.tx = executor.tx
      BY <3>2 DEF AttemptRow
    <3> HIDE DEF row
    <3>4. QED
      BY <2>1, <2>2, <3>1, <3>3
  <2>4. UNCHANGED trades /\ m[e.trade] = n[executor.trade]
    BY <1>3, <1>13, <2>1, <2>2 DEF RecordAttempt, CreateAttempt, ledgerVars
  <2>5. m[e.trade] + e.left >= MaxAttempts + 1
    BY <1>6, <2>1, <2>4 DEF Submitting
  <2>6. Good
    BY <1>5, <2>1, <2>2, <2>3, <2>4, <2>5 DEF Submitting
  <2>7. QED
    BY <1>1, <1>7, <2>6 DEF CurrentInv
<1>14. CASE SubmitMatchOrders \/ SubmitUnanswered \/ MarkAttemptFailed \/ RecordFails
  <2>1. /\ executor.pc \in Submitting /\ e.trade = executor.trade
        /\ e.attempt = executor.attempt /\ e.left = executor.left
        /\ \/ e.pc \in {"failed", "retrying"}
           \/ /\ executor.pc = "submit" /\ e.pc = "recordAttempt" /\ e.tx = Len(sent) + 1
              /\ UNCHANGED trades
    <3>1. CASE SubmitMatchOrders
      BY <1>2, <3>1 DEF SubmitMatchOrders, ExecutorRow, Submitting, ledgerVars
    <3>2. CASE SubmitUnanswered \/ MarkAttemptFailed \/ RecordFails
      BY <1>2, <3>2 DEF SubmitUnanswered, MarkAttemptFailed, RecordFails, ExecutorRow, Submitting
    <3>3. QED
      BY <1>14, <3>1, <3>2
  <2>2. ~ RecordTrade /\ ~ CreateAttempt /\ ~ RecordAttempt
    <3>1. RecordTrade => e.pc \in {"idle", "begin"}
      BY DEF RecordTrade, NextInBatch, IdleExecutor
    <3>2. RecordAttempt => e.pc = "recordTrade"
      BY <1>2 DEF RecordAttempt, ExecutorRow
    <3>3. CreateAttempt => executor.pc = "attempt"
      BY DEF CreateAttempt
    <3>4. QED
      BY <2>1, <3>1, <3>2, <3>3 DEF Submitting
  <2>3. e.pc \in Submitting
    BY <2>1 DEF Submitting
  <2>4. e.pc = "recordAttempt" =>
          /\ attempts'[e.attempt].tx = NoTx
          /\ e.tx # NoTx /\ \A t \in TradeIds : trades'[t].tx # e.tx
    <3>1. Len(sent) \in Nat /\ \A t \in TradeIds : trades[t].tx <= Len(sent)
      BY DEF IInv, TablesInv
    <3>2. \A t \in TradeIds : trades[t].tx \in Nat
      BY OrdersOfInside DEF IInv, TradeRow
    <3>3. \A t \in TradeIds : trades[t].tx # Len(sent) + 1
      BY <3>1, <3>2
    <3>4. Len(sent) + 1 # NoTx
      BY <3>1 DEF NoTx
    <3>5. executor.pc = "submit" => attempts[executor.attempt].tx = NoTx
      BY DEF CurrentInv
    <3>6. attempts'[e.attempt].tx = attempts[executor.attempt].tx
      BY <1>8, <2>1, <2>2, <2>3
    <3>7. QED
      BY <2>1, <3>3, <3>4, <3>5, <3>6
  <2>5. /\ e.trade \in TradeIds
        /\ e.attempt \in DOMAIN attempts' /\ attempts'[e.attempt].trade = e.trade
        /\ \A t \in TradeIds : trades'[t].tx # NoTx => trades'[t].tx # attempts'[e.attempt].tx
        /\ m[e.trade] + e.left >= MaxAttempts + 1
    BY <1>8, <2>1, <2>2, <2>3
  <2>6. Good
    BY <2>1, <2>4, <2>5
  <2>7. QED
    BY <1>1, <1>7, <2>6 DEF CurrentInv
<1>15. CASE MarkTradeRetrying
  <2>1. /\ executor.pc = "retrying" /\ e.trade = executor.trade /\ e.left = executor.left - 1
        /\ e.pc = IF executor.left > 1 THEN "attempt" ELSE "cleanup"
    BY <1>2, <1>15 DEF MarkTradeRetrying, ExecutorRow
  <2>2. executor.trade \in TradeIds /\ m[executor.trade] = n[executor.trade] /\ n[executor.trade] \in Nat
    BY <1>2, <1>3, <2>1 DEF CreateAttempt
  <2>3. n[executor.trade] + executor.left >= MaxAttempts + 1
    BY <1>6, <2>1 DEF Submitting
  <2>4. CASE executor.left > 1
    <3>1. e.pc = "attempt" /\ m[e.trade] + e.left >= MaxAttempts
      BY <1>1, <1>2, <2>1, <2>2, <2>3, <2>4
    <3>2. Good
      BY <2>1, <2>2, <3>1 DEF Submitting
    <3>3. QED
      BY <1>1, <1>7, <3>2 DEF CurrentInv
  <2>5. CASE ~ (executor.left > 1)
    <3>1. e.pc = "cleanup" /\ m[e.trade] >= MaxAttempts
      BY <1>1, <1>2, <2>1, <2>2, <2>3, <2>5
    <3>2. Good
      BY <2>1, <2>2, <3>1 DEF Submitting
    <3>3. QED
      BY <1>1, <1>7, <3>2 DEF CurrentInv
  <2>6. QED
    BY <2>4, <2>5
<1>16. CASE ReadFailedTrade /\ executor' # IdleExecutor
  <2>1. executor.pc = "cleanup" /\ e.pc = "release" /\ e.trade = executor.trade
    BY <1>2, <1>16 DEF ReadFailedTrade, ExecutorRow
  <2>2. executor.trade \in TradeIds /\ m[executor.trade] = n[executor.trade]
    BY <1>2, <1>3, <2>1 DEF CreateAttempt
  <2>3. Good
    BY <1>6, <2>1, <2>2 DEF Submitting
  <2>4. QED
    BY <1>1, <1>7, <2>3 DEF CurrentInv
<1>17. CASE executor' = NextInBatch \/ executor' = IdleExecutor \/ ClaimExecutableTrades
  <2>1. e.pc \in {"idle", "begin"}
    <3>1. CASE executor' = IdleExecutor
      BY <3>1 DEF IdleExecutor
    <3>2. CASE executor' = [IdleExecutor EXCEPT !.pc = "begin", !.batch = executor.batch]
      BY <3>2 DEF IdleExecutor
    <3>3. CASE ClaimExecutableTrades
      BY <3>3, <1>2 DEF ClaimExecutableTrades, ExecutorRow
    <3>4. QED
      BY <1>17, <3>1, <3>2, <3>3 DEF NextInBatch
  <2>2. QED
    BY <2>1, <1>10
<1>18. CASE RecordTrade \/ ReleaseFailedTrade \/ Restart
  BY <1>17, <1>18 DEF RecordTrade, ReleaseFailedTrade, Restart
<1>19. CASE \E t \in executor.batch : BeginTrade(t)
  BY <1>11, <1>19
<1>20. CASE ReadFailedTrade
  BY <1>16, <1>17, <1>20
<1>21. QED
  BY <1>9, <1>12, <1>13, <1>14, <1>15, <1>17, <1>18, <1>19, <1>20, NextWriters DEF Writers, WritesExecutor

LEMMA VerdictStay ==
  ASSUME IInv, MinedInv, CurrentInv, VerdictInv, [Next]_vars
  PROVE  VerdictInv'
<1> SUFFICES ASSUME sweep'.verdict = "REVERTED"
             PROVE  attempts'[Swept'].tx \in DOMAIN receipts' /\ ~ receipts'[attempts'[Swept'].tx]
  BY DEF VerdictInv
<1>1. sweep \in SweepRow(DOMAIN attempts)
  BY DEF IInv, SweepInv
<1>2. CASE sweep.verdict = "REVERTED" /\ sweep'.todo = sweep.todo
  <2>1. Swept' = Swept /\ Swept \in DOMAIN attempts
    BY <1>2, SweptInside DEF Swept, IInv, SweepInv
  <2>2. attempts[Swept].tx \in DOMAIN receipts /\ ~ receipts[attempts[Swept].tx]
    BY <1>2 DEF VerdictInv
  <2>3. attempts[Swept].tx # NoTx
    BY <2>2 DEF IInv, TablesInv, ChainInv, NoTx
  <2>4. RecordAttempt => attempts[executor.attempt].tx = NoTx
    BY DEF RecordAttempt, CurrentInv
  <2>5. attempts'[Swept].tx = attempts[Swept].tx
    BY <2>1, <2>3, <2>4, AttemptMoves
  <2>6. QED
    BY <2>1, <2>2, <2>5, ReceiptsStay
<1>3. CASE ReadReceipt
  <2>1. UNCHANGED <<attempts, receipts>>
    BY <1>3 DEF ReadReceipt, chainVars
  <2>2. CASE sweep' = [sweep EXCEPT !.todo = OthersToSweep] \/ sweep' = [sweep EXCEPT !.verdict = "DROPPED"]
    <3>1. sweep'.verdict \in {sweep.verdict, "DROPPED"}
      BY <1>1, <2>2 DEF SweepRow
    <3>2. QED
      BY <1>3, <3>1 DEF ReadReceipt
  <2>3. CASE /\ attempts[Swept].tx \in DOMAIN receipts /\ ~ receipts[attempts[Swept].tx]
             /\ sweep' = [sweep EXCEPT !.verdict = "REVERTED"]
    <3>1. sweep'.todo = sweep.todo
      BY <1>1, <2>3 DEF SweepRow
    <3>2. Swept' = Swept
      BY <3>1 DEF Swept
    <3>3. QED
      BY <2>1, <2>3, <3>2
  <2>4. QED
    BY <1>3, <2>2, <2>3 DEF ReadReceipt
<1>4. CASE StartSweep \/ FinalizeSwept \/ Restart \/ MarkAttempt
  <2>1. \/ sweep' = IdleSweep \/ (\E todo : sweep' = [IdleSweep EXCEPT !.todo = todo])
        \/ \E seen : sweep' = [sweep EXCEPT !.seen = seen]
        \/ UNCHANGED sweep
    BY <1>4 DEF StartSweep, FinalizeSwept, Restart, MarkAttempt
  <2>2. CASE sweep' = IdleSweep \/ \E todo : sweep' = [IdleSweep EXCEPT !.todo = todo]
    BY <2>2 DEF IdleSweep
  <2>3. CASE UNCHANGED sweep \/ \E seen : sweep' = [sweep EXCEPT !.seen = seen]
    <3>1. sweep'.verdict = sweep.verdict /\ sweep'.todo = sweep.todo
      BY <1>1, <2>3 DEF SweepRow
    <3>2. QED
      BY <1>2, <3>1
  <2>4. QED
    BY <2>1, <2>2, <2>3
<1>5. CASE UNCHANGED sweep
  BY <1>2, <1>5
<1>6. QED
  BY <1>3, <1>4, <1>5, NextWriters DEF Writers, WritesSweep

(* Where the executor goes with its batch.                                   *)
LEMMA BatchMoves ==
  ASSUME IInv, [Next]_vars
  PROVE  \/ /\ executor'.pc \in {"idle", "begin"}
            /\ executor'.batch \subseteq executor.batch \/ ClaimExecutableTrades
         \/ /\ executor'.pc \notin {"idle", "begin"} /\ ~ RecordTrade
            /\ \/ /\ executor.pc \notin {"idle", "begin"}
                  /\ executor'.trade = executor.trade /\ executor'.batch = executor.batch
               \/ /\ executor'.trade \in executor.batch
                  /\ executor'.batch = executor.batch \ {executor'.trade}
<1>1. executor \in ExecutorRow(TradeIds)
  BY DEF IInv, ExecutorInv
<1>2. RecordTrade => executor'.pc \in {"idle", "begin"}
  BY DEF RecordTrade, NextInBatch, IdleExecutor
<1>3. CASE UNCHANGED executor
  BY <1>2, <1>3
<1>4. CASE ClaimExecutableTrades
  <2>1. executor'.pc = "begin"
    BY <1>1, <1>4 DEF ClaimExecutableTrades, ExecutorRow
  <2>2. QED
    BY <1>4, <2>1
<1>5. ASSUME NEW t \in executor.batch, BeginTrade(t)
      PROVE  /\ executor'.pc \in {"cleanup", "attempt"} /\ executor'.trade = t
             /\ executor'.batch = executor.batch \ {t}
  <2> DEFINE remaining == CalculateRemainingSettlementAttempts(GetSettlementAttemptCountByTrade(t))
  <2>1. executor' = [executor EXCEPT !.pc = IF remaining = 0 THEN "cleanup" ELSE "attempt",
                                     !.batch = executor.batch \ {t}, !.trade = t,
                                     !.left = remaining, !.before = Len(sent)]
    BY <1>5 DEF BeginTrade
  <2> HIDE DEF remaining
  <2>2. QED
    BY <1>1, <2>1 DEF ExecutorRow
<1>6. CASE \E t \in executor.batch : BeginTrade(t)
  <2>1. PICK t \in executor.batch : BeginTrade(t)
    BY <1>6
  <2>2. QED
    BY <1>2, <1>5, <2>1
<1>7. CASE CreateAttempt \/ SubmitMatchOrders \/ SubmitUnanswered
  <2>1. executor.pc \in {"attempt", "submit"} /\ executor'.pc \in {"submit", "recordAttempt", "failed"}
        /\ executor'.trade = executor.trade /\ executor'.batch = executor.batch
    BY <1>1, <1>7 DEF CreateAttempt, SubmitMatchOrders, SubmitUnanswered, ExecutorRow
  <2>2. QED
    BY <1>2, <2>1
<1>8. CASE RecordAttempt \/ RecordFails \/ MarkAttemptFailed \/ MarkTradeRetrying
  <2>1. /\ executor.pc \notin {"idle", "begin"} /\ executor'.pc \notin {"idle", "begin"}
        /\ executor'.trade = executor.trade /\ executor'.batch = executor.batch
    BY <1>1, <1>8 DEF RecordAttempt, RecordFails, MarkAttemptFailed, MarkTradeRetrying, ExecutorRow
  <2>2. QED
    BY <1>2, <2>1
<1>9. CASE executor' = NextInBatch \/ executor' = IdleExecutor
  <2>1. IdleExecutor.pc = "idle" /\ IdleExecutor.batch = {}
    BY DEF IdleExecutor
  <2>2. CASE executor' = IdleExecutor
    BY <2>1, <2>2
  <2>3. CASE executor' = [IdleExecutor EXCEPT !.pc = "begin", !.batch = executor.batch]
    <3>1. executor'.pc = "begin" /\ executor'.batch = executor.batch
      BY <2>3 DEF IdleExecutor
    <3>2. QED
      BY <3>1
  <2>4. QED
    BY <1>9, <2>2, <2>3 DEF NextInBatch
<1>10. CASE ReadFailedTrade /\ executor' # IdleExecutor
  <2>1. executor.pc = "cleanup" /\ executor'.pc = "release"
        /\ executor'.trade = executor.trade /\ executor'.batch = executor.batch
    BY <1>1, <1>10 DEF ReadFailedTrade, ExecutorRow
  <2>2. QED
    BY <1>2, <2>1
<1>11. CASE RecordTrade \/ ReleaseFailedTrade \/ Restart \/ ReadFailedTrade
  BY <1>9, <1>10, <1>11 DEF RecordTrade, ReleaseFailedTrade, Restart
<1>12. QED
  BY <1>3, <1>4, <1>6, <1>7, <1>8, <1>11, NextWriters DEF Writers, WritesExecutor

LEMMA OnceStay ==
  ASSUME IInv, OnceInv, [Next]_vars
  PROVE  OnceInv'
<1> SUFFICES ASSUME MaxAttempts = 1
             PROVE  /\ \A t \in TradeIds : trades'[t].tx # NoTx =>
                         trades'[t].status \notin {"MATCHED", "EXECUTING", "RETRYING"}
                    /\ \A t \in executor'.batch : trades'[t].tx = NoTx
                    /\ executor'.pc \notin {"idle", "begin"} =>
                         trades'[executor'.trade].tx = NoTx /\ executor'.trade \notin executor'.batch
  <2>1. TradeIds' = TradeIds
    BY TradesStay DEF TradesStep
  <2>2. QED
    BY <2>1 DEF OnceInv
<1>1. /\ \A t \in TradeIds :
           trades[t].tx # NoTx => trades[t].status \notin {"MATCHED", "EXECUTING", "RETRYING"}
      /\ \A t \in executor.batch : trades[t].tx = NoTx
      /\ executor.pc \notin {"idle", "begin"} =>
           trades[executor.trade].tx = NoTx /\ executor.trade \notin executor.batch
  BY DEF OnceInv
<1>2. /\ executor.batch \subseteq TradeIds /\ executor'.batch \subseteq TradeIds
      /\ executor.pc \notin {"idle", "begin"} => executor.trade \in TradeIds
  <2>1. ExecutorInv' /\ TradeIds' = TradeIds
    BY ExecutorStay, TradesStay DEF TradesStep
  <2>2. executor'.batch \subseteq TradeIds
    BY <2>1 DEF ExecutorInv, ExecutorRow
  <2>3. QED
    BY <2>2 DEF IInv, ExecutorInv, ExecutorRow
<1>3. ASSUME NEW t \in TradeIds, trades'[t].tx # NoTx
      PROVE  trades'[t].status \notin {"MATCHED", "EXECUTING", "RETRYING"}
  <2>1. CASE trades'[t] = trades[t]
    BY <1>1, <1>3, <2>1
  <2>2. CASE trades'[t].tx = trades[t].tx /\ TradeMove(t)
    <3>1. trades[t].status \notin {"MATCHED", "EXECUTING", "RETRYING"} /\ ~ Executable(t)
      BY <1>1, <1>3, <2>2 DEF Executable
    <3>2. CASE MarkTradeRetrying /\ t = executor.trade
      BY <1>1, <1>3, <2>2, <3>2 DEF MarkTradeRetrying
    <3>3. CASE /\ sweep.verdict # "none" /\ t = attempts[Swept].trade
               /\ MarkAttempt /\ GetSettlementAttemptCountByTrade(t) < MaxAttempts
      <4>1. Swept \in DOMAIN attempts
        BY <3>3, SweptInside DEF IInv, SweepInv
      <4>2. GetSettlementAttemptCountByTrade(t) >= 1 /\ GetSettlementAttemptCountByTrade(t) \in Nat
        BY <3>3, <4>1, CountAtLeast, CountNat
      <4>3. QED
        BY <3>3, <4>2
    <3>4. CASE trades'[t].status \in {"FAILED", "CONFIRMED"}
      BY <3>4
    <3>5. QED
      BY <2>2, <3>1, <3>2, <3>3, <3>4 DEF TradeMove
  <2>3. CASE trades'[t].status = "SUBMITTED"
    BY <2>3
  <2>4. QED
    BY <2>1, <2>2, <2>3, TradeMoves
<1>4. ASSUME NEW t \in executor'.batch PROVE trades'[t].tx = NoTx
  <2>1. t \in TradeIds
    BY <1>2
  <2>2. CASE t \in executor.batch
    <3>1. RecordTrade => executor.pc = "recordTrade"
      BY DEF RecordTrade
    <3>2. trades[t].tx = NoTx /\ (RecordTrade => t # executor.trade)
      BY <1>1, <2>2, <3>1
    <3>3. trades'[t].tx = trades[t].tx
      BY <2>1, <3>2, TradeMoves
    <3>4. QED
      BY <3>2, <3>3
  <2>3. CASE ClaimExecutableTrades
    <3>1. ~ RecordTrade
      BY <2>3 DEF ClaimExecutableTrades, RecordTrade
    <3>2. trades'[t].tx = trades[t].tx
      BY <2>1, <3>1, TradeMoves
    <3>3. Executable(t)
      <4> DEFINE claimed == Oldest({u \in TradeIds : Executable(u) /\ ~TradeLocked(u)}, BatchLimit)
      <4>1. executor' = [executor EXCEPT !.pc = "begin", !.batch = claimed]
        BY <2>3 DEF ClaimExecutableTrades
      <4>2. \A u \in claimed : Executable(u)
        BY DEF Oldest
      <4> HIDE DEF claimed
      <4>3. executor'.batch = claimed
        BY <4>1 DEF IInv, ExecutorInv, ExecutorRow
      <4>4. QED
        BY <4>2, <4>3
    <3>4. QED
      BY <1>1, <2>1, <3>2, <3>3 DEF Executable
  <2>4. QED
    BY <2>2, <2>3, BatchMoves
<1>5. ASSUME executor'.pc \notin {"idle", "begin"}
      PROVE  trades'[executor'.trade].tx = NoTx /\ executor'.trade \notin executor'.batch
  <2>1. /\ ~ RecordTrade /\ executor'.trade \in TradeIds
        /\ trades[executor'.trade].tx = NoTx /\ executor'.trade \notin executor'.batch
    BY <1>1, <1>2, <1>5, BatchMoves
  <2>2. QED
    BY <2>1, TradeMoves
<1>6. QED
  BY <1>3, <1>4, <1>5

LEMMA SettledInvStay ==
  ASSUME IInv, SettledInv, [Next]_vars
  PROVE  SettledInv'
BY MinedStay, TracesStay, CurrentStay, VerdictStay, OnceStay DEF SettledInv

LEMMA ConfirmedStep ==
  ASSUME IInv, SettledInv, [Next]_vars, NEW t \in TradeIds,
         trades[t].status = "CONFIRMED", trades'[t].status # "CONFIRMED"
  PROVE  \/ GetSettlementAttemptCountByTrade(t) > 1
         \/ \E a \in DOMAIN attempts' : attempts'[a].trade = t /\ attempts'[a].status = "DROPPED"
<1>1. trades[t].tx \in Succeeded /\ trades[t].tx # NoTx
  <2>1. trades[t].tx \in Succeeded
    BY DEF SettledInv, MinedInv
  <2>2. QED
    BY <2>1 DEF Succeeded, IInv, TablesInv, ChainInv, NoTx
<1>2. PICK b \in DOMAIN attempts : attempts[b].trade = t /\ attempts[b].tx = trades[t].tx
  BY <1>1 DEF SettledInv, TracesInv
<1>3. ASSUME NEW a \in DOMAIN attempts, attempts[a].trade = t, attempts[a].tx # trades[t].tx
      PROVE  GetSettlementAttemptCountByTrade(t) > 1
  <2>1. b # a
    BY <1>2, <1>3
  <2>2. QED
    BY <1>2, <1>3, <2>1, CountAtLeast
<1>4. CASE executor.pc \in Submitting /\ t = executor.trade
  <2>1. /\ executor.attempt \in DOMAIN attempts /\ attempts[executor.attempt].trade = t
        /\ trades[t].tx # attempts[executor.attempt].tx
    BY <1>1, <1>4 DEF SettledInv, CurrentInv
  <2>2. QED
    BY <1>3, <2>1
<1>5. CASE ReleaseFailedTrade /\ t = executor.trade
  <2>1. executor.pc = "release"
    BY <1>5 DEF ReleaseFailedTrade
  <2>2. GetSettlementAttemptCountByTrade(t) >= MaxAttempts /\ MaxAttempts # 1
    BY <1>1, <1>5, <2>1 DEF SettledInv, CurrentInv, OnceInv
  <2>3. QED
    BY <2>2, CountNat, SettlementAssumption
<1>6. CASE /\ sweep.verdict # "none" /\ t = attempts[Swept].trade
           /\ attempts' = UpdateSettlementAttempt(Swept, sweep.verdict)
  <2>1. /\ Swept \in DOMAIN attempts /\ attempts[Swept] \in AttemptRow(TradeIds)
        /\ sweep.verdict \in {"DROPPED", "REVERTED"}
    BY <1>6, SweptInside DEF IInv, SweepInv, SweepRow
  <2>2. CASE sweep.verdict = "REVERTED"
    <3>1. ~ receipts[attempts[Swept].tx]
      BY <2>2 DEF SettledInv, VerdictInv
    <3>2. attempts[Swept].tx # trades[t].tx
      BY <1>1, <3>1 DEF Succeeded
    <3>3. QED
      BY <1>3, <1>6, <2>1, <3>2
  <2>3. CASE sweep.verdict = "DROPPED"
    <3>1. attempts'[Swept] = [attempts[Swept] EXCEPT !.status = "DROPPED"] /\ Swept \in DOMAIN attempts'
      BY <1>6, <2>1, <2>3 DEF UpdateSettlementAttempt
    <3>2. attempts'[Swept].trade = t /\ attempts'[Swept].status = "DROPPED"
      BY <1>6, <2>1, <3>1 DEF AttemptRow
    <3>3. QED
      BY <3>1, <3>2
  <2>4. QED
    BY <2>1, <2>2, <2>3
<1>7. CASE TradeMove(t)
  <2>1. ~ Executable(t)
    BY DEF Executable
  <2>2. QED
    BY <1>4, <1>5, <1>6, <1>7, <2>1 DEF TradeMove, MarkTradeRetrying, Submitting
<1>8. CASE RecordTrade /\ t = executor.trade
  BY <1>4, <1>8 DEF RecordTrade, Submitting
<1>9. QED
  BY <1>7, <1>8, TradeMoves

-----------------------------------------------------------------------------
(* What is confirmed of an order is the greatest total applied to it.        *)

LEMMA ProcessedStay ==
  ASSUME IInv, [Next]_vars
  PROVE  \/ processed' = processed
         \/ /\ ApplyLog /\ indexer.next \notin processed
            /\ processed' = processed \cup {indexer.next} /\ logs' = logs
<1>1. CASE ApplyLog
  BY <1>1 DEF ApplyLog, exchangeVars
<1>2. CASE UNCHANGED <<cursor, processed, indexer>>
  BY <1>2
<1>3. CASE StartIndexing \/ IndexingFails \/ AdvanceCursor \/ Restart
  BY <1>3 DEF StartIndexing, IndexingFails, AdvanceCursor, Restart
<1>4. QED
  BY <1>1, <1>2, <1>3, NextWriters DEF Writers, WritesIndex

LEMMA TotalsStay ==
  ASSUME IInv, [Next]_vars, NEW h
  PROVE  TotalsProcessed(h)' =
           IF FillEvent /\ logs[indexer.next].order = h
           THEN TotalsProcessed(h) \cup {logs[indexer.next].total}
           ELSE TotalsProcessed(h)
<1> DEFINE k == indexer.next
           old == {n \in processed : logs[n].event = "OrderFilled" /\ logs[n].order = h}
           new == {n \in processed' : logs'[n].event = "OrderFilled" /\ logs'[n].order = h}
<1>1. /\ TotalsProcessed(h) = {logs[n].total : n \in old}
      /\ TotalsProcessed(h)' = {logs'[n].total : n \in new}
  BY DEF TotalsProcessed
<1>2. \A n \in processed : logs'[n] = logs[n]
  BY ContractStay DEF LogsGrow, IInv, IndexInv
<1>3. CASE processed' = processed
  <2>1. new = old /\ \A n \in old : logs'[n].total = logs[n].total
    BY <1>2, <1>3
  <2>2. ~ FillEvent
    BY <1>3 DEF FillEvent, ApplyLog
  <2> HIDE DEF old, new
  <2>3. {logs'[n].total : n \in new} = {logs[n].total : n \in old}
    BY <2>1
  <2>4. QED
    BY <1>1, <2>2, <2>3
<1>4. CASE /\ ApplyLog /\ k \notin processed
           /\ processed' = processed \cup {k} /\ logs' = logs
  <2>1. CASE logs[k].event = "OrderFilled" /\ logs[k].order = h
    <3>1. new = old \cup {k} /\ FillEvent
      BY <1>4, <2>1 DEF FillEvent
    <3> HIDE DEF old, new, k
    <3>2. {logs'[n].total : n \in new} = {logs[n].total : n \in old} \cup {logs[k].total}
      BY <1>4, <3>1
    <3>3. QED
      BY <1>1, <2>1, <3>1, <3>2 DEF k
  <2>2. CASE ~ (logs[k].event = "OrderFilled" /\ logs[k].order = h)
    <3>1. new = old /\ ~ (FillEvent /\ logs[k].order = h)
      BY <1>4, <2>2 DEF FillEvent
    <3> HIDE DEF old, new
    <3>2. {logs'[n].total : n \in new} = {logs[n].total : n \in old}
      BY <1>4, <3>1
    <3>3. QED
      BY <1>1, <3>1, <3>2
  <2>3. QED
    BY <2>1, <2>2
<1>5. QED
  BY <1>3, <1>4, ProcessedStay

LEMMA TotalsConfirmed ==
  ASSUME IInv, ConfirmedIsProcessed, [Next]_vars
  PROVE  ConfirmedIsProcessed'
<1> DEFINE k == indexer.next
           total == logs[k].total
<1>1. DOMAIN orders' = DOMAIN orders
  BY OrdersStay DEF OrdersStep
<1>2. SUFFICES ASSUME NEW h \in DOMAIN orders
               PROVE  /\ Confirmed(orders'[h]) \in {0} \cup TotalsProcessed(h)'
                      /\ \A s \in TotalsProcessed(h)' : s <= Confirmed(orders'[h])
                      /\ Confirmed(orders'[h]) <= filledAmounts'[h]
  BY <1>1 DEF ConfirmedIsProcessed
<1>3. /\ Confirmed(orders[h]) \in {0} \cup TotalsProcessed(h)
      /\ \A s \in TotalsProcessed(h) : s <= Confirmed(orders[h])
      /\ Confirmed(orders[h]) <= filledAmounts[h]
  BY DEF ConfirmedIsProcessed
<1>4. /\ h \in Tickets /\ filledAmounts[h] \in Nat /\ filledAmounts'[h] \in Nat
      /\ filledAmounts[h] <= filledAmounts'[h]
      /\ Confirmed(orders[h]) \in Int
  <2>1. h \in Tickets /\ orders[h] \in OrderRow
    BY DEF IInv, TablesInv, OrdersInv
  <2>2. filledAmounts \in [Tickets -> Nat] /\ filledAmounts' \in [Tickets -> Nat] /\ FillsGrow
    BY ContractStay DEF IInv, ContractInv, ExchangeGood
  <2>3. QED
    BY <2>1, <2>2 DEF FillsGrow, Confirmed, OrderRow
<1>5. CASE FillEvent /\ logs[k].order = h
  <2>1. TotalsProcessed(h)' = TotalsProcessed(h) \cup {total}
    BY <1>5, TotalsStay
  <2>2. /\ Confirmed(orders'[h]) = Larger(Confirmed(orders[h]), total) /\ total \in Nat
    BY <1>5, FillConfirms
  <2>3. total <= filledAmounts[h]
    <3>1. k \in DOMAIN logs /\ logs[k].event = "OrderFilled"
      BY <1>5, NextLog DEF FillEvent, ApplyLog
    <3>2. QED
      BY <1>5, <3>1 DEF IInv, ContractInv, ExchangeGood
  <2>4. \A s \in TotalsProcessed(h) : s \in Int
    <3>1. ASSUME NEW n \in processed PROVE logs[n].total \in Int
      <4>1. n \in DOMAIN logs /\ logs \in Seq(LogRow(DOMAIN orders))
        BY DEF IInv, IndexInv, ContractInv, ExchangeGood
      <4> DEFINE D == DOMAIN orders
      <4> HIDE DEF D
      <4>2. logs[n] \in LogRow(D)
        BY <4>1 DEF D
      <4>3. QED
        BY <4>2 DEF LogRow
    <3>2. QED
      BY <3>1 DEF TotalsProcessed
  <2> DEFINE c == Confirmed(orders[h])
             d == Confirmed(orders'[h])
  <2> HIDE DEF total
  <2>5. c \in Int /\ d = Larger(c, total)
    BY <1>4, <2>2
  <2> HIDE DEF c, d
  <2>6. d \in Int /\ d \in {c, total} /\ c <= d /\ total <= d
    BY <2>2, <2>5 DEF Larger
  <2>7. d \in {0} \cup TotalsProcessed(h)'
    BY <1>3, <2>1, <2>6 DEF c
  <2>8. \A s \in TotalsProcessed(h)' : s <= d
    <3>1. ASSUME NEW s \in TotalsProcessed(h)' PROVE s <= d
      <4>1. CASE s = total
        BY <4>1, <2>6
      <4>2. CASE s \in TotalsProcessed(h)
        <5>1. s \in Int /\ s <= c
          BY <4>2, <2>4, <1>3 DEF c
        <5>2. QED
          BY <5>1, <2>5, <2>6
      <4>3. QED
        BY <2>1, <4>1, <4>2
    <3>2. QED
      BY <3>1
  <2>9. d <= filledAmounts'[h]
    <3>1. c <= filledAmounts[h]
      BY <1>3 DEF c
    <3>2. QED
      BY <3>1, <2>2, <2>3, <2>5, <2>6, <1>4
  <2>10. QED
    BY <2>7, <2>8, <2>9 DEF d
<1>6. CASE ~ (FillEvent /\ logs[k].order = h)
  <2>1. TotalsProcessed(h)' = TotalsProcessed(h)
    BY <1>6, TotalsStay
  <2>2. Confirmed(orders'[h]) = Confirmed(orders[h])
    <3>1. CASE FillEvent
      <4>1. orders'[h] = orders[h]
        BY <1>6, <3>1, FillConfirms
      <4>2. QED
        BY <4>1
    <3>2. CASE ~ FillEvent
      BY <3>2, OrdersStay DEF OrdersStep
    <3>3. QED
      BY <3>1, <3>2
  <2>3. QED
    BY <1>3, <1>4, <2>1, <2>2
<1>7. QED
  BY <1>5, <1>6

-----------------------------------------------------------------------------
(* The tables as matching leaves them.                                       *)

LEMMA InitTables ==
  ASSUME Init
  PROVE  TablesInv
<1>1. PICK s \in Scenarios : orders = s.orders /\ reservations = s.reservations /\ trades = s.trades
  BY DEF Init
<1>2. /\ DOMAIN orders \subseteq Tickets /\ orders \in [DOMAIN orders -> OrderRow]
      /\ \A h \in DOMAIN orders : /\ orders[h].status = "LIVE"
                                  /\ orders[h].remaining = orders[h].outcomeAmount
                                  /\ orders[h].pending <= orders[h].remaining
  BY <1>1, ScenariosAssumption
<1>3. \A h \in DOMAIN orders : RowInv(orders[h])
  <2>1. ASSUME NEW h \in DOMAIN orders PROVE RowInv(orders[h])
    <3>1. orders[h] \in OrderRow
      BY <1>2
    <3>2. orders[h].outcomeAmount \in Nat \ {0}
      BY <3>1 DEF OrderRow
    <3>3. QED
      BY <1>2, <3>2 DEF RowInv
  <2>2. QED
    BY <2>1
<1>4. reservations \in ReservationTables
  BY <1>1, ScenariosAssumption DEF ReservationTables
<1> DEFINE D == DOMAIN orders
           F == Seq([maker : D, amount : Nat \ {0}, usdc : Nat \ {0}])
           R == [taker : D, fills : F, book : Books, amount : Nat \ {0}, usdc : Nat \ {0},
                 status : {"MATCHED"}, tx : {NoTx}]
<1>5. trades \in Seq(R)
  BY <1>1, ScenariosAssumption
<1>6. F = Seq(FillRow(D))
  BY DEF FillRow
<1>7. /\ trades \in Seq(TradeRow(D))
      /\ \A t \in DOMAIN trades : trades[t].tx = 0
  <2> HIDE DEF D, F, R
  <2>1. ASSUME NEW t \in DOMAIN trades PROVE trades[t] \in TradeRow(D) /\ trades[t].tx = 0
    <3>1. trades[t] \in R
      BY <1>5
    <3>2. QED
      BY <3>1, <1>6 DEF R, TradeRow, TradeStatus, NoTx
  <2>2. trades = [t \in DOMAIN trades |-> trades[t]]
    BY <1>5
  <2>3. trades \in Seq(TradeRow(D))
    BY <1>5, <2>1, <2>2, SeqOfRows
  <2>4. QED
    BY <2>1, <2>3
<1>8. attempts = <<>> /\ sent = <<>>
  BY DEF Init
<1>9. attempts \in Seq(AttemptRow(TradeIds)) /\ sent \in Seq(TradeIds) /\ Len(sent) = 0
  BY <1>8
<1>10. OrdersInv(orders)
  BY <1>2, <1>3 DEF OrdersInv
<1>11. \A t \in TradeIds : trades[t].tx <= Len(sent)
  BY <1>7, <1>9 DEF TradeIds
<1>12. QED
  BY <1>4, <1>7, <1>9, <1>10, <1>11 DEF TablesInv

LEMMA InitContract ==
  ASSUME Init
  PROVE  ContractInv
<1>1. /\ filledAmounts = [h \in Tickets |-> 0] /\ wallet = InitWallet /\ logs = <<>>
  BY DEF Init, ExchangeInit
<1>2. wallet \in [ReservationKeys -> Nat]
  BY <1>1, ExchangeAssumption
<1>3. ASSUME NEW h \in Tickets
      PROVE  /\ filledAmounts[h] <= Signed[h].outcomeAmount
             /\ Paid(logs, h) = BuyReservation(Signed[h], filledAmounts[h])
  <2>1. filledAmounts[h] = 0 /\ Signed[h].outcomeAmount \in Nat \ {0} /\ Signed[h].usdcAmount \in Nat
    BY <1>1, SignedRow
  <2>2. FillsOf(logs, h) = {}
    BY <1>1 DEF FillsOf
  <2>3. Paid(logs, h) = 0
    <3>1. Paid(logs, h) = Total([n \in {} |-> logs[n].usdc], {})
      BY <2>2 DEF Paid
    <3>2. QED
      BY <3>1, TotalZero
  <2> DEFINE u == Signed[h].usdcAmount
             o == Signed[h].outcomeAmount
  <2>4. u * 0 = 0 /\ 0 \div o = 0
    <3> HIDE DEF u, o
    <3>1. QED
      BY <2>1 DEF u, o
  <2>5. BuyReservation(Signed[h], 0) = 0
    BY <2>4 DEF BuyReservation
  <2>6. QED
    BY <2>1, <2>3, <2>5
<1>4. QED
  BY <1>1, <1>2, <1>3 DEF ContractInv, ExchangeGood

LEMMA InitIInv ==
  ASSUME Init
  PROVE  IInv /\ AttemptsInv /\ ConfirmedIsProcessed
<1>1. TablesInv /\ ContractInv
  BY InitTables, InitContract
<1>2. /\ attempts = <<>> /\ sent = <<>> /\ mempool = {} /\ receipts = <<>> /\ blocks = <<>>
      /\ cursor = {0} /\ processed = {} /\ logs = <<>>
      /\ executor = IdleExecutor /\ sweep = IdleSweep /\ indexer = IdleIndexer
  BY DEF Init, ExchangeInit
<1>3. ExecutorInv
  BY <1>2 DEF ExecutorInv, ExecutorRow, IdleExecutor, ExecutorPc, NoTrade, NoTx, Copies
<1>4. SweepInv
  BY <1>2 DEF SweepInv, SweepRow, IdleSweep, Copies
<1>5. ChainInv
  BY <1>2 DEF ChainInv
<1>6. IndexInv
  <2>1. LogsUpTo(0) = 0
    BY DEF LogsUpTo
  <2>2. QED
    BY <1>2, <2>1 DEF IndexInv
<1>7. AttemptsInv
  <2>1. ASSUME NEW t \in TradeIds PROVE GetSettlementAttemptCountByTrade(t) = 0
    <3>1. {a \in DOMAIN attempts : attempts[a].trade = t} = {}
      BY <1>2
    <3>2. QED
      BY <3>1, FS_EmptySet DEF GetSettlementAttemptCountByTrade
  <2>2. executor.pc = "idle"
    BY <1>2 DEF IdleExecutor
  <2>3. QED
    BY <2>1, <2>2, SettlementAssumption DEF AttemptsInv
<1>8. ConfirmedIsProcessed
  <2>1. PICK s \in Scenarios : orders = s.orders
    BY DEF Init
  <2>2. ASSUME NEW h \in DOMAIN orders PROVE Confirmed(orders[h]) = 0 /\ filledAmounts[h] = 0
    <3>1. orders[h].remaining = orders[h].outcomeAmount
      BY <2>1, ScenariosAssumption
    <3>2. orders[h] \in OrderRow /\ h \in Tickets
      BY <1>1 DEF TablesInv, OrdersInv
    <3>3. QED
      BY <3>1, <3>2 DEF Confirmed, OrderRow, Init, ExchangeInit
  <2>3. \A h : TotalsProcessed(h) = {}
    BY <1>2 DEF TotalsProcessed
  <2>4. QED
    BY <2>2, <2>3 DEF ConfirmedIsProcessed
<1>9. QED
  BY <1>1, <1>3, <1>4, <1>5, <1>6, <1>7, <1>8 DEF IInv

LEMMA TablesStay ==
  ASSUME IInv, [Next]_vars
  PROVE  TablesInv'
<1> DEFINE D == DOMAIN orders
           T == TradeIds
<1>1. OrdersStep /\ TradesStep /\ AttemptsStep /\ SentStep
  BY OrdersStay, TradesStay, AttemptsStay, SentStay
<1>2. OrdersInv(orders') /\ reservations' \in ReservationTables /\ DOMAIN orders' = D
  BY <1>1 DEF OrdersStep
<1>3. trades' \in Seq(TradeRow(D)) /\ TradeIds' = T
  BY <1>1 DEF TradesStep
<1>4. attempts' \in Seq(AttemptRow(T)) /\ sent' \in Seq(T)
  BY <1>1 DEF AttemptsStep, SentStep
<1>5. ASSUME NEW t \in T PROVE trades'[t].tx <= Len(sent')
  <2>1. trades'[t].tx <= Len(sent)
    BY <1>1 DEF TradesStep
  <2>2. trades'[t].tx \in Nat
    <3>1. t \in DOMAIN trades'
      BY <1>3 DEF TradeIds
    <3> HIDE DEF D, T
    <3>2. trades'[t] \in TradeRow(D)
      BY <1>3, <3>1
    <3>3. QED
      BY <3>2 DEF TradeRow
  <2>3. Len(sent) \in Nat /\ Len(sent') \in Nat /\ Len(sent) <= Len(sent')
    BY <1>1, <1>4 DEF SentStep, IInv, TablesInv
  <2>4. QED
    BY <2>1, <2>2, <2>3
<1> HIDE DEF D, T
<1>6. trades' \in Seq(TradeRow(DOMAIN orders')) /\ attempts' \in Seq(AttemptRow(TradeIds'))
      /\ sent' \in Seq(TradeIds') /\ \A t \in TradeIds' : trades'[t].tx <= Len(sent')
  BY <1>2, <1>3, <1>4, <1>5
<1>7. QED
  BY <1>2, <1>6 DEF TablesInv

LEMMA IInvStay ==
  ASSUME IInv, [Next]_vars
  PROVE  IInv'
BY TablesStay, ExecutorStay, SweepStay, ChainStay, ContractStay, IndexStay DEF IInv

(* Nothing is sent, mined or confirmed when it begins.                       *)
LEMMA InitSettled ==
  ASSUME Init
  PROVE  SettledInv
<1>1. PICK s \in Scenarios : trades = s.trades
  BY DEF Init
<1>2. ASSUME NEW t \in TradeIds PROVE trades[t].tx = NoTx /\ trades[t].status = "MATCHED"
  <2> DEFINE D == DOMAIN s.orders
             R == [taker : D, fills : Seq([maker : D, amount : Nat \ {0}, usdc : Nat \ {0}]),
                   book : Books, amount : Nat \ {0}, usdc : Nat \ {0},
                   status : {"MATCHED"}, tx : {NoTx}]
  <2>1. trades \in Seq(R)
    BY <1>1, ScenariosAssumption
  <2>2. \A r \in R : r.tx = NoTx /\ r.status = "MATCHED"
    OBVIOUS
  <2> HIDE DEF R
  <2>3. trades[t] \in R
    BY <2>1 DEF TradeIds
  <2>4. QED
    BY <2>2, <2>3
<1>3. /\ mempool = {} /\ receipts = <<>> /\ logs = <<>>
      /\ executor.pc = "idle" /\ executor.batch = {} /\ sweep.verdict = "none"
  BY DEF Init, ExchangeInit, IdleExecutor, IdleSweep
<1>4. MinedInv
  BY <1>2, <1>3 DEF MinedInv
<1>5. TracesInv
  BY <1>2 DEF TracesInv
<1>6. CurrentInv /\ VerdictInv
  BY <1>3 DEF CurrentInv, VerdictInv, Submitting
<1>7. OnceInv
  BY <1>2, <1>3 DEF OnceInv
<1>8. QED
  BY <1>4, <1>5, <1>6, <1>7 DEF SettledInv

LEMMA Invariance ==
  Spec => [](IInv /\ AttemptsInv /\ ConfirmedIsProcessed)
<1>1. Init => IInv /\ AttemptsInv /\ ConfirmedIsProcessed
  BY InitIInv
<1>2. IInv /\ AttemptsInv /\ ConfirmedIsProcessed /\ [Next]_vars
        => (IInv /\ AttemptsInv /\ ConfirmedIsProcessed)'
  <2>1. ASSUME IInv, AttemptsInv, ConfirmedIsProcessed, [Next]_vars
        PROVE  IInv' /\ AttemptsInv' /\ ConfirmedIsProcessed'
    BY <2>1, IInvStay, AttemptsInvStay, TotalsConfirmed
  <2>2. QED
    BY <2>1
<1>3. QED
  BY <1>1, <1>2, PTL DEF Spec

-----------------------------------------------------------------------------
(* What is pending or confirmed of an order, and what the contract filled of *)
(* it, as its parts of trades.                                               *)

PartOf(h) == [t \in TradeIds |-> AmountIn(trades[t], h)]
SettledTrades == {t \in TradeIds : Settled(t) # {}}
OpenTrades == {t \in TradeIds : CleanedUp(t) = {}}

HistoryInv ==
  givenUp \in Seq(TradeIds) /\ \A t \in TradeIds : MadeByMatch(trades[t]) /\ EachMakerOnce(trades[t])
AmountsInv ==
  Regular =>
    /\ \A h \in Tickets : filledAmounts[h] = Total(PartOf(h), SettledTrades)
    /\ \A h \in DOMAIN orders :
         Confirmed(orders[h]) + orders[h].pending = Total(PartOf(h), OpenTrades)

LEMMA PartsAreNat ==
  ASSUME IInv
  PROVE  /\ IsFiniteSet(TradeIds)
         /\ \A h : \A t \in TradeIds : PartOf(h)[t] \in Nat /\ PartOf(h)[t] = AmountIn(trades[t], h)
<1>1. IsFiniteSet(TradeIds)
  <2>1. TradeIds = 1 .. Len(trades) /\ Len(trades) \in Nat
    BY DEF IInv, TablesInv, TradeIds
  <2>2. QED
    BY <2>1, FS_Interval
<1>2. ASSUME NEW h, NEW t \in TradeIds
      PROVE  PartOf(h)[t] \in Nat /\ PartOf(h)[t] = AmountIn(trades[t], h)
  <2>1. trades[t].fills \in Seq(FillRow(DOMAIN orders))
    BY OrdersOfInside DEF IInv, TradeRow
  <2>2. Grows(trades[t], h)
    BY <2>1, PartGrows
  <2>3. QED
    BY <2>2 DEF Grows, PartOf
<1>3. QED
  BY <1>1, <1>2

LEMMA PartsStay ==
  ASSUME IInv, [Next]_vars
  PROVE  /\ \A h : PartOf(h)' = PartOf(h)
         /\ \A t \in TradeIds : MadeByMatch(trades[t]) => MadeByMatch(trades'[t])
         /\ \A t \in TradeIds : EachMakerOnce(trades[t]) => EachMakerOnce(trades'[t])
<1>1. /\ TradeIds' = TradeIds
      /\ \A t \in TradeIds : /\ trades'[t].taker = trades[t].taker /\ trades'[t].fills = trades[t].fills
                             /\ trades'[t].amount = trades[t].amount
  BY TradesStay DEF TradesStep
<1>2. ASSUME NEW t \in TradeIds, NEW h PROVE AmountIn(trades'[t], h) = AmountIn(trades[t], h)
  BY <1>1 DEF AmountIn, FillsOfOrder, SumOver
<1>3. ASSUME NEW t \in TradeIds, MadeByMatch(trades[t]) PROVE MadeByMatch(trades'[t])
  BY <1>1, <1>3 DEF MadeByMatch, SumOver
<1>4. ASSUME NEW t \in TradeIds, EachMakerOnce(trades[t]) PROVE EachMakerOnce(trades'[t])
  BY <1>1, <1>4 DEF EachMakerOnce
<1>5. QED
  BY <1>1, <1>2, <1>3, <1>4 DEF PartOf

(* Of two sets with no more than one element between them, one is empty.     *)
LEMMA AtMostOne ==
  ASSUME NEW A, IsFiniteSet(A), NEW B, IsFiniteSet(B), Cardinality(A) + Cardinality(B) <= 1
  PROVE  /\ A = {} \/ B = {}
         /\ \A x, y \in A : x = y
         /\ \A x, y \in B : x = y
<1>1. Cardinality(A) \in Nat /\ Cardinality(B) \in Nat
  BY FS_CardinalityType
<1>2. (A # {} => Cardinality(A) # 0) /\ (B # {} => Cardinality(B) # 0)
  BY FS_EmptySet
<1>3. ASSUME NEW S, IsFiniteSet(S), Cardinality(S) <= 1, NEW x \in S, NEW y \in S, x # y PROVE FALSE
  <2> DEFINE one == {x}
  <2>1. IsFiniteSet(one) /\ Cardinality(one) = 1 /\ y \notin one
    BY <1>3, FS_Singleton
  <2> HIDE DEF one
  <2>2. Cardinality(one \cup {y}) = Cardinality(one) + 1
    BY <2>1, FS_AddElement
  <2>3. one \cup {y} \subseteq S
    BY DEF one
  <2>4. Cardinality(one \cup {y}) <= Cardinality(S) /\ Cardinality(S) \in Nat
    BY <1>3, <2>3, FS_Subset, FS_CardinalityType
  <2>5. QED
    BY <1>3, <2>1, <2>2, <2>4
<1>4. Cardinality(A) <= 1 /\ Cardinality(B) <= 1
  BY <1>1
<1>5. QED
  BY <1>1, <1>2, <1>3, <1>4

(* Both histories only grow: a trade settled or given up stays so.           *)
LEMMA HistoryGrows ==
  ASSUME IInv, MinedInv, HistoryInv, [Next]_vars
  PROVE  /\ HistoryInv'
         /\ \A t \in TradeIds :
              /\ Settled(t) \subseteq Settled(t)' /\ CleanedUp(t) \subseteq CleanedUp(t)'
              /\ IsFiniteSet(Settled(t)') /\ IsFiniteSet(CleanedUp(t)')
<1>1. givenUp \in Seq(TradeIds) /\ TradeIds' = TradeIds
  BY TradesStay DEF HistoryInv, TradesStep
<1>2. \/ UNCHANGED givenUp
      \/ \E t \in TradeIds : givenUp' = Append(givenUp, t)
  BY OrdersStay DEF OrdersStep, GivesUp
<1>3. /\ givenUp' \in Seq(TradeIds) /\ DOMAIN givenUp \subseteq DOMAIN givenUp'
      /\ \A i \in DOMAIN givenUp : givenUp'[i] = givenUp[i]
      /\ IsFiniteSet(DOMAIN givenUp')
  <2> DEFINE T == TradeIds
             g == givenUp
  <2> HIDE DEF T
  <2>1. CASE UNCHANGED givenUp
    <3>1. givenUp \in Seq(T)
      BY <1>1 DEF T
    <3>2. DOMAIN givenUp = 1 .. Len(givenUp) /\ Len(givenUp) \in Nat
      BY <3>1
    <3>3. QED
      BY <2>1, <3>1, <3>2, FS_Interval DEF T
  <2>2. ASSUME NEW t \in T, givenUp' = Append(g, t)
        PROVE  /\ givenUp' \in Seq(T) /\ DOMAIN g \subseteq DOMAIN givenUp'
               /\ \A i \in DOMAIN g : givenUp'[i] = g[i]
               /\ IsFiniteSet(DOMAIN givenUp')
    <3>1. g \in Seq(T)
      BY <1>1 DEF T
    <3> HIDE DEF g
    <3>2. /\ Append(g, t) \in Seq(T) /\ Len(g) \in Nat /\ DOMAIN g = 1 .. Len(g)
          /\ DOMAIN Append(g, t) = 1 .. Len(g) + 1
          /\ \A i \in 1 .. Len(g) : Append(g, t)[i] = g[i]
      BY <3>1
    <3>3. DOMAIN g \subseteq DOMAIN Append(g, t)
      BY <3>2
    <3>4. QED
      BY <2>2, <3>2, <3>3, FS_Interval
  <2>3. QED
    BY <1>2, <2>1, <2>2 DEF T, g
<1>4. HistoryInv'
  BY <1>1, <1>3, PartsStay DEF HistoryInv
<1>5. /\ DOMAIN receipts \subseteq DOMAIN receipts' /\ DOMAIN receipts \subseteq DOMAIN sent
      /\ \A tx \in DOMAIN receipts : receipts'[tx] = receipts[tx] /\ sent'[tx] = sent[tx]
      /\ IsFiniteSet(DOMAIN receipts')
  <2>1. SentStep /\ DOMAIN receipts \subseteq DOMAIN sent
    BY SentStay DEF IInv, ChainInv
  <2>2. IsFiniteSet(DOMAIN sent')
    <3> DEFINE T == TradeIds
    <3> HIDE DEF T
    <3>1. sent' \in Seq(T)
      BY <2>1 DEF SentStep, T
    <3>2. DOMAIN sent' = 1 .. Len(sent') /\ Len(sent') \in Nat
      BY <3>1
    <3>3. QED
      BY <3>2, FS_Interval
  <2>3. IsFiniteSet(DOMAIN receipts')
    BY <2>1, <2>2, FS_Subset DEF SentStep
  <2>4. QED
    BY <2>1, <2>3, ReceiptsStay DEF SentStep
<1>6. ASSUME NEW t \in TradeIds
      PROVE  /\ Settled(t) \subseteq Settled(t)' /\ CleanedUp(t) \subseteq CleanedUp(t)'
             /\ IsFiniteSet(Settled(t)') /\ IsFiniteSet(CleanedUp(t)')
  <2>1. Settled(t) \subseteq Settled(t)' /\ Settled(t)' \subseteq DOMAIN receipts'
    BY <1>5 DEF Settled
  <2>2. CleanedUp(t) \subseteq CleanedUp(t)' /\ CleanedUp(t)' \subseteq DOMAIN givenUp'
    BY <1>3 DEF CleanedUp
  <2>3. QED
    BY <1>3, <1>5, <2>1, <2>2, FS_Subset
<1>7. QED
  BY <1>4, <1>6

(* What settles regularly did so before, each trade once or not at all.      *)
Once(A, B) == (A = {} \/ B = {}) /\ (\A x, y \in A : x = y) /\ (\A x, y \in B : x = y)

LEMMA RegularBefore ==
  ASSUME IInv, MinedInv, HistoryInv, [Next]_vars, Regular'
  PROVE  /\ Regular
         /\ \A t \in TradeIds : Once(Settled(t), CleanedUp(t)) /\ Once(Settled(t)', CleanedUp(t)')
<1>1. TradeIds' = TradeIds
  BY TradesStay DEF TradesStep
<1>2. ASSUME NEW t \in TradeIds
      PROVE  /\ Cardinality(Settled(t)) + Cardinality(CleanedUp(t)) <= 1
             /\ Once(Settled(t), CleanedUp(t)) /\ Once(Settled(t)', CleanedUp(t)')
  <2> DEFINE A == Settled(t)
             B == CleanedUp(t)
             C == Settled(t)'
             D == CleanedUp(t)'
  <2>1. A \subseteq C /\ B \subseteq D /\ IsFiniteSet(C) /\ IsFiniteSet(D)
    BY HistoryGrows
  <2>2. Cardinality(C) + Cardinality(D) <= 1
    BY <1>1 DEF Regular
  <2> HIDE DEF A, B, C, D
  <2>3. /\ IsFiniteSet(A) /\ IsFiniteSet(B)
        /\ Cardinality(A) <= Cardinality(C) /\ Cardinality(B) <= Cardinality(D)
    BY <2>1, FS_Subset
  <2>4. /\ Cardinality(A) \in Nat /\ Cardinality(B) \in Nat
        /\ Cardinality(C) \in Nat /\ Cardinality(D) \in Nat
    BY <2>1, <2>3, FS_CardinalityType
  <2>5. Cardinality(A) + Cardinality(B) <= 1
    BY <2>2, <2>3, <2>4
  <2>6. Once(A, B) /\ Once(C, D)
    BY <2>1, <2>2, <2>3, <2>5, AtMostOne DEF Once
  <2>7. QED
    BY <2>5, <2>6 DEF A, B, C, D
<1>3. QED
  BY <1>2 DEF Regular

(* A successful transaction fills of each order its part of the trade.       *)
LEMMA MinedFills ==
  ASSUME IInv, HistoryInv, NEW tx \in mempool, MatchOrders(Executor, trades[sent[tx]], clock, tx)
  PROVE  /\ sent[tx] \in TradeIds
         /\ \A h \in Tickets : filledAmounts'[h] = filledAmounts[h] + PartOf(h)[sent[tx]]
<1> DEFINE t == sent[tx]
           D == DOMAIN orders
           u == trades[t]
           T == Takers
<1>1. t \in TradeIds /\ tx \in Nat
  <2>1. sent \in Seq(TradeIds) /\ tx \in DOMAIN sent
    BY DEF IInv, TablesInv, ChainInv
  <2>2. QED
    BY <2>1
<1>2. u \in TradeRow(D) /\ MadeByMatch(u) /\ u.taker \in T
  <2> HIDE DEF t
  <2>1. QED
    BY <1>1, OrdersOfInside DEF IInv, HistoryInv, Takers
<1>3. filledAmounts' = MatchBatch(u, clock, tx).filled
  BY DEF MatchOrders
<1>4. D \in SUBSET Tickets /\ ExchangeGood(D, T, filledAmounts, wallet, logs)
  BY DEF IInv, TablesInv, OrdersInv, ContractInv
<1>5. \A h \in Tickets : PartOf(h)[t] = AmountIn(u, h)
  <2> HIDE DEF t
  <2>1. QED
    BY <1>1, PartsAreNat
<1> HIDE DEF D, u, T
<1>6. u.taker \in D /\ u.amount \in Nat /\ u.fills \in Seq(FillRow(D))
  BY <1>2 DEF TradeRow
<1>7. \A h \in Tickets : MatchBatch(u, clock, tx).filled[h] = filledAmounts[h] + AmountIn(u, h)
  BY <1>1, <1>2, <1>4, <1>6, BatchFills
<1>8. QED
  BY <1>1, <1>3, <1>5, <1>7

LEMMA FilledStep ==
  ASSUME IInv, MinedInv, HistoryInv, AmountsInv, [Next]_vars, Regular'
  PROVE  \A h \in Tickets : filledAmounts'[h] = Total(PartOf(h)', SettledTrades')
<1> SUFFICES ASSUME NEW h \in Tickets
             PROVE  filledAmounts'[h] = Total(PartOf(h)', SettledTrades')
  OBVIOUS
<1> DEFINE P == PartOf(h)
           S == SettledTrades
<1>1. /\ filledAmounts[h] = Total(P, S) /\ PartOf(h)' = P
      /\ \A t \in TradeIds : Once(Settled(t)', CleanedUp(t)')
      /\ \A t \in TradeIds : Settled(t) \subseteq Settled(t)'
  BY RegularBefore, PartsStay, HistoryGrows DEF AmountsInv
<1>2. /\ TradeIds' = TradeIds /\ DOMAIN receipts \subseteq DOMAIN sent
      /\ \A r \in DOMAIN receipts : sent'[r] = sent[r]
      /\ mempool \cap DOMAIN receipts = {}
  BY TradesStay, SentStay DEF TradesStep, SentStep, IInv, ChainInv, MinedInv
<1>3. ASSUME UNCHANGED filledAmounts,
             \A r \in DOMAIN receipts' :
               (r \in DOMAIN receipts /\ receipts'[r] = receipts[r]) \/ ~ receipts'[r]
      PROVE  filledAmounts'[h] = Total(PartOf(h)', SettledTrades')
  <2>1. \A t \in TradeIds : Settled(t)' \subseteq Settled(t)
    BY <1>2, <1>3 DEF Settled
  <2>2. \A t \in TradeIds : Settled(t)' = Settled(t)
    BY <1>1, <2>1
  <2>3. SettledTrades' = S
    BY <1>2, <2>2 DEF SettledTrades
  <2> HIDE DEF P, S
  <2>4. QED
    BY <1>1, <1>3, <2>3
<1>4. ASSUME NEW tx \in mempool, Mine(tx)
      PROVE  filledAmounts'[h] = Total(PartOf(h)', SettledTrades')
  <2>1. /\ tx \notin DOMAIN receipts /\ DOMAIN receipts' = DOMAIN receipts \cup {tx}
        /\ receipts'[tx] = Succeeds(tx)
        /\ \A r \in DOMAIN receipts : receipts'[r] = receipts[r]
        /\ UNCHANGED sent
    BY <1>2, <1>4 DEF Mine, Include
  <2>2. CASE ~ Succeeds(tx)
    <3>1. UNCHANGED filledAmounts
      BY <1>4, <2>2 DEF Mine, exchangeVars
    <3>2. QED
      BY <1>3, <2>1, <2>2, <3>1
  <2>3. CASE Succeeds(tx)
    <3>1. MatchOrders(Executor, trades[sent[tx]], clock, tx)
      BY <1>4, <2>3 DEF Mine
    <3>2. PICK t \in TradeIds : t = sent[tx] /\ filledAmounts'[h] = filledAmounts[h] + P[t]
      BY <3>1, MinedFills
    <3>3. \A v \in TradeIds : Settled(v)' = IF v = t THEN Settled(v) \cup {tx} ELSE Settled(v)
      BY <2>1, <2>3, <3>2 DEF Settled
    <3>4. Settled(t) = {}
      <4>1. tx \in Settled(t)' /\ Settled(t) \subseteq Settled(t)' /\ tx \notin Settled(t)
        BY <1>1, <2>1, <3>2, <3>3 DEF Settled
      <4>2. \A x, y \in Settled(t)' : x = y
        BY <1>1, <3>2 DEF Once
      <4>3. QED
        BY <4>1, <4>2
    <3>5. SettledTrades' = S \cup {t} /\ t \notin S
      BY <1>2, <3>2, <3>3, <3>4 DEF SettledTrades
    <3>6. IsFiniteSet(S) /\ \A v \in S \cup {t} : P[v] \in Nat
      <4>1. S \subseteq TradeIds
        BY DEF SettledTrades
      <4>2. QED
        BY <3>2, <4>1, PartsAreNat, FS_Subset
    <3> HIDE DEF P, S
    <3>7. Total(P, S \cup {t}) = Total(P, S) + P[t]
      BY <3>5, <3>6, TotalAdd
    <3>8. QED
      BY <1>1, <3>2, <3>5, <3>7
  <2>4. QED
    BY <2>2, <2>3
<1>5. CASE ~ \E tx \in mempool : Mine(tx)
  <2>1. UNCHANGED filledAmounts
    BY <1>5, NextWriters DEF Writers, WritesExchange, AssetsMove, WalletDrops, SetOperator
  <2>2. UNCHANGED receipts
    BY <1>5, NextWriters
       DEF Writers, WritesChain, SubmitMatchOrders, SubmitUnanswered, Broadcast, chainVars,
           LoseTransaction
  <2>3. QED
    BY <1>3, <2>1, <2>2
<1>6. QED
  BY <1>4, <1>5

(* Under way regularly, a trade is given up that was not before.             *)
LEMMA GivenUpOnce ==
  ASSUME IInv, MinedInv, HistoryInv, [Next]_vars, Regular', NEW t \in TradeIds,
         givenUp' = Append(givenUp, t)
  PROVE  /\ CleanedUp(t) = {} /\ CleanedUp(t)' # {}
         /\ \A u \in TradeIds \ {t} : CleanedUp(u)' = CleanedUp(u)
<1> DEFINE n == Len(givenUp)
           T == TradeIds
<1>1. \A x, y \in CleanedUp(t)' : x = y
  BY RegularBefore DEF Once
<1> HIDE DEF T
<1>2. givenUp \in Seq(T) /\ t \in T
  BY DEF HistoryInv, T
<1>3. /\ n \in Nat /\ DOMAIN givenUp = 1 .. n
      /\ DOMAIN givenUp' = 1 .. n + 1 /\ givenUp'[n + 1] = t
      /\ \A i \in 1 .. n : givenUp'[i] = givenUp[i]
  BY <1>2
<1>4. /\ \A u \in T : u # t => CleanedUp(u)' = CleanedUp(u)
      /\ n + 1 \in CleanedUp(t)' /\ n + 1 \notin CleanedUp(t)
      /\ CleanedUp(t) \subseteq CleanedUp(t)'
  <2>1. n + 1 \in 1 .. n + 1 /\ n + 1 \notin 1 .. n /\ 1 .. n + 1 = (1 .. n) \cup {n + 1}
    BY <1>3
  <2> HIDE DEF n
  <2>2. QED
    BY <1>3, <2>1 DEF CleanedUp
<1>5. CleanedUp(t) = {}
  BY <1>1, <1>4
<1>6. QED
  BY <1>4, <1>5 DEF T

(* And an event says no more than what is confirmed and pending of its order. *)
LEMMA FillIsPending ==
  ASSUME IInv, MinedInv, HistoryInv, AmountsInv, [Next]_vars, Regular', FillEvent,
         NEW h \in DOMAIN orders, h = logs[indexer.next].order
  PROVE  logs[indexer.next].total <= Confirmed(orders[h]) + orders[h].pending
<1> DEFINE P == PartOf(h)
           O == OpenTrades
           total == logs[indexer.next].total
           c == Confirmed(orders[h]) + orders[h].pending
<1>1. h \in Tickets /\ orders[h] \in OrderRow
  BY DEF IInv, TablesInv, OrdersInv
<1>2. /\ c = Total(P, O) /\ filledAmounts[h] = Total(P, SettledTrades)
      /\ \A t \in TradeIds : Once(Settled(t), CleanedUp(t))
  BY <1>1, RegularBefore DEF AmountsInv
<1>3. total <= filledAmounts[h] /\ filledAmounts[h] \in Nat
  <2>1. indexer.next \in DOMAIN logs /\ logs[indexer.next].event = "OrderFilled"
    BY NextLog DEF FillEvent, ApplyLog
  <2>2. QED
    BY <1>1, <2>1 DEF IInv, ContractInv, ExchangeGood
<1>4. total \in Nat
  BY FillConfirms
<1>5. Total(P, SettledTrades) <= Total(P, O) /\ Total(P, O) \in Nat
  <2>1. SettledTrades \in SUBSET O
    BY <1>2 DEF SettledTrades, OpenTrades, Once
  <2>2. IsFiniteSet(O) /\ \A t \in O : P[t] \in Nat
    <3>1. O \subseteq TradeIds
      BY DEF OpenTrades
    <3>2. QED
      BY <3>1, PartsAreNat, FS_Subset
  <2> HIDE DEF P, O
  <2>3. QED
    BY <2>1, <2>2, TotalSubset, TotalNat
<1> DEFINE f == filledAmounts[h]
           o == Total(P, O)
<1>6. c = o /\ f <= o /\ o \in Nat /\ total <= f /\ f \in Nat
  BY <1>2, <1>3, <1>5
<1> HIDE DEF c, f, o, total
<1>7. total <= c
  BY <1>4, <1>6
<1>8. QED
  BY <1>7 DEF c, total

LEMMA PendingStep ==
  ASSUME IInv, MinedInv, HistoryInv, AmountsInv, [Next]_vars, Regular'
  PROVE  \A h \in DOMAIN orders' :
           Confirmed(orders'[h]) + orders'[h].pending = Total(PartOf(h)', OpenTrades')
<1>1. /\ OrdersStep /\ DOMAIN orders' = DOMAIN orders /\ TradeIds' = TradeIds
  BY OrdersStay, TradesStay DEF OrdersStep, TradesStep
<1> SUFFICES ASSUME NEW h \in DOMAIN orders
             PROVE  Confirmed(orders'[h]) + orders'[h].pending = Total(PartOf(h)', OpenTrades')
  BY <1>1
<1> DEFINE P == PartOf(h)
           O == OpenTrades
<1>2. /\ Confirmed(orders[h]) + orders[h].pending = Total(P, O) /\ PartOf(h)' = P
  BY RegularBefore, PartsStay DEF AmountsInv
<1>3. h \in Tickets /\ orders[h] \in OrderRow
  BY DEF IInv, TablesInv, OrdersInv
<1>4. IsFiniteSet(TradeIds) /\ (\A t \in TradeIds : P[t] \in Nat) /\ O \subseteq TradeIds /\ IsFiniteSet(O)
  <2>1. O \subseteq TradeIds
    BY DEF OpenTrades
  <2>2. QED
    BY <2>1, PartsAreNat, FS_Subset
<1>5. ASSUME UNCHANGED givenUp,
             Confirmed(orders'[h]) + orders'[h].pending = Confirmed(orders[h]) + orders[h].pending
      PROVE  Confirmed(orders'[h]) + orders'[h].pending = Total(PartOf(h)', OpenTrades')
  <2>1. OpenTrades' = O
    BY <1>1, <1>5 DEF OpenTrades, CleanedUp
  <2> HIDE DEF P, O
  <2>2. QED
    BY <1>2, <1>5, <2>1
<1>6. ASSUME NEW t \in TradeIds, GivesUp(t)
      PROVE  Confirmed(orders'[h]) + orders'[h].pending = Total(PartOf(h)', OpenTrades')
  <2>1. PICK seen \in [OrdersOf(t) -> OrderRow] : CommitTables(Cleanup(t, seen))
    BY <1>6 DEF GivesUp
  <2> DEFINE x == Cleanup(t, seen)
  <2>2. x.ok /\ orders' = x.orders
    BY <2>1 DEF CommitTables
  <2>3. /\ trades[t] \in TradeRow(DOMAIN orders) /\ MadeByMatch(trades[t])
        /\ OrdersInv(orders) /\ reservations \in ReservationTables
    BY OrdersOfInside DEF IInv, TablesInv, HistoryInv
  <2>4. /\ trades[t].taker \in DOMAIN orders /\ trades[t].fills \in Seq(FillRow(DOMAIN orders))
        /\ trades[t].amount \in Nat
    BY <2>3 DEF TradeRow
  <2>5. Cleanup(t, seen) \in TablesAfter(orders)
    BY <2>3, <2>4, CleanupKeeps
  <2>6. Confirmed(x.orders[h]) = Confirmed(orders[h])
    BY <2>5 DEF TablesAfter
  <2>7. \A g \in DOMAIN orders :
          Cleanup(t, seen).orders[g].pending = orders[g].pending - AmountIn(trades[t], g)
    BY <2>2, <2>3, <2>4, CleanupReleases
  <2>8. x.orders[h].pending = orders[h].pending - P[t]
    BY <2>7, PartsAreNat
  <2>9. OpenTrades' = O \ {t} /\ t \in O
    <3>1. givenUp' = Append(givenUp, t)
      BY <1>6 DEF GivesUp
    <3>2. CleanedUp(t) = {} /\ CleanedUp(t)' # {} /\ \A u \in TradeIds \ {t} : CleanedUp(u)' = CleanedUp(u)
      BY <3>1, GivenUpOnce
    <3>3. QED
      BY <1>1, <3>2 DEF OpenTrades
  <2>10. Total(P, O) = Total(P, O \ {t}) + P[t] /\ Total(P, O \ {t}) \in Nat
    <3>1. (\A v \in O : P[v] \in Nat) /\ (\A v \in O \ {t} : P[v] \in Nat) /\ IsFiniteSet(O \ {t})
      BY <1>4, FS_Subset
    <3> HIDE DEF P, O
    <3>2. Total(P, O) = Total(P, O \ {t}) + P[t]
      BY <1>4, <2>9, <3>1, TotalSplit
    <3>3. Total(P, O \ {t}) \in Nat
      BY <3>1, TotalNat
    <3>4. QED
      BY <3>2, <3>3
  <2>11. orders[h].pending \in Nat /\ Confirmed(orders[h]) \in Int /\ P[t] \in Nat
    BY <1>3, <1>4 DEF OrderRow, Confirmed
  <2> HIDE DEF x, P, O
  <2>12. QED
    BY <1>2, <2>2, <2>6, <2>8, <2>9, <2>10, <2>11
<1>7. CASE FillEvent /\ UNCHANGED givenUp
  <2> DEFINE log == logs[indexer.next]
  <2>1. /\ log.total <= Confirmed(orders[log.order]) + orders[log.order].pending =>
             Confirmed(orders'[log.order]) + orders'[log.order].pending =
               Confirmed(orders[log.order]) + orders[log.order].pending
        /\ \A g \in DOMAIN orders \ {log.order} : orders'[g] = orders[g]
        /\ log.total \in Nat
    BY <1>7, FillConfirms
  <2>2. CASE h # log.order
    BY <1>5, <1>7, <2>1, <2>2
  <2>3. CASE h = log.order
    <3>1. log.total <= Confirmed(orders[h]) + orders[h].pending
      BY <1>7, <2>3, FillIsPending
    <3>2. QED
      BY <1>5, <1>7, <2>1, <2>3, <3>1
  <2>4. QED
    BY <2>2, <2>3
<1>8. CASE UNCHANGED givenUp /\ ~ FillEvent
  <2>1. \/ orders'[h].pending = orders[h].pending /\ Confirmed(orders'[h]) = Confirmed(orders[h])
        \/ \E t \in TradeIds : GivesUp(t)
    BY <1>1, <1>8 DEF OrdersStep
  <2>2. QED
    BY <1>5, <1>6, <1>8, <2>1
<1>9. QED
  BY <1>1, <1>6, <1>7, <1>8 DEF OrdersStep

(* It begins with all trades open and nothing filled.                        *)
LEMMA InitAmounts ==
  ASSUME Init
  PROVE  HistoryInv /\ AmountsInv
<1>1. PICK s \in Scenarios : orders = s.orders /\ trades = s.trades
  BY DEF Init
<1>2. /\ \A t \in DOMAIN trades : MadeByMatch(trades[t]) /\ EachMakerOnce(trades[t])
      /\ \A h \in DOMAIN orders :
           /\ orders[h].remaining = orders[h].outcomeAmount
           /\ orders[h].pending = Total([t \in DOMAIN trades |-> AmountIn(trades[t], h)], DOMAIN trades)
  <2>1. /\ \A t \in DOMAIN s.trades : MadeByMatch(s.trades[t]) /\ EachMakerOnce(s.trades[t])
        /\ \A h \in DOMAIN s.orders :
             /\ s.orders[h].remaining = s.orders[h].outcomeAmount
             /\ s.orders[h].pending =
                  Total([t \in DOMAIN s.trades |-> AmountIn(s.trades[t], h)], DOMAIN s.trades)
    BY ScenariosAssumption DEF SumOver
  <2>2. QED
    BY <1>1, <2>1
<1>3. givenUp = <<>> /\ receipts = <<>> /\ filledAmounts = [h \in Tickets |-> 0]
  BY DEF Init, ExchangeInit
<1>4. HistoryInv
  BY <1>2, <1>3 DEF HistoryInv, TradeIds
<1>5. SettledTrades = {} /\ OpenTrades = TradeIds
  BY <1>3 DEF SettledTrades, OpenTrades, Settled, CleanedUp
<1>6. ASSUME NEW h \in Tickets PROVE filledAmounts[h] = Total(PartOf(h), SettledTrades)
  <2>1. Total(PartOf(h), {}) = 0
    BY TotalZero
  <2>2. QED
    BY <1>3, <1>5, <2>1
<1>7. ASSUME NEW h \in DOMAIN orders
      PROVE  Confirmed(orders[h]) + orders[h].pending = Total(PartOf(h), OpenTrades)
  <2>1. orders[h] \in OrderRow
    BY InitTables DEF TablesInv, OrdersInv
  <2>2. Confirmed(orders[h]) + orders[h].pending = orders[h].pending
    <3>1. orders[h].outcomeAmount \in Nat /\ orders[h].pending \in Nat
      BY <2>1 DEF OrderRow
    <3>2. orders[h].remaining = orders[h].outcomeAmount
      BY <1>2
    <3>3. Confirmed(orders[h]) = 0
      BY <3>1, <3>2 DEF Confirmed
    <3>4. QED
      BY <3>1, <3>3
  <2>3. orders[h].pending = Total(PartOf(h), TradeIds)
    BY <1>2 DEF PartOf, TradeIds
  <2>4. QED
    BY <1>5, <2>2, <2>3
<1>8. QED
  BY <1>4, <1>6, <1>7 DEF AmountsInv

-----------------------------------------------------------------------------
(* What the reservations cover: the trades by whether they were given up, and *)
(* the copies of orders that the cleanups carry, still true of what an order  *)
(* keeps while fills and cancellations change the rest of it.                *)

Closings ==
  [t \in TradeIds |-> [taker |-> trades[t].taker, fills |-> trades[t].fills,
                      status |-> IF CleanedUp(t) = {} THEN "MATCHED" ELSE "FAILED"]]

Copied(seen, t) == \A h \in OrdersOf(t) : CopyOf(seen[h], orders[h])
CopiesInv ==
  /\ executor.pc = "release" => Copied(executor.seen, executor.trade)
  /\ sweep.seen # <<>> => Copied(sweep.seen, attempts[Swept].trade)

CoverInv == Regular => CopiesInv /\ Covered(orders, reservations, Closings)

LEMMA ClosingsFacts ==
  ASSUME IInv
  PROVE  /\ DOMAIN Closings = TradeIds /\ IsFiniteSet(DOMAIN Closings)
         /\ \A t \in TradeIds : /\ PartsOf(Closings[t]) = OrdersOf(t)
                                /\ OrdersOf(t) \subseteq DOMAIN orders
                                /\ Closings[t].status = "FAILED" <=> CleanedUp(t) # {}
<1>1. IsFiniteSet(TradeIds)
  BY PartsAreNat
<1>2. \A t \in TradeIds : OrdersOf(t) \subseteq DOMAIN orders
  BY OrdersOfInside DEF IInv
<1>3. \A t \in TradeIds : /\ Closings[t].taker = trades[t].taker /\ Closings[t].fills = trades[t].fills
                          /\ Closings[t].status = "FAILED" <=> CleanedUp(t) # {}
  BY DEF Closings
<1>4. QED
  BY <1>1, <1>2, <1>3 DEF Closings, PartsOf, OrdersOf

LEMMA ClosingsStep ==
  ASSUME IInv, [Next]_vars
  PROVE  Closings' = [t \in TradeIds |->
                        [taker |-> trades[t].taker, fills |-> trades[t].fills,
                         status |-> IF CleanedUp(t)' = {} THEN "MATCHED" ELSE "FAILED"]]
<1>1. TradeIds' = TradeIds
  BY TradesStay DEF TradesStep
<1>2. \A t \in TradeIds : trades'[t].taker = trades[t].taker /\ trades'[t].fills = trades[t].fills
  BY TradesStay DEF TradesStep
<1>3. QED
  BY <1>1, <1>2 DEF Closings

(* What leaves the trades given up alone, and nothing of what is spare.      *)
LEMMA CoverStays ==
  ASSUME IInv, [Next]_vars, UNCHANGED givenUp, Covered(orders, reservations, Closings),
         Kept(orders', orders), reservations' \in ReservationTables,
         NoSpareLost(orders', reservations', orders, reservations)
  PROVE  Covered(orders', reservations', Closings')
<1> DEFINE C == Closings
           N == Closings'
<1>1. /\ OrdersInv(orders) /\ reservations \in ReservationTables /\ OrdersInv(orders')
      /\ \A key : WithKey(orders, key) \subseteq WithKey(orders', key)
  BY KeysStay DEF IInv, TablesInv, Kept
<1>2. N = C
  <2>1. \A t \in TradeIds : CleanedUp(t)' = CleanedUp(t)
    BY DEF CleanedUp
  <2>2. QED
    BY <2>1, ClosingsStep DEF Closings
<1>3. IsFiniteSet(DOMAIN C)
  BY ClosingsFacts
<1> HIDE DEF C, N
<1>4. Covered(orders, reservations, C)
  BY DEF C
<1>5. \A h : FailedOf(C, h) \subseteq FailedOf(C, h)
  OBVIOUS
<1>6. Covered(orders', reservations', C)
  BY <1>1, <1>3, <1>4, <1>5, CoveredKept
<1>7. QED
  BY <1>2, <1>6 DEF N

(* A trade given up, with copies of its orders.                              *)
LEMMA CoverGivesUp ==
  ASSUME IInv, MinedInv, HistoryInv, [Next]_vars, Regular', Covered(orders, reservations, Closings),
         NEW t \in TradeIds, NEW seen, Copied(seen, t),
         CommitTables(Cleanup(t, seen)), givenUp' = Append(givenUp, t)
  PROVE  Aged(orders', orders) /\ Covered(orders', reservations', Closings')
<1> DEFINE C == Closings
           N == Closings'
           x == Cleanup(t, seen)
<1>1. /\ OrdersInv(orders) /\ reservations \in ReservationTables
      /\ TradeOfOrders(trades[t], orders)
  <2>1. trades[t] \in TradeRow(DOMAIN orders)
    BY OrdersOfInside DEF IInv
  <2>2. QED
    BY <2>1 DEF IInv, TablesInv, HistoryInv, TradeOfOrders, TradeRow
<1>2. x.ok /\ orders' = x.orders /\ reservations' = x.reservations
  BY DEF CommitTables
<1>3. \A h \in OrdersOf(t) : CopyOf(seen[h], orders[h])
  BY DEF Copied
<1>4. /\ Kept(x.orders, orders) /\ Aged(x.orders, orders) /\ x.reservations \in ReservationTables
      /\ SpareBut(x.orders, x.reservations, orders, reservations, OrdersOf(t))
  BY <1>1, <1>2, <1>3, FailedTrade
<1>5. CleanedUp(t) = {} /\ CleanedUp(t)' # {} /\ \A u \in TradeIds \ {t} : CleanedUp(u)' = CleanedUp(u)
  BY GivenUpOnce
<1>6. /\ DOMAIN N = DOMAIN C /\ DOMAIN C = TradeIds
      /\ C[t].status # "FAILED" /\ N[t].status = "FAILED" /\ PartsOf(N[t]) = PartsOf(C[t])
      /\ \A e \in DOMAIN C \ {t} : N[e] = C[e]
  <2>1. C = [u \in TradeIds |-> [taker |-> trades[u].taker, fills |-> trades[u].fills,
                                status |-> IF CleanedUp(u) = {} THEN "MATCHED" ELSE "FAILED"]]
    BY DEF Closings
  <2>2. N = [u \in TradeIds |-> [taker |-> trades[u].taker, fills |-> trades[u].fills,
                                status |-> IF CleanedUp(u)' = {} THEN "MATCHED" ELSE "FAILED"]]
    BY ClosingsStep
  <2> HIDE DEF C, N
  <2>3. QED
    BY <1>5, <2>1, <2>2 DEF PartsOf
<1>7. /\ IsFiniteSet(DOMAIN C) /\ PartsOf(C[t]) = OrdersOf(t) /\ OrdersOf(t) \subseteq DOMAIN orders
      /\ Covered(orders, reservations, C)
  BY ClosingsFacts
<1> HIDE DEF C, N, x
<1>8. t \in DOMAIN C /\ SpareBut(x.orders, x.reservations, orders, reservations, PartsOf(C[t]))
      /\ PartsOf(C[t]) \subseteq DOMAIN orders
  BY <1>4, <1>6, <1>7
<1>9. Covered(x.orders, x.reservations, N)
  BY <1>1, <1>4, <1>6, <1>7, <1>8, CoveredFails
<1>10. QED
  BY <1>2, <1>4, <1>9 DEF N

(* What a step writes to orders and reservations.                            *)
LEMMA CoverStep ==
  ASSUME IInv, MinedInv, HistoryInv, AmountsInv, CoverInv, [Next]_vars, Regular'
  PROVE  Aged(orders', orders) /\ Covered(orders', reservations', Closings')
<1>1. /\ OrdersInv(orders) /\ reservations \in ReservationTables
      /\ CopiesInv /\ Covered(orders, reservations, Closings)
  BY RegularBefore DEF IInv, TablesInv, CoverInv
<1>2. CASE UNCHANGED <<orders, reservations, givenUp>>
  <2>1. Aged(orders, orders) /\ Kept(orders, orders)
    BY <1>1, RowIsCopy DEF Aged, Kept
  <2>2. NoSpareLost(orders, reservations, orders, reservations)
    <3>1. \A key : Spare(orders, reservations, key) \in Int
      BY <1>1, SpareInt
    <3>2. \A key : Spare(orders, reservations, key) >= Spare(orders, reservations, key)
      BY <3>1
    <3>3. QED
      BY <3>2 DEF NoSpareLost
  <2>3. QED
    BY <1>1, <1>2, <2>1, <2>2, CoverStays
<1>3. CASE ReleaseFailedTrade
  <2>1. /\ executor.trade \in TradeIds /\ Current = executor.trade
        /\ Copied(executor.seen, executor.trade)
    BY <1>1, <1>3 DEF ReleaseFailedTrade, IInv, ExecutorInv, CopiesInv, Current
  <2>2. CASE CommitTables(Cleanup(Current, executor.seen)) /\ givenUp' = Append(givenUp, Current)
    BY <1>1, <2>1, <2>2, CoverGivesUp
  <2>3. CASE UNCHANGED <<ledgerVars, givenUp>>
    BY <2>3, <1>2 DEF ledgerVars
  <2>4. QED
    BY <1>3, <2>2, <2>3 DEF ReleaseFailedTrade, FinalizeFailedTrade
<1>4. CASE FinalizeSwept
  <2> DEFINE t == attempts[Swept].trade
  <2>1. sweep.todo # {} /\ Copied(sweep.seen, t)
    BY <1>1, <1>4 DEF FinalizeSwept, IInv, SweepInv, CopiesInv
  <2>2. t \in TradeIds
    BY <2>1, SweptInside
  <2>3. CASE CommitTables(Cleanup(t, sweep.seen)) /\ givenUp' = Append(givenUp, t)
    <3> HIDE DEF t
    <3>1. QED
      BY <1>1, <2>1, <2>2, <2>3, CoverGivesUp
  <2>4. CASE UNCHANGED <<ledgerVars, givenUp>>
    BY <2>4, <1>2 DEF ledgerVars
  <2>5. QED
    BY <1>4, <2>3, <2>4 DEF FinalizeSwept, FinalizeFailedTrade
<1>5. CASE FillEvent
  <2> DEFINE log == logs[indexer.next]
             h == log.order
             delta == CalculateConfirmedFillDelta(orders[h], log.total)
             x == ConfirmFill(Tables, h, delta)
  <2>1. UNCHANGED givenUp
    BY <1>5 DEF FillEvent, ApplyLog, auxVars
  <2>2. h \in DOMAIN orders /\ log.total \in Nat
    BY <1>5, FillConfirms
  <2>3. log.total <= Confirmed(orders[h]) + orders[h].pending
    BY <1>5, <2>2, FillIsPending
  <2>4. orders[h] \in OrderRow /\ Confirmed(orders[h]) \in Int /\ orders[h].pending \in Nat
    BY <1>1, <2>2 DEF OrdersInv, OrderRow, Confirmed
  <2>5. delta = Larger(0, log.total - Confirmed(orders[h]))
    BY DEF CalculateConfirmedFillDelta
  <2>6. CommitTables(ApplyOrderFilled(log))
    BY <1>5 DEF FillEvent, ApplyLog
  <2>7. CASE delta = 0
    <3>1. UNCHANGED <<orders, reservations>>
      BY <2>6, <2>7 DEF ApplyOrderFilled, CommitTables, Tables
    <3>2. QED
      BY <2>1, <3>1, <1>2
  <2>8. CASE delta # 0
    <3>1. x.ok /\ orders' = x.orders /\ reservations' = x.reservations
      BY <2>6, <2>8 DEF ApplyOrderFilled, CommitTables
    <3>2. x = ConfirmFill([ok |-> TRUE, orders |-> orders, reservations |-> reservations], h, delta)
      BY DEF Tables
    <3> HIDE DEF x, h, log
    <3>3. delta \in Nat /\ delta <= orders[h].pending
      BY <2>2, <2>3, <2>4, <2>5, <2>8 DEF Larger
    <3> HIDE DEF delta
    <3>4. ConfirmLeaves(x, orders, reservations, h, delta)
      BY <1>1, <2>2, <3>1, <3>2, <3>3, ConfirmFillKeeps
    <3>5. QED
      BY <1>1, <2>1, <3>1, <3>4, CoverStays DEF ConfirmLeaves
  <2>9. QED
    BY <2>7, <2>8
<1>6. CASE ApplyLog /\ ~ FillEvent
  <2>1. UNCHANGED <<orders, reservations, givenUp>>
    BY <1>6 DEF FillEvent, ApplyLog, ledgerVars, auxVars
  <2>2. QED
    BY <2>1, <1>2
<1>7. ASSUME NEW h \in Cancellable, CancelOrder(h)
      PROVE  Aged(orders', orders) /\ Covered(orders', reservations', Closings')
  <2>1. CancelOrderTx(h) /\ UNCHANGED givenUp
    BY <1>7 DEF CancelOrder
  <2> DEFINE key == BuildOrderReservationKey(orders[h])
             release == AvailableRemainderRelease(orders[h])
  <2>2. /\ orders' = Ending(orders, h, "CANCELLED") /\ h \in DOMAIN orders /\ orders[h].status = "LIVE"
        /\ reservations' = ReleaseRemainder(reservations, key, release)
        /\ CanReleaseRemainder(reservations, key, release)
    BY <1>1, <2>1, Cancelled
  <2> DEFINE q == Ending(orders, h, "CANCELLED")
             s == ReleaseRemainder(reservations, key, release)
  <2>3. Aged(q, orders)
    BY <1>1, <2>2, EndedRow
  <2>4. EndLeaves(q, s, orders, reservations)
    BY <1>1, <2>2, EndOne
  <2>5. orders' = q /\ reservations' = s
    BY <2>2
  <2> HIDE DEF q, s
  <2>6. QED
    BY <1>1, <2>1, <2>3, <2>4, <2>5, CoverStays DEF EndLeaves
<1>8. QED
  BY <1>2, <1>3, <1>4, <1>5, <1>6, <1>7, NextWriters DEF Writers, WritesOrders

(* Copies age with the orders, and new ones are taken of the orders as they   *)
(* are.                                                                      *)
LEMMA CopiesAge ==
  ASSUME IInv, [Next]_vars, Aged(orders', orders), NEW t \in TradeIds, NEW seen, Copied(seen, t)
  PROVE  \A h \in OrdersOf(t) : CopyOf(seen[h], orders'[h])
<1>1. OrdersOf(t) \subseteq DOMAIN orders
  BY OrdersOfInside DEF IInv
<1>2. QED
  BY <1>1, CopyAges DEF Aged, Copied

LEMMA FreshCopies ==
  ASSUME IInv, NEW t \in TradeIds
  PROVE  \A h \in OrdersOf(t) : CopyOf([g \in OrdersOf(t) |-> orders[g]][h], orders[h])
<1>1. OrdersOf(t) \subseteq DOMAIN orders /\ OrdersInv(orders)
  BY OrdersOfInside DEF IInv, TablesInv
<1>2. QED
  BY <1>1, RowIsCopy

LEMMA ExecutorCopies ==
  ASSUME IInv, CopiesInv, [Next]_vars, Aged(orders', orders)
  PROVE  executor'.pc = "release" => Copied(executor.seen, executor.trade)'
<1> DEFINE T == TradeIds
<1>1. executor \in ExecutorRow(T) /\ (executor.pc \notin {"idle", "begin"} => executor.trade \in T)
  BY DEF IInv, ExecutorInv
<1>2. CASE executor'.pc # "release"
  BY <1>2
<1>3. CASE executor' = IdleExecutor \/ executor' = NextInBatch
  <2>1. IdleExecutor.pc = "idle"
    BY DEF IdleExecutor
  <2>2. [IdleExecutor EXCEPT !.pc = "begin", !.batch = executor.batch].pc = "begin"
    BY DEF IdleExecutor
  <2>3. QED
    BY <2>1, <2>2, <1>2, <1>3 DEF NextInBatch
<1>4. CASE UNCHANGED executor
  <2>1. SUFFICES ASSUME executor.pc = "release" PROVE Copied(executor.seen, executor.trade)'
    BY <1>4
  <2>2. executor.trade \in TradeIds /\ Copied(executor.seen, executor.trade)
    BY <2>1, <1>1 DEF CopiesInv
  <2>3. \A h \in OrdersOf(executor.trade) : CopyOf(executor.seen[h], orders'[h])
    BY <2>2, CopiesAge
  <2>4. OrdersOf(executor.trade)' = OrdersOf(executor.trade)
    <3>1. \A t \in TradeIds : trades'[t].taker = trades[t].taker /\ trades'[t].fills = trades[t].fills
      BY TradesStay DEF TradesStep
    <3>2. QED
      BY <2>2, <3>1, <1>4 DEF OrdersOf
  <2>5. QED
    BY <2>3, <2>4, <1>4 DEF Copied
<1>5. CASE ReadFailedTrade
  <2>1. Current \in TradeIds /\ Current = executor.trade
    BY <1>5, <1>1 DEF ReadFailedTrade, Current
  <2>2. CASE executor' = [executor EXCEPT !.pc = "release",
                                          !.seen = [h \in OrdersOf(Current) |-> orders[h]]]
    <3> DEFINE copy == [h \in OrdersOf(Current) |-> orders[h]]
    <3>1. executor'.seen = copy /\ executor'.trade = executor.trade
      <4> HIDE DEF copy, T
      <4>1. executor' = [executor EXCEPT !.pc = "release", !.seen = copy]
        BY <2>2 DEF copy
      <4>2. QED
        BY <4>1, <1>1 DEF ExecutorRow
    <3>2. trades' = trades /\ orders' = orders
      BY <1>5 DEF ReadFailedTrade, ledgerVars
    <3>3. OrdersOf(executor.trade)' = OrdersOf(Current)
      BY <3>1, <3>2, <2>1 DEF OrdersOf
    <3>4. \A h \in OrdersOf(Current) : CopyOf(copy[h], orders[h])
      BY <2>1, FreshCopies
    <3> HIDE DEF copy
    <3>5. QED
      BY <3>1, <3>2, <3>3, <3>4 DEF Copied
  <2>3. QED
    BY <1>5, <2>2, <1>3 DEF ReadFailedTrade
<1>6. CASE ClaimExecutableTrades
  <2> DEFINE claimed == Oldest({t \in TradeIds : Executable(t) /\ ~TradeLocked(t)}, BatchLimit)
  <2>1. executor' = [executor EXCEPT !.pc = "begin", !.batch = claimed]
    BY <1>6 DEF ClaimExecutableTrades
  <2> HIDE DEF claimed, T
  <2>2. QED
    BY <2>1, <1>1, <1>2 DEF ExecutorRow
<1>7. ASSUME NEW t \in executor.batch, BeginTrade(t)
      PROVE  executor'.pc # "release"
  <2> DEFINE remaining == CalculateRemainingSettlementAttempts(GetSettlementAttemptCountByTrade(t))
             pc == IF remaining = 0 THEN "cleanup" ELSE "attempt"
  <2>1. executor' = [executor EXCEPT !.pc = pc, !.batch = executor.batch \ {t}, !.trade = t,
                                     !.left = remaining, !.before = Len(sent)]
    BY <1>7 DEF BeginTrade
  <2>2. pc \in {"cleanup", "attempt"}
    OBVIOUS
  <2> HIDE DEF remaining, pc, T
  <2>3. QED
    BY <2>1, <2>2, <1>1 DEF ExecutorRow
<1>8. CASE CreateAttempt \/ RecordAttempt \/ MarkAttemptFailed \/ MarkTradeRetrying \/ RecordFails
           \/ SubmitMatchOrders \/ SubmitUnanswered
  <2> HIDE DEF T
  <2>1. CASE MarkTradeRetrying
    <3> DEFINE n == executor.left - 1
               pc == IF executor.left > 1 THEN "attempt" ELSE "cleanup"
    <3>1. executor' = [executor EXCEPT !.pc = pc, !.left = n, !.attempt = 0, !.tx = NoTx]
      BY <2>1 DEF MarkTradeRetrying
    <3>2. pc \in {"attempt", "cleanup"}
      OBVIOUS
    <3> HIDE DEF n, pc
    <3>3. QED
      BY <3>1, <3>2, <1>1, <1>2 DEF ExecutorRow
  <2>2. CASE CreateAttempt
    BY <2>2, <1>1, <1>2 DEF CreateAttempt, ExecutorRow
  <2>3. CASE RecordAttempt
    BY <2>3, <1>1, <1>2 DEF RecordAttempt, ExecutorRow
  <2>4. CASE MarkAttemptFailed
    BY <2>4, <1>1, <1>2 DEF MarkAttemptFailed, ExecutorRow
  <2>5. CASE RecordFails
    BY <2>5, <1>1, <1>2 DEF RecordFails, ExecutorRow
  <2>6. CASE SubmitMatchOrders
    BY <2>6, <1>1, <1>2 DEF SubmitMatchOrders, ExecutorRow
  <2>7. CASE SubmitUnanswered
    BY <2>7, <1>1, <1>2 DEF SubmitUnanswered, ExecutorRow
  <2>8. QED
    BY <1>8, <2>1, <2>2, <2>3, <2>4, <2>5, <2>6, <2>7
<1>9. CASE RecordTrade \/ ReleaseFailedTrade \/ Restart
  BY <1>9, <1>3 DEF RecordTrade, ReleaseFailedTrade, Restart
<1>10. QED
  BY <1>2, <1>4, <1>5, <1>6, <1>7, <1>8, <1>9, NextWriters DEF Writers, WritesExecutor

LEMMA SweepCopies ==
  ASSUME IInv, CopiesInv, [Next]_vars, Aged(orders', orders)
  PROVE  sweep'.seen # <<>> => Copied(sweep.seen, attempts[Swept].trade)'
<1> DEFINE A == DOMAIN attempts
<1>1. /\ AttemptsStep /\ sweep \in SweepRow(A)
      /\ sweep.seen # <<>> => sweep.verdict # "none" /\ sweep.todo # {}
  BY AttemptsStay DEF IInv, SweepInv
<1>2. CASE sweep'.seen = <<>>
  BY <1>2
<1>3. CASE UNCHANGED sweep
  <2>1. SUFFICES ASSUME sweep.seen # <<>> PROVE Copied(sweep.seen, attempts[Swept].trade)'
    BY <1>3
  <2> DEFINE t == attempts[Swept].trade
  <2>2. Swept \in A /\ t \in TradeIds /\ Swept' = Swept /\ Copied(sweep.seen, t)
    BY <2>1, <1>1, <1>3, SweptInside DEF Swept, CopiesInv
  <2>3. attempts'[Swept'].trade = t
    BY <2>2, <1>1 DEF AttemptsStep
  <2>4. OrdersOf(t)' = OrdersOf(t)
    <3>1. t' = t
      BY <2>3
    <3>2. trades'[t].taker = trades[t].taker /\ trades'[t].fills = trades[t].fills
      BY <2>2, TradesStay DEF TradesStep
    <3> HIDE DEF t
    <3>3. QED
      BY <3>1, <3>2 DEF OrdersOf
  <2>5. \A h \in OrdersOf(t) : CopyOf(sweep.seen[h], orders'[h])
    <3> HIDE DEF t
    <3>1. QED
      BY <2>2, CopiesAge
  <2>6. QED
    BY <2>4, <2>5, <1>3 DEF Copied
<1>4. CASE MarkAttempt
  <2> DEFINE t == attempts[Swept].trade
             copy == [h \in OrdersOf(t) |-> orders[h]]
  <2>1. \/ sweep' = [IdleSweep EXCEPT !.todo = OthersToSweep]
        \/ sweep' = [sweep EXCEPT !.seen = copy] /\ UNCHANGED <<trades, attempts>>
    BY <1>4 DEF MarkAttempt
  <2>2. CASE sweep' = [IdleSweep EXCEPT !.todo = OthersToSweep]
    BY <2>2, <1>2 DEF IdleSweep
  <2>3. CASE sweep' = [sweep EXCEPT !.seen = copy] /\ UNCHANGED <<trades, attempts>>
    <3>1. sweep.todo # {} /\ orders' = orders
      BY <1>4 DEF MarkAttempt, IInv, SweepInv
    <3>2. t \in TradeIds
      BY <3>1, SweptInside
    <3>3. \A h \in OrdersOf(t) : CopyOf(copy[h], orders[h])
      <4> HIDE DEF t
      <4>1. QED
        BY <3>2, FreshCopies
    <3> HIDE DEF copy, A
    <3>4. sweep'.todo = sweep.todo /\ sweep'.seen = copy
      BY <2>3, <1>1 DEF SweepRow
    <3>5. Swept' = Swept
      BY <3>4 DEF Swept
    <3>6. OrdersOf(attempts[Swept].trade)' = OrdersOf(t)
      BY <3>5, <2>3 DEF OrdersOf
    <3>7. QED
      BY <3>1, <3>3, <3>4, <3>6 DEF Copied
  <2>4. QED
    BY <2>1, <2>2, <2>3
<1>5. CASE StartSweep \/ FinalizeSwept \/ Restart
  BY <1>5, <1>2, <1>3 DEF StartSweep, FinalizeSwept, Restart, IdleSweep
<1>6. CASE ReadReceipt
  <2> HIDE DEF A
  <2>1. sweep.seen = <<>>
    BY <1>6, <1>1 DEF ReadReceipt
  <2>2. \/ sweep' = [sweep EXCEPT !.todo = OthersToSweep]
        \/ sweep' = [sweep EXCEPT !.verdict = "DROPPED"]
        \/ sweep' = [sweep EXCEPT !.verdict = "REVERTED"]
    BY <1>6 DEF ReadReceipt
  <2>3. sweep'.seen = <<>>
    BY <2>1, <2>2, <1>1 DEF SweepRow
  <2>4. QED
    BY <2>3, <1>2
<1>7. QED
  BY <1>3, <1>4, <1>5, <1>6, NextWriters DEF Writers, WritesSweep

(* It begins with what the orders need reserved.                             *)
LEMMA InitCover ==
  ASSUME Init
  PROVE  CoverInv
<1>1. IInv
  BY InitIInv
<1>2. CopiesInv
  BY DEF Init, IdleExecutor, IdleSweep, CopiesInv
<1>3. ASSUME NEW key \in ReservationKeys
      PROVE  GetReservation(reservations, key) >= NeededIn(orders, key)
  <2>1. PICK s \in Scenarios : orders = s.orders /\ reservations = s.reservations
    BY DEF Init
  <2>2. GetReservation(s.reservations, key) >= NeededIn(s.orders, key)
    BY ScenariosAssumption DEF NeededIn, WithKey, SumOver
  <2>3. QED
    BY <2>1, <2>2
<1>4. ASSUME NEW key \in ReservationKeys
      PROVE  Spare(orders, reservations, key)
               + (IF key[2] = "USDC" THEN FailedIn(orders, Closings, key) ELSE 0) >= 0
  <2> DEFINE a == GetReservation(reservations, key)
             b == NeededIn(orders, key)
             c == FailedIn(orders, Closings, key)
  <2>1. OrdersInv(orders) /\ reservations \in ReservationTables
    BY <1>1 DEF IInv, TablesInv
  <2>2. a \in Nat /\ b \in Nat
    BY <2>1, ReservedNat, NeededInNat
  <2>3. c \in Nat
    BY <1>1, <2>1, ClosingsFacts, FailedNat
  <2>4. a >= b /\ Spare(orders, reservations, key) = a - b
    BY <1>3 DEF Spare
  <2> HIDE DEF a, b, c
  <2>5. (a - b) + (IF key[2] = "USDC" THEN c ELSE 0) >= 0
    BY <2>2, <2>3, <2>4
  <2>6. QED
    BY <2>4, <2>5 DEF c
<1>5. QED
  BY <1>2, <1>4 DEF CoverInv, Covered

LEMMA RegularInvariance ==
  Spec => [](IInv /\ SettledInv /\ HistoryInv /\ AmountsInv /\ CoverInv)
<1> DEFINE Inv == SettledInv /\ HistoryInv /\ AmountsInv /\ CoverInv
<1>1. Init => Inv
  BY InitSettled, InitAmounts, InitCover
<1>2. Inv /\ IInv /\ [Next]_vars => Inv'
  <2>1. ASSUME Inv, IInv, [Next]_vars
        PROVE  SettledInv' /\ HistoryInv' /\ AmountsInv' /\ CoverInv'
    <3>1. SettledInv' /\ HistoryInv' /\ MinedInv
      BY <2>1, SettledInvStay, HistoryGrows DEF SettledInv
    <3>2. AmountsInv'
      BY <2>1, <3>1, FilledStep, PendingStep DEF AmountsInv
    <3>3. ASSUME Regular' PROVE CopiesInv' /\ Covered(orders', reservations', Closings')
      <4>1. Regular /\ CopiesInv
        BY <2>1, <3>1, <3>3, RegularBefore DEF CoverInv
      <4>2. Aged(orders', orders) /\ Covered(orders', reservations', Closings')
        BY <2>1, <3>1, <3>3, CoverStep
      <4>3. CopiesInv'
        BY <2>1, <4>1, <4>2, ExecutorCopies, SweepCopies DEF CopiesInv
      <4>4. QED
        BY <4>2, <4>3
    <3>4. CoverInv'
      BY <3>3 DEF CoverInv
    <3>5. QED
      BY <3>1, <3>2, <3>4
  <2>2. QED
    BY <2>1
<1>3. Inv => SettledInv /\ HistoryInv /\ AmountsInv /\ CoverInv
  OBVIOUS
<1> HIDE DEF Inv
<1>4. QED
  BY <1>1, <1>2, <1>3, Invariance, PTL DEF Spec

-----------------------------------------------------------------------------
(* The theorems.                                                             *)

(* The rows of orders, reservations, trades and attempts keep their types and  *)
(* the constraints of the schema, balances never go negative, and what is on   *)
(* the chain was sent, whatever the three loops, crashes and lost calls did.   *)
THEOREM SettlementTyped == Spec => []TypeOK
<1>1. IInv => TypeOK
  <2> SUFFICES ASSUME IInv PROVE TypeOK
    OBVIOUS
  <2>1. ASSUME NEW h \in DOMAIN orders
        PROVE  /\ orders[h].status \in OrderStatus
               /\ orders[h].remaining \in 0 .. orders[h].outcomeAmount
               /\ orders[h].pending \in 0 .. orders[h].remaining
               /\ orders[h].status = "FILLED" <=> orders[h].remaining = 0
    <3>1. orders[h] \in OrderRow /\ RowInv(orders[h])
      BY DEF IInv, TablesInv, OrdersInv
    <3>2. QED
      BY <3>1 DEF OrderRow, RowInv
  <2>2. \A k \in DOMAIN reservations : reservations[k] \in Nat \ {0}
    BY DEF IInv, TablesInv, ReservationTables
  <2> DEFINE D == DOMAIN orders
             T == TradeIds
  <2>3. /\ trades \in Seq(TradeRow(D)) /\ attempts \in Seq(AttemptRow(T)) /\ sent \in Seq(T)
        /\ \A t \in T : trades[t].tx <= Len(sent)
    BY DEF IInv, TablesInv
  <2>4. ASSUME NEW t \in T
        PROVE  trades[t].status \in TradeStatus /\ trades[t].tx \in {NoTx} \cup DOMAIN sent
    <3>1. t \in DOMAIN trades /\ DOMAIN sent = 1 .. Len(sent) /\ Len(sent) \in Nat
      BY <2>3 DEF TradeIds
    <3> HIDE DEF D, T
    <3>2. trades[t] \in TradeRow(D)
      BY <2>3, <3>1
    <3>3. trades[t].status \in TradeStatus /\ trades[t].tx \in Nat
      BY <3>2 DEF TradeRow
    <3>4. QED
      BY <2>3, <3>1, <3>3 DEF NoTx
  <2>5. ASSUME NEW a \in DOMAIN attempts PROVE attempts[a].status \in SettlementAttemptStatus
    <3> HIDE DEF T
    <3>1. attempts[a] \in AttemptRow(T)
      BY <2>3
    <3>2. QED
      BY <3>1 DEF AttemptRow
  <2>6. /\ wallet \in [ReservationKeys -> Nat]
        /\ mempool \subseteq DOMAIN sent /\ DOMAIN receipts \subseteq DOMAIN sent
        /\ processed \subseteq DOMAIN logs
    BY DEF IInv, ContractInv, ExchangeGood, ChainInv, IndexInv
  <2>7. QED
    BY <2>1, <2>2, <2>4, <2>5, <2>6 DEF TypeOK
<1>2. QED
  BY <1>1, Invariance, PTL

(* What the server holds of an order as filled is the total of the last event  *)
(* it applied to it, the greatest, and never more than the contract filled:    *)
(* events taken again after a failure or a crash count once.                   *)
THEOREM FillsCountedOnce == Spec => []ConfirmedIsProcessed
  BY Invariance, PTL

(* Whatever blocks come, and wherever the indexer fails or the server crashes, *)
(* every event of the blocks its cursor has passed was applied.                *)
THEOREM CursorPassesNothing == Spec => []NoEventSkipped
<1>1. IInv => NoEventSkipped
  BY DEF IInv, IndexInv, NoEventSkipped
<1>2. QED
  BY <1>1, Invariance, PTL

(* Over all batches, sweeps and restarts, no trade has more attempts than the  *)
(* retry policy allows, though the executor counts them only when it takes the *)
(* trade.                                                                      *)
THEOREM RetriesBounded == Spec => []AttemptsBounded
<1>1. AttemptsInv => AttemptsBounded
  BY DEF AttemptsInv, AttemptsBounded
<1>2. QED
  BY <1>1, Invariance, PTL

(* A confirmed trade is undone only when it has been attempted more than once, *)
(* or by the sweep dropping an attempt of it, whatever crashed, was lost or    *)
(* failed to be written, though no write of a trade looks at the status it     *)
(* replaces.                                                                   *)
THEOREM ConfirmedIsKept == Spec => ConfirmedStays
<1> DEFINE Stays ==
             \A t \in TradeIds :
               trades[t].status = "CONFIRMED" /\ trades'[t].status # "CONFIRMED"
                 => \/ GetSettlementAttemptCountByTrade(t) > 1
                    \/ \E a \in DOMAIN attempts' :
                         attempts'[a].trade = t /\ attempts'[a].status = "DROPPED"
<1>1. Init => SettledInv
  BY InitSettled
<1>2. SettledInv /\ IInv /\ [Next]_vars => SettledInv'
  <2>1. ASSUME SettledInv, IInv, [Next]_vars PROVE SettledInv'
    BY <2>1, SettledInvStay
  <2>2. QED
    BY <2>1
<1>3. SettledInv /\ IInv /\ [Next]_vars => [Stays]_vars
  <2>1. ASSUME SettledInv, IInv, [Next]_vars PROVE Stays
    BY <2>1, ConfirmedStep
  <2>2. QED
    BY <2>1
<1>4. QED
  BY <1>1, <1>2, <1>3, Invariance, PTL DEF Spec, ConfirmedStays

(* For any orders, trades, balances and order of transactions: the contract    *)
(* fills no order beyond what was signed, and what the fills of a maker cost   *)
(* him in all is his limit price of their total, rounded once.                 *)
THEOREM MakersPaid == Spec => []MakersPaidTheirPrice
<1>1. IInv => MakersPaidTheirPrice
  <2> SUFFICES ASSUME IInv, NEW h \in Tickets
               PROVE  /\ filledAmounts[h] <= Signed[h].outcomeAmount
                      /\ (\A t \in TradeIds : trades[t].taker # h) =>
                           SumOver({n \in DOMAIN logs : logs[n].event = "OrderFilled" /\ logs[n].order = h},
                                   LAMBDA n : logs[n].usdc) = BuyReservation(Signed[h], filledAmounts[h])
    BY DEF MakersPaidTheirPrice
  <2>1. ExchangeGood(DOMAIN orders, Takers, filledAmounts, wallet, logs)
    BY DEF IInv, ContractInv
  <2>2. (\A t \in TradeIds : trades[t].taker # h) => h \in Tickets \ Takers
    BY DEF Takers
  <2>3. SumOver({n \in DOMAIN logs : logs[n].event = "OrderFilled" /\ logs[n].order = h},
                LAMBDA n : logs[n].usdc) = Paid(logs, h)
    BY DEF SumOver, Paid, FillsOf
  <2>4. QED
    BY <2>1, <2>2, <2>3 DEF ExchangeGood
<1>2. QED
  BY <1>1, Invariance, PTL

(* Whatever is lost, repeated, refused or cleaned up, as long as no trade is    *)
(* settled or given up twice or both: what is confirmed and pending of an order *)
(* is its part of the trades not given up.                                     *)
THEOREM AmountsAccounted == Spec => []AmountsFollowTrades
<1>1. IInv /\ AmountsInv => AmountsFollowTrades
  <2>1. ASSUME IInv, AmountsInv, Regular, NEW h \in DOMAIN orders
        PROVE  Confirmed(orders[h]) + orders[h].pending =
                 SumOver({t \in TradeIds : CleanedUp(t) = {}}, LAMBDA t : AmountIn(trades[t], h))
    <3>1. Confirmed(orders[h]) + orders[h].pending = Total(PartOf(h), OpenTrades)
      BY <2>1 DEF AmountsInv
    <3>2. \A t \in OpenTrades : PartOf(h)[t] = [u \in OpenTrades |-> AmountIn(trades[u], h)][t]
      BY DEF PartOf, OpenTrades
    <3>3. Total(PartOf(h), OpenTrades) = Total([t \in OpenTrades |-> AmountIn(trades[t], h)], OpenTrades)
      BY <3>2, TotalEqual
    <3>4. QED
      BY <3>1, <3>3 DEF SumOver, OpenTrades
  <2>2. QED
    BY <2>1 DEF AmountsFollowTrades
<1>2. QED
  BY <1>1, RegularInvariance, PTL

(* Whatever is lost, repeated, refused, cancelled or cleaned up, as long as no  *)
(* trade is settled or given up twice or both: the reservations of every wallet *)
(* cover what its live orders and its parts of open trades need, but for a unit *)
(* for each part of a trade that was given up.                                 *)
THEOREM ReservationsCover == Spec => []ReservationsCoverTrades
<1>1. IInv /\ CoverInv => ReservationsCoverTrades
  <2>1. ASSUME IInv, CoverInv, Regular, NEW key \in ReservationKeys
        PROVE  GetReservation(reservations, key) + (IF key[2] = "USDC" THEN GivenUpFills(key) ELSE 0)
                 >= NeededFor(key)
    <3> DEFINE a == GetReservation(reservations, key)
               b == NeededIn(orders, key)
               c == FailedIn(orders, Closings, key)
    <3>1. OrdersInv(orders) /\ reservations \in ReservationTables
      BY <2>1 DEF IInv, TablesInv
    <3>2. a \in Nat /\ b \in Nat
      BY <3>1, ReservedNat, NeededInNat
    <3>3. c \in Nat
      BY <2>1, <3>1, ClosingsFacts, FailedNat
    <3>4. (a - b) + (IF key[2] = "USDC" THEN c ELSE 0) >= 0
      BY <2>1 DEF CoverInv, Covered, Spare
    <3>5. NeededFor(key) = b
      BY DEF NeededFor, OrdersWithKey, NeededIn, WithKey, SumOver
    <3>6. GivenUpFills(key) = c
      <4>1. \A h : {t \in TradeIds : CleanedUp(t) # {} /\ h \in OrdersOf(t)} = FailedOf(Closings, h)
        BY <2>1, ClosingsFacts DEF FailedOf
      <4>2. QED
        BY <4>1 DEF GivenUpFills, OrdersWithKey, FailedIn, WithKey, SumOver
    <3> HIDE DEF a, b, c
    <3>7. a + (IF key[2] = "USDC" THEN c ELSE 0) >= b
      BY <3>2, <3>3, <3>4
    <3>8. QED
      BY <3>5, <3>6, <3>7 DEF a
  <2>2. QED
    BY <2>1 DEF ReservationsCoverTrades
<1>2. QED
  BY <1>1, RegularInvariance, PTL
=============================================================================
