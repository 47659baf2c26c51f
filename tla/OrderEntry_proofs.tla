-------------------------- MODULE OrderEntry_proofs -------------------------
(***************************************************************************)
(* What OrderEntry promises, for any tickets, requests, prices, balances   *)
(* and trades: the tables keep the constraints of the schema, reservations *)
(* cover what orders need, no order is stored beyond the balance its       *)
(* admission read, a taker is filled by price and age, and reconciliation  *)
(* cancels by age.                                                         *)
(*                                                                         *)
(* EntryInv is inductive.  LedgerInv says of the tables that each          *)
(* reservation has at least what its orders may still take, but for what   *)
(* failed fills were rounded by, and that what is pending of an order is   *)
(* its part of the open trades.  SequencesInv says that no two orders have *)
(* one place in time, which makes the order of makers total.  RequestsInv  *)
(* says of a request with the advisory lock that there is room for it in   *)
(* the balance it read; OneHolder, that a key has one such request, and    *)
(* OneSequence, that each one under way has a sequence of its own.         *)
(*                                                                         *)
(* The order follows the code: sorting, one statement, the end of a trade, *)
(* the expiry sweep, the plan of the reconciliation, the match of a taker, *)
(* the tables a commit leaves; then the invariants, and what follows.      *)
(***************************************************************************)
EXTENDS OrderTicket, OrderLedger_proofs

-----------------------------------------------------------------------------
(* Sorting: what is sorted by a strict and total order exists, has each      *)
(* element once, and each before those it precedes.                          *)

Sorted(s, R) == \A i, j \in DOMAIN s : i < j => <<s[i], s[j]>> \in R
Orders(R, S) ==
  /\ \A a, b \in S : a # b => <<a, b>> \in R \/ <<b, a>> \in R
  /\ \A a, b, c \in S : <<a, b>> \in R /\ <<b, c>> \in R => <<a, c>> \in R

(* A sequence of all of T stays sorted when x is put in its place. *)
LEMMA Insertion ==
  ASSUME NEW S, NEW R, Orders(R, S), NEW T \in SUBSET S, NEW x \in S \ T, IsFiniteSet(T),
         NEW s \in SetToSeqs(T), Sorted(s, R)
  PROVE  \E r \in SetToSeqs(T \cup {x}) : Sorted(r, R)
<1> DEFINE n == Cardinality(T)
           before == {i \in 1 .. n : <<s[i], x>> \in R}
<1>1. n \in Nat /\ Cardinality(T \cup {x}) = n + 1
  BY FS_CardinalityType, FS_AddElement
<1>2. s \in [1 .. n -> T] /\ DOMAIN s = 1 .. n /\ \A i, j \in 1 .. n : i # j => s[i] # s[j]
  BY DEF SetToSeqs
<1>3. ASSUME NEW i \in 1 .. n, NEW j \in before, i < j PROVE i \in before
  <2>1. <<s[i], s[j]>> \in R /\ <<s[j], x>> \in R
    BY <1>2, <1>3 DEF Sorted
  <2>2. s[i] \in S /\ s[j] \in S
    BY <1>2
  <2>3. QED
    BY <2>1, <2>2 DEF Orders
<1>4. PICK m \in 0 .. n : \A i \in 1 .. n : i \in before <=> i <= m
  <2>1. CASE before = {}
    <3>1. 0 \in 0 .. n /\ \A i \in 1 .. n : ~ (i <= 0)
      BY <1>1
    <3>2. QED
      BY <3>1, <2>1
  <2>2. CASE before # {}
    <3>1. before \in SUBSET (1 .. n)
      OBVIOUS
    <3> HIDE DEF before, n
    <3>2. PICK m \in before : \A y \in before : m >= y
      BY <3>1, <2>2, <1>1, MaxInside
    <3>3. \A i \in 1 .. n : i <= m => i \in before
      BY <3>2, <3>1, <1>3, <1>1
    <3>4. m \in 0 .. n
      BY <3>2, <3>1
    <3>5. QED
      BY <3>2, <3>3, <3>4
  <2>3. QED
    BY <2>1, <2>2
<1>5. \A i \in 1 .. n : i <= m => <<s[i], x>> \in R
  BY <1>4
<1>6. ASSUME NEW i \in 1 .. n, i > m PROVE <<x, s[i]>> \in R
  <2>1. ~ (i <= m)
    BY <1>6, <1>1
  <2>2. i \notin before
    BY <2>1, <1>4
  <2>3. s[i] \in S /\ s[i] # x /\ <<s[i], x>> \notin R
    BY <2>2, <1>2
  <2>4. QED
    BY <2>3 DEF Orders
<1> HIDE DEF before, n
<1> DEFINE r == [i \in 1 .. n + 1 |-> IF i <= m THEN s[i] ELSE IF i = m + 1 THEN x ELSE s[i - 1]]
<1>7. /\ m \in Nat /\ m <= n
      /\ \A i \in 1 .. n + 1 :
           /\ i <= m => i \in 1 .. n /\ r[i] = s[i]
           /\ i = m + 1 => r[i] = x
           /\ i > m + 1 => i - 1 \in 1 .. n /\ r[i] = s[i - 1]
           /\ i <= m \/ i = m + 1 \/ i > m + 1
  BY <1>1, <1>4
<1>8. r \in [1 .. n + 1 -> T \cup {x}]
  <2>1. ASSUME NEW i \in 1 .. n + 1 PROVE r[i] \in T \cup {x}
    BY <1>7, <1>2
  <2>2. QED
    BY <2>1
<1>9. DOMAIN r = 1 .. n + 1
  OBVIOUS
<1> HIDE DEF r
<1>10. ASSUME NEW i \in 1 .. n + 1, NEW j \in 1 .. n + 1, i < j
       PROVE  r[i] # r[j] /\ <<r[i], r[j]>> \in R
  <2>1. /\ \A k \in 1 .. n : s[k] # x
        /\ \A k, l \in 1 .. n : k < l => s[k] # s[l] /\ <<s[k], s[l]>> \in R
    <3>1. \A k \in 1 .. n : s[k] # x
      BY <1>2
    <3>2. \A k, l \in 1 .. n : k < l => k # l
      BY <1>1
    <3>3. QED
      BY <3>1, <3>2, <1>2 DEF Sorted
  <2>2. CASE i <= m /\ j <= m
    BY <2>2, <2>1, <1>7, <1>10
  <2>3. CASE i <= m /\ j = m + 1
    BY <2>3, <2>1, <1>7, <1>5
  <2>4. CASE i <= m /\ j > m + 1
    <3>1. i \in 1 .. n /\ j - 1 \in 1 .. n /\ i < j - 1
      BY <2>4, <1>7
    <3>2. QED
      BY <2>4, <2>1, <1>7, <3>1
  <2>5. CASE i = m + 1
    <3>1. j > m + 1 /\ j - 1 \in 1 .. n /\ j - 1 > m
      BY <2>5, <1>10, <1>7
    <3>2. QED
      BY <2>5, <3>1, <2>1, <1>7, <1>6
  <2>6. CASE i > m + 1
    <3>1. j > m + 1 /\ i - 1 \in 1 .. n /\ j - 1 \in 1 .. n /\ i - 1 < j - 1
      BY <2>6, <1>10, <1>7
    <3>2. QED
      BY <2>6, <3>1, <2>1, <1>7
  <2>7. QED
    BY <2>2, <2>3, <2>4, <2>5, <2>6, <1>7
<1>11. r \in SetToSeqs(T \cup {x})
  <2>1. ASSUME NEW i \in 1 .. n + 1, NEW j \in 1 .. n + 1, i # j PROVE r[i] # r[j]
    <3>1. i < j \/ j < i
      BY <2>1, <1>1
    <3>2. QED
      BY <3>1, <1>10
  <2>2. QED
    BY <2>1, <1>1, <1>8 DEF SetToSeqs, n
<1>12. Sorted(r, R)
  BY <1>9, <1>10 DEF Sorted
<1>13. QED
  BY <1>11, <1>12

LEMMA SortedExists ==
  ASSUME NEW S, IsFiniteSet(S), NEW R, Orders(R, S)
  PROVE  \E s \in SetToSeqs(S) : Sorted(s, R)
<1> DEFINE G == {T \in SUBSET S : \E s \in SetToSeqs(T) : Sorted(s, R)}
<1>1. {} \in G
  <2> DEFINE e == [i \in 1 .. 0 |-> {}]
  <2>1. Cardinality({}) = 0
    BY FS_EmptySet
  <2>2. e \in SetToSeqs({}) /\ Sorted(e, R)
    BY <2>1 DEF SetToSeqs, Sorted
  <2>3. QED
    BY <2>2
<1>2. ASSUME NEW T \in SUBSET S, NEW x \in S, T \in G, x \notin T PROVE T \cup {x} \in G
  <2>1. PICK s \in SetToSeqs(T) : Sorted(s, R)
    BY <1>2
  <2>2. IsFiniteSet(T)
    BY FS_Subset
  <2>3. \E r \in SetToSeqs(T \cup {x}) : Sorted(r, R)
    BY <2>1, <2>2, <1>2, Insertion
  <2>4. QED
    BY <2>3
<1> HIDE DEF G
<1>3. S \in G
  BY <1>1, <1>2, SubsetInduction
<1>4. QED
  BY <1>3 DEF G

(* A sequence without repetition of as many elements as S has is of all of S. *)
LEMMA SeqsCover ==
  ASSUME NEW S, IsFiniteSet(S), NEW s \in SetToSeqs(S)
  PROVE  /\ s \in Seq(S) /\ DOMAIN s = 1 .. Len(s) /\ Len(s) \in Nat
         /\ \A i, j \in DOMAIN s : s[i] = s[j] => i = j
         /\ \A a \in S : \E i \in DOMAIN s : s[i] = a
<1> DEFINE n == Cardinality(S)
<1>1. n \in Nat
  BY FS_CardinalityType
<1>2. s \in [1 .. n -> S] /\ \A i, j \in 1 .. n : i # j => s[i] # s[j]
  BY DEF SetToSeqs
<1>3. ASSUME NEW a \in S, \A i \in 1 .. n : s[i] # a PROVE FALSE
  <2>1. IsFiniteSet(S \ {a}) /\ Cardinality(S \ {a}) = n - 1
    BY FS_RemoveElement
  <2>2. IsFiniteSet(1 .. n) /\ Cardinality(1 .. n) = n
    BY <1>1, FS_Interval
  <2>3. s \in [1 .. n -> S \ {a}]
    BY <1>2, <1>3
  <2> HIDE DEF n
  <2>4. \E i, j \in 1 .. n : i # j /\ s[i] = s[j]
    BY <2>1, <2>2, <2>3, <1>1, FS_PigeonHole
  <2>5. QED
    BY <2>4, <1>2
<1> HIDE DEF n
<1>4. s \in Seq(S) /\ DOMAIN s = 1 .. n /\ Len(s) = n
  BY <1>1, <1>2, SeqDef
<1>5. QED
  BY <1>1, <1>2, <1>3, <1>4

-----------------------------------------------------------------------------
(* A trade confirmed, one order after another.                                *)

(* The tables the confirmations of a trade go through. *)
TableStates(D) ==
  [ok : BOOLEAN, orders : {q \in [D -> OrderRow] : OrdersInv(q)}, reservations : ReservationTables]

ConfirmRun(c, t) ==
  LET fills == trades[t].fills IN
  /\ c \in [0 .. Len(fills) -> TableStates(DOMAIN orders)]
  /\ c[0] = ConfirmFill(Tables, trades[t].taker, trades[t].amount)
  /\ \A k \in 0 .. Len(fills) - 1 :
       c[k + 1] = ConfirmFill(c[k], fills[k + 1].maker, fills[k + 1].amount)
  /\ c[Len(fills)] = Confirmations(t)

LEMMA ConfirmFillState ==
  ASSUME NEW D, NEW x \in TableStates(D), NEW h \in D, NEW amount \in Nat
  PROVE  ConfirmFill(x, h, amount) \in TableStates(D)
<1> DEFINE key == BuildOrderReservationKey(x.orders[h])
           release == ConfirmedFillRelease(x.orders[h], amount)
           ok == /\ x.ok
                 /\ CanDecreaseReservation(x.reservations, key, release)
                 /\ CanConfirmFill(x.orders, h, amount)
           q == ConfirmOrderFill(x.orders, h, amount)
           r == DecreaseReservation(x.reservations, key, release)
<1>1. /\ x.ok \in BOOLEAN /\ x.orders \in [D -> OrderRow] /\ OrdersInv(x.orders)
      /\ x.reservations \in ReservationTables
  BY DEF TableStates
<1>2. ConfirmFill(x, h, amount) =
        IF ~ok THEN [x EXCEPT !.ok = FALSE] ELSE [ok |-> TRUE, orders |-> q, reservations |-> r]
  BY DEF ConfirmFill
<1>3. CASE ~ok
  BY <1>2, <1>3 DEF TableStates
<1>4. CASE ok
  <2>1. DOMAIN x.orders = D
    BY <1>1
  <2>2. OrdersInv(q) /\ DOMAIN q = D
    BY <1>1, <1>4, <2>1, ConfirmKeepsRow
  <2>3. release \in Int
    <3>1. x.orders[h] \in OrderRow
      BY <1>1
    <3>2. Confirmed(x.orders[h]) \in Int /\ Confirmed(x.orders[h]) + amount \in Int
      BY <3>1 DEF OrderRow, Confirmed
    <3>3. /\ BuyReservation(x.orders[h], Confirmed(x.orders[h])) \in Int
          /\ BuyReservation(x.orders[h], Confirmed(x.orders[h]) + amount) \in Int
      BY <3>1, <3>2, BuyReservationInt DEF OrderRow
    <3>4. QED
      BY <3>3 DEF ConfirmedFillRelease
  <2>4. r \in ReservationTables
    BY <1>1, <1>4, <2>3, DecreaseKeepsTable
  <2> HIDE DEF q, r
  <2>5. q \in [D -> OrderRow]
    BY <2>2 DEF OrdersInv
  <2>6. [ok |-> TRUE, orders |-> q, reservations |-> r] \in TableStates(D)
    BY <2>2, <2>4, <2>5 DEF TableStates
  <2>7. QED
    BY <1>2, <1>4, <2>6
<1>5. QED
  BY <1>3, <1>4

LEMMA ConfirmSteps ==
  ASSUME OrdersInv(orders), reservations \in ReservationTables, NEW t \in TradeIds,
         trades[t].taker \in DOMAIN orders, trades[t].fills \in Seq(FillRow(DOMAIN orders)),
         trades[t].amount \in Nat
  PROVE  \E c : ConfirmRun(c, t)
<1> DEFINE fills == trades[t].fills
           n == Len(fills)
           X == TableStates(DOMAIN orders)
           base == ConfirmFill(Tables, trades[t].taker, trades[t].amount)
           op(x, i) == ConfirmFill(x, fills[i].maker, fills[i].amount)
           step == [z \in X \X (1 .. n) |-> op(z[1], z[2])]
           Rec(g) == g = [s \in SUBSET (1 .. n) |->
                            IF s = {} THEN base ELSE op(g[s \ {Max(s)}], Max(s))]
<1>1. n \in Nat /\ DOMAIN fills = 1 .. n /\ \A i \in 1 .. n : fills[i] \in FillRow(DOMAIN orders)
  OBVIOUS
<1>2. base \in X
  <2>1. Tables \in X
    BY DEF Tables, TableStates, OrdersInv
  <2>2. QED
    BY <2>1, ConfirmFillState
<1>3. ASSUME NEW x \in X, NEW i \in 1 .. n PROVE op(x, i) \in X
  <2>1. fills[i].maker \in DOMAIN orders /\ fills[i].amount \in Nat
    BY <1>1 DEF FillRow
  <2>2. QED
    BY <2>1, ConfirmFillState
<1>4. step \in [X \X (1 .. n) -> X] /\ \A x \in X, i \in 1 .. n : step[<<x, i>>] = op(x, i)
  BY <1>3
<1>5. Confirmations(t) = (CHOOSE g : Rec(g))[1 .. n]
  BY <1>1 DEF Confirmations, FoldLeft, MapThenFoldSet
<1> HIDE DEF X, base, step, op
<1>6. \E g : Rec(g)
  <2>1. PICK g \in [SUBSET (1 .. n) -> X] : IsFold(g, n, base, step)
    BY <1>1, <1>2, <1>4, FoldExists
  <2>2. ASSUME NEW s \in SUBSET (1 .. n), s # {}
        PROVE  step[<<g[s \ {Max(s)}], Max(s)>>] = op(g[s \ {Max(s)}], Max(s))
    <3>1. Max(s) \in 1 .. n /\ g[s \ {Max(s)}] \in X
      BY <1>1, <2>2, MaxInside
    <3>2. QED
      BY <3>1, <1>4
  <2>3. Rec(g)
    BY <2>1, <2>2 DEF IsFold
  <2>4. QED
    BY <2>3
<1> DEFINE g == CHOOSE f : Rec(f)
<1>7. Rec(g)
  BY <1>6
<1> HIDE DEF g
<1>8. GoesBy(g, n, X, base, step)
  <2>1. ASSUME NEW s \in SUBSET (1 .. n), s # {}, g[s \ {Max(s)}] \in X
        PROVE  g[s] = step[<<g[s \ {Max(s)}], Max(s)>>]
    <3>1. Max(s) \in 1 .. n
      BY <1>1, <2>1, MaxInside
    <3>2. QED
      BY <3>1, <1>4, <1>7, <2>1
  <2>2. g[{}] = base
    BY <1>7
  <2>3. QED
    BY <2>1, <2>2 DEF GoesBy
<1>9. RunEndsAt(g[1 .. n], n, X, base, step)
  <2> HIDE DEF Rec, n
  <2>1. QED
    BY <1>1, <1>2, <1>4, <1>8, FoldChain
<1>10. PICK c \in [0 .. n -> X] :
         /\ c[0] = base /\ c[n] = g[1 .. n]
         /\ \A k \in 0 .. n - 1 : c[k + 1] = step[<<c[k], k + 1>>]
  BY <1>9 DEF RunEndsAt
<1> HIDE DEF Rec, n
<1>11. \A k \in 0 .. n - 1 : c[k + 1] = op(c[k], k + 1)
  <2>1. \A k \in 0 .. n - 1 : k \in 0 .. n /\ k + 1 \in 1 .. n
    BY <1>1
  <2>2. QED
    BY <2>1, <1>4, <1>10
<1>12. c[n] = Confirmations(t)
  BY <1>5, <1>10 DEF g
<1>13. ConfirmRun(c, t)
  BY <1>10, <1>11, <1>12 DEF ConfirmRun, X, base, op, n
<1>14. QED
  BY <1>13

(* Confirmed, a trade takes its part from what is pending of each order, and *)
(* nothing from what is reserved beyond what the orders need.                *)
ConfirmedUpTo(x, t, k) ==
  /\ Kept(x.orders, orders)
  /\ PendingLess(x.orders, orders, trades[t], Reached(trades[t], k))
  /\ NoSpareLost(x.orders, x.reservations, orders, reservations)
  /\ NoneMore(x.reservations, reservations)

LEMMA ConfirmedOne ==
  ASSUME OrdersInv(orders), reservations \in ReservationTables, NEW t \in TradeIds,
         TradeOfOrders(trades[t], orders),
         \A h \in DOMAIN orders : AmountIn(trades[t], h) <= orders[h].pending,
         NEW S, NEW h \in DOMAIN orders, h \notin S, NEW o, NEW r \in ReservationTables,
         Kept(o, orders), PendingLess(o, orders, trades[t], S), NoSpareLost(o, r, orders, reservations),
         NoneMore(r, reservations),
         NEW x, x = ConfirmFill([ok |-> TRUE, orders |-> o, reservations |-> r], h, AmountIn(trades[t], h)),
         x.ok
  PROVE  /\ Kept(x.orders, orders)
         /\ PendingLess(x.orders, orders, trades[t], S \cup {h})
         /\ NoSpareLost(x.orders, x.reservations, orders, reservations)
         /\ NoneMore(x.reservations, reservations)
<1>1. OrdersInv(o) /\ DOMAIN o = DOMAIN orders
  BY DEF Kept
<1> DEFINE a == AmountIn(trades[t], h)
<1>2. a \in Nat /\ a <= o[h].pending /\ o[h].pending = orders[h].pending - 0
  <2>1. a \in Nat
    BY PartGrows DEF Grows, TradeOfOrders
  <2>2. o[h].pending = orders[h].pending - 0
    BY DEF PendingLess
  <2>3. orders[h].pending \in Nat
    BY DEF OrdersInv, OrderRow
  <2>4. QED
    BY <2>1, <2>2, <2>3
<1>3. /\ Kept(x.orders, o) /\ x.reservations \in ReservationTables
      /\ x.orders[h].pending = o[h].pending - a
      /\ \A g \in DOMAIN o \ {h} : x.orders[g] = o[g]
      /\ NoSpareLost(x.orders, x.reservations, o, r) /\ NoneMore(x.reservations, r)
  <2>1. /\ h \in DOMAIN o /\ a \in Nat /\ a <= o[h].pending /\ x.ok
        /\ x = ConfirmFill([ok |-> TRUE, orders |-> o, reservations |-> r], h, a)
    BY <1>1, <1>2
  <2> HIDE DEF a
  <2>2. ConfirmLeaves(x, o, r, h, a)
    BY <2>1, <1>1, ConfirmFillKeeps
  <2>3. QED
    BY <2>2 DEF ConfirmLeaves
<1>4. Kept(x.orders, orders)
  BY <1>3, KeptTrans
<1>5. PendingLess(x.orders, orders, trades[t], S \cup {h})
  <2>1. ASSUME NEW g \in DOMAIN orders
        PROVE  x.orders[g].pending =
                 orders[g].pending - (IF g \in S \cup {h} THEN AmountIn(trades[t], g) ELSE 0)
    <3>1. CASE g = h
      <4>1. orders[h].pending \in Nat
        BY DEF OrdersInv, OrderRow
      <4>2. QED
        BY <3>1, <4>1, <1>2, <1>3
    <3>2. CASE g # h
      <4>1. x.orders[g] = o[g] /\ (g \in S \cup {h} <=> g \in S)
        BY <3>2, <1>1, <1>3
      <4>2. QED
        BY <4>1 DEF PendingLess
    <3>3. QED
      BY <3>1, <3>2
  <2>2. QED
    BY <2>1 DEF PendingLess
<1>6. NoSpareLost(x.orders, x.reservations, orders, reservations)
  <2>2. ASSUME NEW key PROVE Spare(x.orders, x.reservations, key) >= Spare(orders, reservations, key)
    <3> DEFINE u == Spare(x.orders, x.reservations, key)
               v == Spare(o, r, key)
               w == Spare(orders, reservations, key)
    <3>3. u \in Int /\ v \in Int /\ w \in Int
      BY <1>1, <1>3, <1>4, NeededInNat, ReservedNat DEF Spare, Kept
    <3>1. u >= v /\ v >= w
      BY <1>3 DEF NoSpareLost
    <3> HIDE DEF u, v, w
    <3>4. u >= w
      BY <3>1, <3>3
    <3>2. QED
      BY <3>4 DEF u, w
  <2>3. QED
    BY <2>2 DEF NoSpareLost
<1>7. NoneMore(x.reservations, reservations)
  BY <1>3, NoneMoreTrans
<1>8. QED
  BY <1>4, <1>5, <1>6, <1>7

LEMMA ConfirmedTrade ==
  ASSUME OrdersInv(orders), reservations \in ReservationTables, NEW t \in TradeIds,
         TradeOfOrders(trades[t], orders),
         \A h \in DOMAIN orders : AmountIn(trades[t], h) <= orders[h].pending,
         NEW x, x = Confirmations(t), x.ok
  PROVE  /\ Kept(x.orders, orders) /\ x.reservations \in ReservationTables
         /\ PendingLess(x.orders, orders, trades[t], DOMAIN orders)
         /\ NoSpareLost(x.orders, x.reservations, orders, reservations)
         /\ NoneMore(x.reservations, reservations)
<1> DEFINE trade == trades[t]
           fills == trade.fills
           n == Len(fills)
<1>1. /\ trade.taker \in DOMAIN orders /\ fills \in Seq(FillRow(DOMAIN orders)) /\ trade.amount \in Nat
      /\ n \in Nat /\ DOMAIN fills = 1 .. n
      /\ MadeByMatch(trade) /\ EachMakerOnce(trade)
  BY DEF TradeOfOrders
<1>2. PICK c : ConfirmRun(c, t)
  BY <1>1, ConfirmSteps
<1>3. /\ c \in [0 .. n -> TableStates(DOMAIN orders)]
      /\ c[0] = ConfirmFill(Tables, trade.taker, trade.amount)
      /\ \A k \in 0 .. n - 1 : c[k + 1] = ConfirmFill(c[k], fills[k + 1].maker, fills[k + 1].amount)
      /\ c[n] = x
  BY <1>2 DEF ConfirmRun
<1>4. \A k \in 0 .. n : /\ c[k] \in TableStates(DOMAIN orders) /\ c[k].reservations \in ReservationTables
                        /\ c[k].ok => c[k] = [ok |-> TRUE, orders |-> c[k].orders,
                                              reservations |-> c[k].reservations]
  BY <1>3 DEF TableStates
<1>5. /\ AmountIn(trade, trade.taker) = trade.amount
      /\ \A i \in 1 .. n : AmountIn(trade, fills[i].maker) = fills[i].amount
      /\ \A h : h \notin Reached(trade, n) => AmountIn(trade, h) = 0
  BY <1>1, TradeParts
<1>6. IsFiniteSet(DOMAIN orders)
  BY TicketsAssumption, FS_Subset DEF OrdersInv
<1>7. c[0].ok => ConfirmedUpTo(c[0], t, 0)
  <2>1. SUFFICES ASSUME c[0].ok PROVE ConfirmedUpTo(c[0], t, 0)
    OBVIOUS
  <2>2. /\ Kept(orders, orders) /\ PendingLess(orders, orders, trade, {})
        /\ NoSpareLost(orders, reservations, orders, reservations) /\ NoneMore(reservations, reservations)
    <3>1. \A g \in DOMAIN orders : orders[g].pending \in Nat
      BY DEF OrdersInv, OrderRow
    <3>2. \A key : Spare(orders, reservations, key) \in Int
      BY NeededInNat, ReservedNat DEF Spare
    <3>3. \A key : GetReservation(reservations, key) \in Nat
      BY ReservedNat
    <3>4. QED
      BY <3>1, <3>2, <3>3 DEF Kept, PendingLess, NoSpareLost, NoneMore
  <2>3. c[0] = ConfirmFill([ok |-> TRUE, orders |-> orders, reservations |-> reservations],
                           trade.taker, AmountIn(trade, trade.taker))
    BY <1>3, <1>5 DEF Tables
  <2>4. {} \cup {trade.taker} = Reached(trade, 0)
    BY DEF Reached
  <2>5. trade.taker \notin {}
    OBVIOUS
  <2> DEFINE y == c[0]
  <2>6. y = ConfirmFill([ok |-> TRUE, orders |-> orders, reservations |-> reservations],
                        trade.taker, AmountIn(trades[t], trade.taker)) /\ y.ok
    BY <2>1, <2>3
  <2> HIDE DEF y
  <2>7. /\ Kept(y.orders, orders) /\ PendingLess(y.orders, orders, trades[t], {} \cup {trade.taker})
        /\ NoSpareLost(y.orders, y.reservations, orders, reservations)
        /\ NoneMore(y.reservations, reservations)
    BY <2>2, <2>5, <2>6, <1>1, ConfirmedOne
  <2>8. QED
    BY <2>4, <2>7 DEF ConfirmedUpTo, y
<1>8. ASSUME NEW k \in 0 .. n - 1, c[k].ok => ConfirmedUpTo(c[k], t, k), c[k + 1].ok
      PROVE  ConfirmedUpTo(c[k + 1], t, k + 1)
  <2> DEFINE h == fills[k + 1].maker
             y == c[k]
             z == c[k + 1]
  <2>1. k \in 0 .. n /\ k + 1 \in 1 .. n /\ z = ConfirmFill(y, h, AmountIn(trade, h))
    BY <1>1, <1>3, <1>5
  <2>2. y.ok
    BY <1>8, <2>1 DEF ConfirmFill
  <2>3. ConfirmedUpTo(y, t, k)
    BY <1>8, <2>2
  <2>4. y = [ok |-> TRUE, orders |-> y.orders, reservations |-> y.reservations] /\ y.reservations \in ReservationTables
    BY <1>4, <2>1, <2>2
  <2>5. /\ Reached(trade, k + 1) = Reached(trade, k) \cup {h} /\ h \notin Reached(trade, k)
    BY <1>1, <1>6, ReachedGrows
  <2>6. h \in DOMAIN orders
    <3>1. fills[k + 1] \in FillRow(DOMAIN orders)
      BY <1>1, <2>1
    <3>2. QED
      BY <3>1 DEF FillRow
  <2>7. z.ok
    BY <1>8
  <2> HIDE DEF y, z, h
  <2> DEFINE o == y.orders
             r == y.reservations
  <2>8. /\ Kept(o, orders) /\ PendingLess(o, orders, trades[t], Reached(trade, k))
        /\ NoSpareLost(o, r, orders, reservations) /\ NoneMore(r, reservations) /\ r \in ReservationTables
        /\ z = ConfirmFill([ok |-> TRUE, orders |-> o, reservations |-> r], h, AmountIn(trades[t], h))
    BY <2>1, <2>3, <2>4 DEF ConfirmedUpTo
  <2> HIDE DEF o, r
  <2> DEFINE S == Reached(trade, k)
  <2>9. h \notin S /\ PendingLess(o, orders, trades[t], S)
    BY <2>5, <2>8
  <2> HIDE DEF S
  <2>10. /\ Kept(z.orders, orders) /\ PendingLess(z.orders, orders, trades[t], S \cup {h})
         /\ NoSpareLost(z.orders, z.reservations, orders, reservations)
         /\ NoneMore(z.reservations, reservations)
    BY <2>6, <2>7, <2>8, <2>9, ConfirmedOne
  <2>11. QED
    BY <2>5, <2>10 DEF ConfirmedUpTo, z, S
<1>9. c[n].ok => ConfirmedUpTo(c[n], t, n)
  <2> DEFINE G == {k \in 0 .. n : c[k].ok => ConfirmedUpTo(c[k], t, k)}
  <2>1. 0 \in G
    BY <1>1, <1>7
  <2>2. ASSUME NEW k \in 0 .. n - 1, k \in G PROVE k + 1 \in G
    <3>1. k + 1 \in 0 .. n
      BY <1>1
    <3>2. QED
      BY <2>2, <3>1, <1>8
  <2> HIDE DEF G
  <2>3. n \in G
    BY <2>1, <2>2, <1>1, UpTo
  <2>4. QED
    BY <2>3 DEF G
<1>10. ConfirmedUpTo(x, t, n) /\ x.reservations \in ReservationTables
  <2>1. n \in 0 .. n
    BY <1>1
  <2>2. x.reservations \in ReservationTables
    BY <2>1, <1>3, <1>4
  <2>3. c[n].ok
    BY <1>3
  <2>4. QED
    BY <2>2, <2>3, <1>3, <1>9
<1>11. PendingLess(x.orders, orders, trades[t], DOMAIN orders)
  <2>1. \A g \in DOMAIN orders : g \notin Reached(trade, n) => AmountIn(trade, g) = 0
    BY <1>5
  <2>2. QED
    BY <2>1, <1>10 DEF ConfirmedUpTo, PendingLess
<1>12. QED
  BY <1>10, <1>11 DEF ConfirmedUpTo

-----------------------------------------------------------------------------
(* The fold over a set takes its elements in an order it chooses.            *)

AnyOf(s) == CHOOSE x \in s : TRUE
IsSetFold(g, S, base, step) ==
  \A s \in SUBSET S : g[s] = IF s = {} THEN base ELSE step[<<g[s \ {AnyOf(s)}], AnyOf(s)>>]

LEMMA SetFoldExists ==
  ASSUME NEW S, IsFiniteSet(S), NEW X, NEW base \in X, NEW step \in [X \X S -> X]
  PROVE  \E g \in [SUBSET S -> X] : IsSetFold(g, S, base, step)
<1> DEFINE Small(k) == {s \in SUBSET S : Cardinality(s) <= k}
           Folds(k) == {g \in [Small(k) -> X] :
                         \A s \in Small(k) :
                           g[s] = IF s = {} THEN base ELSE step[<<g[s \ {AnyOf(s)}], AnyOf(s)>>]}
           n == Cardinality(S)
           G == {k \in 0 .. n : Folds(k) # {}}
<1>1. /\ n \in Nat /\ \A s \in SUBSET S : Cardinality(s) \in Nat /\ Cardinality(s) <= n
      /\ \A s \in SUBSET S : Cardinality(s) = 0 <=> s = {}
      /\ \A s \in SUBSET S : s # {} => Cardinality(s \ {AnyOf(s)}) = Cardinality(s) - 1
      /\ \A s \in SUBSET S : s # {} => AnyOf(s) \in S
  <2>1. n \in Nat
    BY FS_CardinalityType
  <2>2. ASSUME NEW s \in SUBSET S
        PROVE  /\ Cardinality(s) \in Nat /\ Cardinality(s) <= n /\ (Cardinality(s) = 0 <=> s = {})
               /\ s # {} => Cardinality(s \ {AnyOf(s)}) = Cardinality(s) - 1 /\ AnyOf(s) \in S
    <3>1. IsFiniteSet(s) /\ Cardinality(s) <= n
      BY FS_Subset
    <3>2. s # {} => AnyOf(s) \in s
      BY DEF AnyOf
    <3>3. Cardinality(s) \in Nat /\ (Cardinality(s) = 0 <=> s = {})
      BY <3>1, FS_CardinalityType, FS_EmptySet
    <3>4. s # {} => Cardinality(s \ {AnyOf(s)}) = Cardinality(s) - 1
      <4> DEFINE x == AnyOf(s)
      <4>1. s # {} => x \in s
        BY <3>2
      <4> HIDE DEF x
      <4>2. s # {} => Cardinality(s \ {x}) = Cardinality(s) - 1
        BY <3>1, <4>1, FS_RemoveElement
      <4>3. QED
        BY <4>2 DEF x
    <3>5. QED
      BY <3>1, <3>2, <3>3, <3>4
  <2>3. QED
    BY <2>1, <2>2
<1>2. 0 \in G
  <2> DEFINE g == [s \in Small(0) |-> base]
  <2>1. \A s \in Small(0) : s = {}
    BY <1>1
  <2>2. g \in Folds(0)
    BY <2>1
  <2>3. Folds(0) # {}
    BY <2>2
  <2> HIDE DEF Folds, n
  <2>4. QED
    BY <2>3, <1>1
<1>3. ASSUME NEW k \in 0 .. n - 1, k \in G PROVE k + 1 \in G
  <2>1. PICK f \in Folds(k) : TRUE
    BY <1>3
  <2>2. f \in [Small(k) -> X]
    OBVIOUS
  <2>k. k \in Nat /\ k + 1 \in 0 .. n
    BY <1>1
  <2> DEFINE last(s) == step[<<f[s \ {AnyOf(s)}], AnyOf(s)>>]
             g == [s \in Small(k + 1) |-> IF s \in Small(k) THEN f[s] ELSE last(s)]
  <2>3. \A s \in Small(k + 1) : s # {} => s \ {AnyOf(s)} \in Small(k) /\ AnyOf(s) \in S
    <3> HIDE DEF n
    <3>1. ASSUME NEW s \in Small(k + 1), s # {} PROVE s \ {AnyOf(s)} \in Small(k) /\ AnyOf(s) \in S
      <4>1. Cardinality(s) \in Nat /\ Cardinality(s) <= k + 1 /\ Cardinality(s \ {AnyOf(s)}) = Cardinality(s) - 1
        BY <3>1, <1>1
      <4>2. Cardinality(s \ {AnyOf(s)}) <= k
        BY <4>1, <2>k
      <4>3. QED
        BY <4>2, <3>1, <1>1
    <3>2. QED
      BY <3>1
  <2>4. {} \in Small(k) /\ \A s \in Small(k) : s \in Small(k + 1)
    <3> HIDE DEF n
    <3>1. Cardinality({}) = 0
      BY <1>1
    <3>2. QED
      BY <3>1, <1>1, <2>k
  <2> HIDE DEF Small, n
  <2>5. g \in [Small(k + 1) -> X]
    <3>1. ASSUME NEW s \in Small(k + 1) PROVE g[s] \in X
      <4>1. CASE s \in Small(k)
        BY <4>1, <2>2
      <4>2. CASE s \notin Small(k)
        <5>1. s # {}
          BY <4>2, <2>4
        <5>2. f[s \ {AnyOf(s)}] \in X /\ AnyOf(s) \in S
          BY <5>1, <2>2, <2>3
        <5>3. QED
          BY <5>2, <4>2
      <4>3. QED
        BY <4>1, <4>2
    <3>2. QED
      BY <3>1
  <2>6. ASSUME NEW s \in Small(k + 1)
        PROVE  g[s] = IF s = {} THEN base ELSE step[<<g[s \ {AnyOf(s)}], AnyOf(s)>>]
    <3>1. CASE s = {}
      BY <3>1, <2>4
    <3>2. CASE s # {}
      <4>1. s \ {AnyOf(s)} \in Small(k)
        BY <3>2, <2>3
      <4>2. g[s \ {AnyOf(s)}] = f[s \ {AnyOf(s)}]
        BY <4>1, <2>4
      <4>3. g[s] = last(s)
        BY <3>2
      <4>4. QED
        BY <3>2, <4>2, <4>3
    <3>3. QED
      BY <3>1, <3>2
  <2>7. g \in Folds(k + 1)
    BY <2>5, <2>6
  <2>8. QED
    BY <2>7, <2>k
<1> HIDE DEF G
<1>4. n \in G
  <2> HIDE DEF n
  <2>1. QED
    BY <1>1, <1>2, <1>3, UpTo
<1>5. PICK g \in Folds(n) : TRUE
  BY <1>4 DEF G
<1>6. Small(n) = SUBSET S
  BY <1>1
<1>7. g \in [SUBSET S -> X] /\ IsSetFold(g, S, base, step)
  <2> HIDE DEF Small, n
  <2>1. QED
    BY <1>5, <1>6 DEF IsSetFold
<1>8. QED
  BY <1>7

(* Strong enough an induction for such a fold: from what it was before the   *)
(* element it takes last.                                                    *)
LEMMA SetFoldInduction ==
  ASSUME NEW S, IsFiniteSet(S), NEW G, {} \in G,
         \A s \in SUBSET S : s # {} /\ s \ {AnyOf(s)} \in G => s \in G
  PROVE  S \in G
<1> DEFINE n == Cardinality(S)
           H == {k \in 0 .. n : \A s \in SUBSET S : Cardinality(s) = k => s \in G}
<1>1. /\ n \in Nat
      /\ \A s \in SUBSET S : IsFiniteSet(s) /\ (Cardinality(s) = 0 <=> s = {})
  BY FS_CardinalityType, FS_Subset, FS_EmptySet
<1>2. 0 \in H
  BY <1>1
<1>3. ASSUME NEW k \in 0 .. n - 1, k \in H PROVE k + 1 \in H
  <2>1. k \in Nat /\ k + 1 \in 0 .. n /\ k + 1 # 0
    BY <1>1
  <2>2. ASSUME NEW s \in SUBSET S, Cardinality(s) = k + 1 PROVE s \in G
    <3>1. s # {} /\ IsFiniteSet(s)
      BY <1>1, <2>1, <2>2
    <3> DEFINE x == AnyOf(s)
    <3>2. x \in s
      BY <3>1 DEF AnyOf
    <3> HIDE DEF x
    <3>3. Cardinality(s \ {x}) = k
      <4>1. Cardinality(s \ {x}) = Cardinality(s) - 1
        BY <3>1, <3>2, FS_RemoveElement
      <4>2. QED
        BY <4>1, <2>1, <2>2
    <3>4. s \ {x} \in G
      BY <1>3, <3>3
    <3>5. QED
      BY <3>1, <3>4 DEF x
  <2> HIDE DEF n
  <2>3. QED
    BY <2>1, <2>2
<1> HIDE DEF H, n
<1>4. n \in H
  BY <1>1, <1>2, <1>3, UpTo
<1>5. QED
  BY <1>4 DEF H, n

(* A sweep: each order it takes gives back what is available of it.          *)
SweepStates == [ok : BOOLEAN, orders : [DOMAIN orders -> OrderRow], reservations : ReservationTables]

SweepRun(g, swept) ==
  /\ g \in [SUBSET swept -> SweepStates]
  /\ \A s \in SUBSET swept :
       g[s] = IF s = {} THEN Tables ELSE ExpireOne(g[s \ {AnyOf(s)}], AnyOf(s))
  /\ g[swept] = Expired(swept)

LEMMA ExpireOneState ==
  ASSUME OrdersInv(orders), NEW x \in SweepStates, NEW h \in DOMAIN orders
  PROVE  ExpireOne(x, h) \in SweepStates
<1> DEFINE key == BuildOrderReservationKey(orders[h])
           release == AvailableRemainderRelease(orders[h])
           q == ExpireOrderAvailableRemainder(x.orders, h)
           r == ReleaseRemainder(x.reservations, key, release)
           bad == ~ x.ok \/ ~ CanReleaseRemainder(x.reservations, key, release)
<1>1. x.ok \in BOOLEAN /\ x.orders \in [DOMAIN orders -> OrderRow] /\ x.reservations \in ReservationTables
  BY DEF SweepStates
<1>2. ExpireOne(x, h) = IF bad THEN [x EXCEPT !.ok = FALSE] ELSE [ok |-> TRUE, orders |-> q, reservations |-> r]
  BY DEF ExpireOne
<1>3. CASE bad
  BY <1>2, <1>3 DEF SweepStates
<1>4. CASE ~ bad
  <2>1. release \in Int
    <3>1. orders[h] \in OrderRow
      BY DEF OrdersInv
    <3>2. /\ orders[h].remaining \in Nat /\ orders[h].pending \in Nat
          /\ orders[h].usdcAmount \in Nat \ {0} /\ orders[h].outcomeAmount \in Nat \ {0}
      BY <3>1 DEF OrderRow
    <3>3. Confirmed(orders[h]) + orders[h].pending \in Int /\ Available(orders[h]) \in Int
      BY <3>2 DEF Confirmed, Available
    <3>4. BuyReservation(orders[h], Confirmed(orders[h]) + orders[h].pending) \in Int
      BY <3>2, <3>3, BuyReservationInt
    <3>5. QED
      BY <3>2, <3>3, <3>4 DEF AvailableRemainderRelease
  <2>2. r \in ReservationTables
    BY <1>1, <1>4, <2>1, DecreaseKeepsTable DEF CanReleaseRemainder, ReleaseRemainder
  <2>3. q \in [DOMAIN orders -> OrderRow]
    <3>1. [x.orders[h] EXCEPT !.status = "EXPIRED"] \in OrderRow
      BY <1>1 DEF OrderRow, OrderStatus
    <3>2. QED
      BY <1>1, <3>1 DEF ExpireOrderAvailableRemainder
  <2> HIDE DEF q, r
  <2>4. QED
    BY <1>2, <1>4, <2>2, <2>3 DEF SweepStates
<1>5. QED
  BY <1>3, <1>4

LEMMA SweepSteps ==
  ASSUME OrdersInv(orders), reservations \in ReservationTables, NEW swept \in SUBSET DOMAIN orders
  PROVE  \E g : SweepRun(g, swept)
<1> DEFINE X == SweepStates
           step == [z \in X \X swept |-> ExpireOne(z[1], z[2])]
           Rec(g) == g = [s \in SUBSET swept |->
                            IF s = {} THEN Tables ELSE ExpireOne(g[s \ {AnyOf(s)}], AnyOf(s))]
<1>1. IsFiniteSet(swept) /\ \A s \in SUBSET swept : s # {} => AnyOf(s) \in swept
  BY TicketsAssumption, FS_Subset DEF OrdersInv, AnyOf
<1>2. Tables \in X
  BY DEF Tables, SweepStates, OrdersInv
<1>3. step \in [X \X swept -> X] /\ \A x \in X, h \in swept : step[<<x, h>>] = ExpireOne(x, h)
  BY ExpireOneState
<1>4. Expired(swept) = (CHOOSE g : Rec(g))[swept]
  BY DEF Expired, FoldSet, MapThenFoldSet, AnyOf
<1> HIDE DEF X, step
<1>5. PICK f \in [SUBSET swept -> X] : IsSetFold(f, swept, Tables, step)
  BY <1>1, <1>2, <1>3, SetFoldExists
<1>6. ASSUME NEW g \in [SUBSET swept -> X], NEW s \in SUBSET swept, s # {}
      PROVE  step[<<g[s \ {AnyOf(s)}], AnyOf(s)>>] = ExpireOne(g[s \ {AnyOf(s)}], AnyOf(s))
  <2>1. g[s \ {AnyOf(s)}] \in X /\ AnyOf(s) \in swept
    BY <1>1, <1>6
  <2>2. QED
    BY <2>1, <1>3
<1>7. Rec(f)
  BY <1>5, <1>6 DEF IsSetFold
<1> DEFINE g == CHOOSE e : Rec(e)
<1>8. Rec(g)
  BY <1>7
<1> HIDE DEF g
<1>9. ASSUME NEW s \in SUBSET swept PROVE g[s] \in X
  <2> DEFINE G == {e \in SUBSET s : g[e] \in X}
  <2>1. {} \in G
    BY <1>2, <1>8
  <2>2. ASSUME NEW e \in SUBSET s, e # {}, e \ {AnyOf(e)} \in G PROVE e \in G
    <3>1. /\ g[e] = ExpireOne(g[e \ {AnyOf(e)}], AnyOf(e))
          /\ g[e \ {AnyOf(e)}] \in SweepStates /\ AnyOf(e) \in swept
      BY <1>1, <1>8, <2>2 DEF X
    <3>2. AnyOf(e) \in DOMAIN orders
      BY <3>1
    <3>3. QED
      BY <3>1, <3>2, ExpireOneState DEF X
  <2>3. IsFiniteSet(s)
    BY <1>1, FS_Subset
  <2> HIDE DEF G
  <2>4. s \in G
    BY <2>1, <2>2, <2>3, SetFoldInduction
  <2>5. QED
    BY <2>4 DEF G
<1>10. g \in [SUBSET swept -> X]
  BY <1>8, <1>9
<1>11. g[swept] = Expired(swept)
  BY <1>4 DEF g
<1>12. SweepRun(g, swept)
  BY <1>8, <1>10, <1>11 DEF SweepRun, X
<1>13. QED
  BY <1>12

SweptUpTo(x, s) ==
  /\ EndLeaves(x.orders, x.reservations, orders, reservations)
  /\ \A h \in DOMAIN orders \ s : x.orders[h] = orders[h]

LEMMA Swept ==
  ASSUME OrdersInv(orders), reservations \in ReservationTables,
         NEW swept \in SUBSET GetExpiredAvailableOrders(orders, now),
         NEW x, x = Expired(swept), x.ok
  PROVE  EndLeaves(x.orders, x.reservations, orders, reservations)
<1>1. swept \in SUBSET DOMAIN orders /\ \A h \in swept : orders[h].status = "LIVE"
  BY DEF GetExpiredAvailableOrders, LiveAvailable
<1>2. PICK g : SweepRun(g, swept)
  BY <1>1, SweepSteps
<1>3. IsFiniteSet(swept)
  BY <1>1, TicketsAssumption, FS_Subset DEF OrdersInv
<1>4. \A s \in SUBSET swept : /\ g[s] \in SweepStates
                              /\ g[s].ok => g[s] = [ok |-> TRUE, orders |-> g[s].orders,
                                                    reservations |-> g[s].reservations]
  BY <1>2 DEF SweepRun, SweepStates
<1> DEFINE G == {s \in SUBSET swept : g[s].ok => SweptUpTo(g[s], s)}
<1>5. {} \in G
  <2>1. g[{}] = Tables
    BY <1>2 DEF SweepRun
  <2>2. g[{}].orders = orders /\ g[{}].reservations = reservations
    BY <2>1 DEF Tables
  <2>3. EndLeaves(orders, reservations, orders, reservations)
    <3>1. \A key : Spare(orders, reservations, key) \in Int /\ GetReservation(reservations, key) \in Nat
      BY NeededInNat, ReservedNat DEF Spare
    <3>2. QED
      BY <3>1 DEF EndLeaves, Kept, PendingSame, NoSpareLost, NoneMore
  <2>4. SweptUpTo(g[{}], {})
    BY <2>2, <2>3 DEF SweptUpTo
  <2>5. QED
    BY <2>4
<1>6. ASSUME NEW s \in SUBSET swept, s # {}, s \ {AnyOf(s)} \in G PROVE s \in G
  <2> DEFINE h == AnyOf(s)
             e == s \ {h}
             y == g[e]
             z == g[s]
             key == BuildOrderReservationKey(orders[h])
             release == AvailableRemainderRelease(orders[h])
  <2>1. SUFFICES ASSUME z.ok PROVE SweptUpTo(z, s)
    OBVIOUS
  <2>2. h \in s /\ h \in DOMAIN orders /\ orders[h].status = "LIVE"
    BY <1>1, <1>6 DEF AnyOf
  <2>3. z = ExpireOne(y, h)
    BY <1>2, <1>6 DEF SweepRun
  <2>4. /\ y.ok /\ CanReleaseRemainder(y.reservations, key, release)
        /\ z = [ok |-> TRUE, orders |-> ExpireOrderAvailableRemainder(y.orders, h),
                reservations |-> ReleaseRemainder(y.reservations, key, release)]
    BY <2>1, <2>3 DEF ExpireOne
  <2>5. SweptUpTo(y, e)
    BY <1>6, <2>4
  <2> HIDE DEF y, z
  <2> DEFINE o == y.orders
             r == y.reservations
             q == z.orders
             u == z.reservations
  <2>6. /\ EndLeaves(o, r, orders, reservations) /\ \A k \in DOMAIN orders \ e : o[k] = orders[k]
        /\ q = Ending(o, h, "EXPIRED") /\ u = ReleaseRemainder(r, key, release)
        /\ CanReleaseRemainder(r, key, release)
    BY <2>4, <2>5 DEF SweptUpTo, ExpireOrderAvailableRemainder, Ending
  <2>7. /\ OrdersInv(o) /\ DOMAIN o = DOMAIN orders /\ r \in ReservationTables /\ o[h] = orders[h]
    BY <2>2, <2>6 DEF EndLeaves, Kept
  <2>8. EndLeaves(q, u, o, r) /\ \A k \in DOMAIN o \ {h} : q[k] = o[k]
    <3> HIDE DEF o, r, q, u, h, e
    <3>1. /\ h \in DOMAIN o /\ o[h].status = "LIVE" /\ key = BuildOrderReservationKey(o[h])
          /\ release = AvailableRemainderRelease(o[h]) /\ "EXPIRED" \in {"CANCELLED", "EXPIRED"}
      BY <2>2, <2>7
    <3> HIDE DEF key, release
    <3>2. EndLeaves(q, u, o, r)
      BY <3>1, <2>6, <2>7, EndOne
    <3>3. \A k \in DOMAIN o \ {h} : q[k] = o[k]
      BY <3>1, <2>6, <2>7, EndedRow
    <3>4. QED
      BY <3>2, <3>3
  <2> HIDE DEF o, r, q, u, h
  <2>9. EndLeaves(q, u, orders, reservations)
    BY <2>6, <2>8, EndTrans
  <2>10. \A k \in DOMAIN orders \ s : q[k] = orders[k]
    BY <2>2, <2>6, <2>7, <2>8
  <2>11. QED
    BY <2>9, <2>10 DEF SweptUpTo, q, u
<1> HIDE DEF G
<1>7. swept \in G
  BY <1>3, <1>5, <1>6, SetFoldInduction
<1>8. SweptUpTo(x, swept)
  BY <1>2, <1>7 DEF G, SweepRun
<1>9. QED
  BY <1>8 DEF SweptUpTo

-----------------------------------------------------------------------------
(* Reconciliation: what it cancels it also releases.                         *)

DistinctSequences(o) ==
  \A g, h \in DOMAIN o : o[g].acceptedSequence = o[h].acceptedSequence => g = h

LEMMA NewestFirstSorts ==
  ASSUME OrdersInv(orders), DistinctSequences(orders), NEW S \in SUBSET DOMAIN orders
  PROVE  /\ NewestFirst(S) \in SetToSeqs(S)
         /\ \A i, j \in DOMAIN NewestFirst(S) : i < j =>
              orders[NewestFirst(S)[i]].acceptedSequence > orders[NewestFirst(S)[j]].acceptedSequence
<1> DEFINE R == {z \in S \X S : orders[z[1]].acceptedSequence > orders[z[2]].acceptedSequence}
           P(s) == \A i, j \in DOMAIN s : i < j => orders[s[i]].acceptedSequence > orders[s[j]].acceptedSequence
<1>1. \A g \in S : orders[g].acceptedSequence \in Nat
  BY DEF OrdersInv, OrderRow
<1>2. Orders(R, S)
  <2>1. \A a, b \in S : <<a, b>> \in R <=> orders[a].acceptedSequence > orders[b].acceptedSequence
    OBVIOUS
  <2> HIDE DEF R
  <2>2. \A a, b \in S : a # b => orders[a].acceptedSequence # orders[b].acceptedSequence
    BY DEF DistinctSequences
  <2>3. \A a, b \in S : a # b => <<a, b>> \in R \/ <<b, a>> \in R
    BY <2>1, <2>2, <1>1
  <2>4. ASSUME NEW a \in S, NEW b \in S, NEW c \in S, <<a, b>> \in R, <<b, c>> \in R
        PROVE  <<a, c>> \in R
    BY <2>1, <2>4, <1>1
  <2>5. QED
    BY <2>3, <2>4 DEF Orders
<1>3. IsFiniteSet(S)
  BY TicketsAssumption, FS_Subset DEF OrdersInv
<1>4. PICK s \in SetToSeqs(S) : Sorted(s, R)
  BY <1>2, <1>3, SortedExists
<1>5. P(s)
  BY <1>4 DEF Sorted
<1>6. NewestFirst(S) = CHOOSE e \in SetToSeqs(S) : P(e)
  BY DEF NewestFirst, SortedBy
<1>7. NewestFirst(S) \in SetToSeqs(S) /\ P(NewestFirst(S))
  BY <1>4, <1>5, <1>6
<1>8. QED
  BY <1>7

Candidates(key) ==
  {h \in GetLiveOrdersForReservation(orders, key) : AvailableRemainderRelease(orders[h]) > 0}
PlanStep(plan, h, available) ==
  LET release == AvailableRemainderRelease(orders[h]) IN
  IF plan.reserved <= available THEN plan
  ELSE [ok |-> plan.ok /\ release <= plan.reserved,
        reserved |-> plan.reserved - release, cancelled |-> plan.cancelled \cup {h}]

PlanStates == [ok : BOOLEAN, reserved : Int, cancelled : SUBSET DOMAIN orders]
PlanRun(c, key, available) ==
  LET sorted == NewestFirst(Candidates(key)) IN
  /\ c \in [0 .. Len(sorted) -> PlanStates]
  /\ c[0] = [ok |-> TRUE, reserved |-> GetReservation(reservations, key), cancelled |-> {}]
  /\ \A k \in 0 .. Len(sorted) - 1 : c[k + 1] = PlanStep(c[k], sorted[k + 1], available)
  /\ c[Len(sorted)] = PlanReconciliation(key, available)

LEMMA CandidatesInOrders ==
  ASSUME OrdersInv(orders), NEW key
  PROVE  /\ Candidates(key) \in SUBSET DOMAIN orders /\ IsFiniteSet(Candidates(key))
         /\ \A h \in Candidates(key) : /\ orders[h].status = "LIVE" /\ BuildOrderReservationKey(orders[h]) = key
                                       /\ AvailableRemainderRelease(orders[h]) \in Nat \ {0}
<1>1. Candidates(key) \in SUBSET DOMAIN orders
  BY DEF Candidates, GetLiveOrdersForReservation
<1>2. ASSUME NEW h \in Candidates(key)
      PROVE  /\ orders[h].status = "LIVE" /\ BuildOrderReservationKey(orders[h]) = key
             /\ AvailableRemainderRelease(orders[h]) \in Nat \ {0}
  <2>1. /\ orders[h].status = "LIVE" /\ BuildOrderReservationKey(orders[h]) = key /\ h \in DOMAIN orders
        /\ AvailableRemainderRelease(orders[h]) > 0
    BY DEF Candidates, GetLiveOrdersForReservation, LiveAvailable
  <2>2. AvailableRemainderRelease(orders[h]) \in Nat
    BY <2>1, EndedRow
  <2>3. QED
    BY <2>1, <2>2
<1>3. QED
  BY <1>1, <1>2, TicketsAssumption, FS_Subset DEF OrdersInv

LEMMA PlanSteps ==
  ASSUME OrdersInv(orders), DistinctSequences(orders), reservations \in ReservationTables, NEW key, NEW available
  PROVE  \E c : PlanRun(c, key, available)
<1> DEFINE sorted == NewestFirst(Candidates(key))
           n == Len(sorted)
           X == PlanStates
           base == [ok |-> TRUE, reserved |-> GetReservation(reservations, key), cancelled |-> {}]
           op(x, i) == PlanStep(x, sorted[i], available)
           step == [z \in X \X (1 .. n) |-> op(z[1], z[2])]
           Rec(g) == g = [s \in SUBSET (1 .. n) |->
                            IF s = {} THEN base ELSE op(g[s \ {Max(s)}], Max(s))]
<1>1. n \in Nat /\ DOMAIN sorted = 1 .. n /\ \A i \in 1 .. n : sorted[i] \in Candidates(key)
  BY CandidatesInOrders, NewestFirstSorts, SeqsCover
<1>2. base \in X
  BY ReservedNat DEF PlanStates
<1>3. ASSUME NEW x \in X, NEW i \in 1 .. n PROVE op(x, i) \in X
  <2>1. sorted[i] \in DOMAIN orders /\ AvailableRemainderRelease(orders[sorted[i]]) \in Int
    BY <1>1, CandidatesInOrders
  <2> DEFINE h == sorted[i]
             release == AvailableRemainderRelease(orders[h])
  <2> HIDE DEF h, release, sorted
  <2>2. PlanStep(x, h, available) \in X
    <3>1. x.ok \in BOOLEAN /\ x.reserved \in Int /\ x.cancelled \in SUBSET DOMAIN orders
      BY DEF PlanStates
    <3>2. release \in Int /\ h \in DOMAIN orders
      BY <2>1 DEF h, release
    <3>3. PlanStep(x, h, available) = IF x.reserved <= available THEN x
            ELSE [ok |-> x.ok /\ release <= x.reserved,
                  reserved |-> x.reserved - release, cancelled |-> x.cancelled \cup {h}]
      BY DEF PlanStep, release
    <3>4. (x.ok /\ release <= x.reserved) \in BOOLEAN
      OBVIOUS
    <3>5. QED
      BY <3>1, <3>2, <3>3, <3>4 DEF PlanStates
  <2>3. QED
    BY <2>2 DEF h
<1>4. step \in [X \X (1 .. n) -> X] /\ \A x \in X, i \in 1 .. n : step[<<x, i>>] = op(x, i)
  BY <1>3
<1>5. PlanReconciliation(key, available) = (CHOOSE g : Rec(g))[1 .. n]
  BY <1>1 DEF PlanReconciliation, Candidates, PlanStep, FoldLeft, MapThenFoldSet
<1> HIDE DEF X, base, step, op
<1>6. \E g : Rec(g)
  <2>1. PICK g \in [SUBSET (1 .. n) -> X] : IsFold(g, n, base, step)
    BY <1>1, <1>2, <1>4, FoldExists
  <2>2. ASSUME NEW s \in SUBSET (1 .. n), s # {}
        PROVE  step[<<g[s \ {Max(s)}], Max(s)>>] = op(g[s \ {Max(s)}], Max(s))
    <3>1. Max(s) \in 1 .. n /\ g[s \ {Max(s)}] \in X
      BY <1>1, <2>2, MaxInside
    <3>2. QED
      BY <3>1, <1>4
  <2>3. Rec(g)
    BY <2>1, <2>2 DEF IsFold
  <2>4. QED
    BY <2>3
<1> DEFINE g == CHOOSE f : Rec(f)
<1>7. Rec(g)
  BY <1>6
<1> HIDE DEF g
<1>8. GoesBy(g, n, X, base, step)
  <2>1. ASSUME NEW s \in SUBSET (1 .. n), s # {}, g[s \ {Max(s)}] \in X
        PROVE  g[s] = step[<<g[s \ {Max(s)}], Max(s)>>]
    <3>1. Max(s) \in 1 .. n
      BY <1>1, <2>1, MaxInside
    <3>2. QED
      BY <3>1, <1>4, <1>7, <2>1
  <2>2. g[{}] = base
    BY <1>7
  <2>3. QED
    BY <2>1, <2>2 DEF GoesBy
<1>9. RunEndsAt(g[1 .. n], n, X, base, step)
  <2> HIDE DEF Rec, n
  <2>1. QED
    BY <1>1, <1>2, <1>4, <1>8, FoldChain
<1>10. PICK c \in [0 .. n -> X] :
         /\ c[0] = base /\ c[n] = g[1 .. n]
         /\ \A k \in 0 .. n - 1 : c[k + 1] = step[<<c[k], k + 1>>]
  BY <1>9 DEF RunEndsAt
<1> HIDE DEF Rec, n
<1>11. \A k \in 0 .. n - 1 : c[k + 1] = op(c[k], k + 1)
  <2>1. \A k \in 0 .. n - 1 : k \in 0 .. n /\ k + 1 \in 1 .. n
    BY <1>1
  <2>2. QED
    BY <2>1, <1>4, <1>10
<1>12. c[n] = PlanReconciliation(key, available)
  BY <1>5, <1>10 DEF g
<1>13. PlanRun(c, key, available)
  BY <1>10, <1>11, <1>12 DEF PlanRun, X, base, op, n
<1>14. QED
  BY <1>13

EndAll(S) == [h \in DOMAIN orders |-> IF h \in S THEN [orders[h] EXCEPT !.status = "CANCELLED"] ELSE orders[h]]

(* What a plan has cancelled is what it has released, of that key only.      *)
PlanAt(x, S, key) ==
  LET q == EndAll(x.cancelled) IN
  /\ x.cancelled \subseteq S
  /\ x.reserved <= GetReservation(reservations, key)
  /\ x.ok => x.reserved >= 0
  /\ Kept(q, orders) /\ PendingSame(q, orders)
  /\ \A k : NeededIn(q, k) =
              NeededIn(orders, k)
                - (IF k = key THEN GetReservation(reservations, key) - x.reserved ELSE 0)

LEMMA PlanOne ==
  ASSUME OrdersInv(orders), reservations \in ReservationTables, NEW key, NEW available,
         NEW x \in PlanStates, NEW S, PlanAt(x, S, key), NEW h \in Candidates(key), h \notin S
  PROVE  PlanAt(PlanStep(x, h, available), S \cup {h}, key)
<1> DEFINE release == AvailableRemainderRelease(orders[h])
           y == PlanStep(x, h, available)
           q == EndAll(x.cancelled)
           p == EndAll(y.cancelled)
           all == GetReservation(reservations, key)
<1>1. /\ h \in DOMAIN orders /\ orders[h].status = "LIVE" /\ BuildOrderReservationKey(orders[h]) = key
      /\ release \in Nat \ {0} /\ all \in Nat
      /\ x.reserved \in Int /\ x.ok \in BOOLEAN /\ x.cancelled \in SUBSET DOMAIN orders
  BY CandidatesInOrders, ReservedNat DEF PlanStates
<1>2. /\ x.cancelled \subseteq S /\ x.reserved <= all /\ (x.ok => x.reserved >= 0)
      /\ Kept(q, orders) /\ PendingSame(q, orders)
      /\ \A k : NeededIn(q, k) = NeededIn(orders, k) - (IF k = key THEN all - x.reserved ELSE 0)
  BY DEF PlanAt
<1>3. CASE x.reserved <= available
  <2>1. y = x
    BY <1>3 DEF PlanStep
  <2>2. x.cancelled \subseteq S \cup {h}
    BY <1>2
  <2>3. QED
    BY <2>1, <2>2, <1>2 DEF PlanAt
<1>4. CASE ~ (x.reserved <= available)
  <2>1. y = [ok |-> x.ok /\ release <= x.reserved, reserved |-> x.reserved - release,
             cancelled |-> x.cancelled \cup {h}]
    BY <1>4 DEF PlanStep
  <2>2. /\ y.ok => x.ok /\ release <= x.reserved
        /\ y.reserved = x.reserved - release /\ y.cancelled = x.cancelled \cup {h}
    <3> HIDE DEF y
    <3>1. y.ok = (x.ok /\ release <= x.reserved)
      BY <2>1
    <3>2. QED
      BY <2>1, <3>1
  <2>3. h \notin x.cancelled
    BY <1>2
  <2>4. p = Ending(q, h, "CANCELLED")
    <3>1. DOMAIN q = DOMAIN orders /\ q[h] = orders[h]
      BY <1>1, <2>3 DEF EndAll
    <3>2. Ending(q, h, "CANCELLED") = [g \in DOMAIN orders |->
             IF g = h THEN [orders[h] EXCEPT !.status = "CANCELLED"] ELSE q[g]]
      BY <3>1 DEF Ending
    <3>3. p = [g \in DOMAIN orders |-> IF g \in x.cancelled \cup {h}
                 THEN [orders[g] EXCEPT !.status = "CANCELLED"] ELSE orders[g]]
      BY <2>2 DEF EndAll
    <3>4. \A g \in DOMAIN orders : q[g] = IF g \in x.cancelled
                 THEN [orders[g] EXCEPT !.status = "CANCELLED"] ELSE orders[g]
      BY DEF EndAll
    <3> HIDE DEF p, q
    <3>5. QED
      BY <3>2, <3>3, <3>4
  <2>5. OrdersInv(q) /\ h \in DOMAIN q /\ q[h] = orders[h] /\ DOMAIN q = DOMAIN orders
    BY <1>1, <1>2, <2>3 DEF Kept, EndAll
  <2> HIDE DEF p, q
  <2>6. /\ Kept(p, q) /\ PendingSame(p, q) /\ \A g \in DOMAIN q \ {h} : p[g] = q[g]
        /\ Needed(p[h]) = Needed(q[h]) - AvailableRemainderRelease(q[h])
    <3>1. "CANCELLED" \in {"CANCELLED", "EXPIRED"} /\ q[h].status = "LIVE"
      BY <1>1, <2>5
    <3>2. QED
      BY <3>1, <2>4, <2>5, EndedRow
  <2>7. Kept(p, orders) /\ PendingSame(p, orders)
    <3>1. Kept(p, orders)
      BY <2>6, <1>2, KeptTrans
    <3>2. PendingSame(p, orders)
      BY <2>5, <2>6, <1>2 DEF PendingSame
    <3>3. QED
      BY <3>1, <3>2
  <2>8. ASSUME NEW k
        PROVE  NeededIn(p, k) = NeededIn(orders, k) - (IF k = key THEN all - y.reserved ELSE 0)
    <3>1. NeededIn(p, k) = NeededIn(q, k) + (IF k = BuildOrderReservationKey(q[h])
                                             THEN Needed(p[h]) - Needed(q[h]) ELSE 0)
      <4>1. /\ OrdersInv(p) /\ DOMAIN p = DOMAIN q
            /\ BuildOrderReservationKey(p[h]) = BuildOrderReservationKey(q[h])
        BY <2>5, <2>6 DEF Kept
      <4>2. QED
        BY <4>1, <2>5, <2>6, NeededRow
    <3>2. NeededIn(orders, k) \in Nat /\ NeededIn(q, k) = NeededIn(orders, k) - (IF k = key THEN all - x.reserved ELSE 0)
      BY <1>2, NeededInNat
    <3>3. Needed(q[h]) \in Nat /\ Needed(p[h]) = Needed(q[h]) - release
      <4>1. q[h] \in OrderRow /\ RowInv(q[h])
        BY <2>5 DEF OrdersInv
      <4>2. QED
        BY <4>1, <2>5, <2>6, NeededNat
    <3>4. BuildOrderReservationKey(q[h]) = key
      BY <2>5, <1>1
    <3> HIDE DEF all, release, y
    <3>5. CASE k = key
      BY <3>1, <3>2, <3>3, <3>4, <3>5, <2>2, <1>1
    <3>6. CASE k # key
      BY <3>1, <3>2, <3>4, <3>6
    <3>7. QED
      BY <3>5, <3>6
  <2>9. y.reserved <= all /\ (y.ok => y.reserved >= 0)
    <3> HIDE DEF all, release, y
    <3>1. QED
      BY <2>2, <1>1, <1>2
  <2>10. y.cancelled \subseteq S \cup {h}
    BY <2>2, <1>2
  <2>11. QED
    BY <2>7, <2>8, <2>9, <2>10 DEF PlanAt, p
<1>5. QED
  BY <1>3, <1>4

LEMMA Planned ==
  ASSUME OrdersInv(orders), DistinctSequences(orders), reservations \in ReservationTables, NEW key, NEW available,
         NEW plan, plan = PlanReconciliation(key, available)
  PROVE  PlanAt(plan, Candidates(key), key) /\ plan \in PlanStates
<1> DEFINE sorted == NewestFirst(Candidates(key))
           n == Len(sorted)
           Done(k) == {sorted[i] : i \in 1 .. k}
<1>1. PICK c : PlanRun(c, key, available)
  BY PlanSteps
<1>2. /\ n \in Nat /\ DOMAIN sorted = 1 .. n /\ \A i \in 1 .. n : sorted[i] \in Candidates(key)
      /\ \A i, j \in 1 .. n : sorted[i] = sorted[j] => i = j
  BY CandidatesInOrders, NewestFirstSorts, SeqsCover
<1>3. /\ c \in [0 .. n -> PlanStates] /\ c[n] = plan
      /\ c[0] = [ok |-> TRUE, reserved |-> GetReservation(reservations, key), cancelled |-> {}]
      /\ \A k \in 0 .. n - 1 : c[k + 1] = PlanStep(c[k], sorted[k + 1], available)
  BY <1>1 DEF PlanRun
<1> HIDE DEF n, sorted
<1>4. PlanAt(c[0], Done(0), key)
  <2>1. EndAll({}) = orders
    BY DEF EndAll, OrdersInv
  <2>2. /\ GetReservation(reservations, key) \in Nat /\ \A k : NeededIn(orders, k) \in Nat
    BY ReservedNat, NeededInNat
  <2>3. Kept(orders, orders) /\ PendingSame(orders, orders)
    BY DEF Kept, PendingSame
  <2> DEFINE all == GetReservation(reservations, key)
  <2>4. all \in Nat /\ c[0].cancelled = {} /\ c[0].reserved = all /\ all <= all /\ all >= 0
    BY <2>2, <1>3
  <2>5. \A k : NeededIn(orders, k) = NeededIn(orders, k) - (IF k = key THEN all - all ELSE 0)
    BY <2>2
  <2> HIDE DEF all
  <2>6. QED
    BY <2>1, <2>3, <2>4, <2>5 DEF PlanAt, all
<1>5. ASSUME NEW k \in 0 .. n - 1, PlanAt(c[k], Done(k), key) PROVE PlanAt(c[k + 1], Done(k + 1), key)
  <2>1. k \in 0 .. n /\ k + 1 \in 1 .. n /\ 1 .. k + 1 = (1 .. k) \cup {k + 1}
    BY <1>2
  <2>2. Done(k + 1) = Done(k) \cup {sorted[k + 1]}
    BY <2>1
  <2>3. sorted[k + 1] \notin Done(k)
    <3>1. \A i \in 1 .. k : i \in 1 .. n /\ i # k + 1
      BY <1>2, <2>1
    <3>2. QED
      BY <3>1, <2>1, <1>2
  <2>4. sorted[k + 1] \in Candidates(key) /\ c[k] \in PlanStates
    BY <1>2, <1>3, <2>1
  <2> DEFINE S == Done(k)
  <2>5. S = Done(k)
    OBVIOUS
  <2> HIDE DEF Done, S
  <2>6. PlanAt(c[k], S, key) /\ sorted[k + 1] \notin S
    BY <1>5, <2>3, <2>5
  <2>7. PlanAt(PlanStep(c[k], sorted[k + 1], available), S \cup {sorted[k + 1]}, key)
    BY <2>4, <2>6, PlanOne
  <2>8. QED
    BY <2>2, <2>5, <2>7, <1>3
<1> HIDE DEF Done
<1>6. PlanAt(c[n], Done(n), key)
  <2> DEFINE G == {k \in 0 .. n : PlanAt(c[k], Done(k), key)}
  <2>1. 0 \in G
    BY <1>2, <1>4
  <2>2. ASSUME NEW k \in 0 .. n - 1, k \in G PROVE k + 1 \in G
    <3>1. k + 1 \in 0 .. n
      BY <1>2
    <3>2. QED
      BY <2>2, <3>1, <1>5
  <2> HIDE DEF G
  <2>3. n \in G
    BY <2>1, <2>2, <1>2, UpTo
  <2>4. QED
    BY <2>3 DEF G
<1>7. Done(n) \subseteq Candidates(key)
  BY <1>2 DEF Done
<1>8. plan \in PlanStates
  BY <1>2, <1>3
<1>9. plan.cancelled \subseteq Candidates(key)
  BY <1>3, <1>6, <1>7 DEF PlanAt
<1>10. QED
  BY <1>3, <1>6, <1>8, <1>9 DEF PlanAt

LEMMA Reconciled ==
  ASSUME OrdersInv(orders), DistinctSequences(orders), reservations \in ReservationTables, NEW key, NEW available,
         NEW plan, plan = PlanReconciliation(key, available), plan.ok,
         NEW q, q = EndAll(plan.cancelled),
         NEW s, s = ReleaseRemainder(reservations, key, GetReservation(reservations, key) - plan.reserved)
  PROVE  EndLeaves(q, s, orders, reservations)
<1> DEFINE all == GetReservation(reservations, key)
           release == all - plan.reserved
<1>1. PlanAt(plan, Candidates(key), key) /\ plan.reserved \in Int
  BY Planned DEF PlanStates
<1>2. /\ all \in Nat /\ release \in Nat /\ release <= all
  <2>1. all \in Nat
    BY ReservedNat
  <2>2. plan.reserved <= all /\ plan.reserved >= 0
    BY <1>1 DEF PlanAt
  <2> HIDE DEF all
  <2>3. QED
    BY <1>1, <2>1, <2>2
<1>3. CanReleaseRemainder(reservations, key, release)
  <2>1. all # 0 => key \in DOMAIN reservations /\ reservations[key] = all
    BY DEF GetReservation
  <2> HIDE DEF release, all
  <2>2. QED
    BY <2>1, <1>2 DEF CanReleaseRemainder, CanDecreaseReservation
<1>4. /\ s \in ReservationTables
      /\ \A k : GetReservation(s, k) = GetReservation(reservations, k) - (IF k = key THEN release ELSE 0)
  <2>1. s = ReleaseRemainder(reservations, key, release)
    OBVIOUS
  <2> HIDE DEF release
  <2>2. QED
    BY <2>1, <1>2, <1>3, ReleaseTakes
<1>5. /\ Kept(q, orders) /\ PendingSame(q, orders)
      /\ \A k : NeededIn(q, k) = NeededIn(orders, k) - (IF k = key THEN release ELSE 0)
  BY <1>1 DEF PlanAt
<1> HIDE DEF release, all
<1>6. \A k : GetReservation(reservations, k) \in Nat /\ NeededIn(orders, k) \in Nat
  BY ReservedNat, NeededInNat
<1>7. NoneMore(s, reservations)
  BY <1>2, <1>4, <1>6 DEF NoneMore
<1>8. ASSUME NEW k PROVE Spare(q, s, k) >= Spare(orders, reservations, k)
  <2>1. /\ GetReservation(s, k) = GetReservation(reservations, k) - (IF k = key THEN release ELSE 0)
        /\ NeededIn(q, k) = NeededIn(orders, k) - (IF k = key THEN release ELSE 0)
        /\ GetReservation(reservations, k) \in Nat /\ NeededIn(orders, k) \in Nat
    BY <1>4, <1>5, <1>6
  <2>2. QED
    BY <2>1, <1>2 DEF Spare
<1>9. QED
  BY <1>4, <1>5, <1>7, <1>8 DEF EndLeaves, NoSpareLost

-----------------------------------------------------------------------------
(* Price-time priority orders the candidates of a taker, so that the loop    *)
(* meets each of them once.                                                  *)

LEMMA Multiplied ==
  ASSUME NEW a \in Nat, NEW b \in Nat, NEW c \in Nat \ {0}
  PROVE  (a <= b <=> a * c <= b * c) /\ (a < b <=> a * c < b * c)
<1>1. a <= b => a * c <= b * c
  OBVIOUS
<1>2. a < b => a * c < b * c
  <2>1. SUFFICES ASSUME a < b PROVE a * c < b * c
    OBVIOUS
  <2>2. PICK d \in Nat \ {0} : b = a + d
    <3>1. b - a \in Nat \ {0} /\ b = a + (b - a)
      BY <2>1
    <3>2. QED
      BY <3>1
  <2>3. b * c = a * c + d * c /\ d * c \in Nat /\ d * c >= c /\ a * c \in Nat
    BY <2>2
  <2>4. QED
    BY <2>3
<1>3. b < a => b * c < a * c
  <2>1. SUFFICES ASSUME b < a PROVE b * c < a * c
    OBVIOUS
  <2>2. PICK d \in Nat \ {0} : a = b + d
    <3>1. a - b \in Nat \ {0} /\ a = b + (a - b)
      BY <2>1
    <3>2. QED
      BY <3>1
  <2>3. a * c = b * c + d * c /\ d * c \in Nat /\ d * c >= c /\ b * c \in Nat
    BY <2>2
  <2>4. QED
    BY <2>3
<1>4. a * c \in Nat /\ b * c \in Nat /\ (a = b => a * c = b * c)
  OBVIOUS
<1> DEFINE x == a * c
           y == b * c
<1> HIDE DEF x, y
<1>5. /\ (a <= b => x <= y) /\ (a < b => x < y) /\ (b < a => y < x) /\ (a = b => x = y)
      /\ x \in Nat /\ y \in Nat
  BY <1>1, <1>2, <1>3, <1>4 DEF x, y
<1>6. (a <= b <=> x <= y) /\ (a < b <=> x < y)
  BY <1>5
<1>7. QED
  BY <1>6 DEF x, y

(* Fractions in order: of the first two and the last two, one strictly.      *)
LEMMA FractionsInOrder ==
  ASSUME NEW u1 \in Nat, NEW u2 \in Nat, NEW u3 \in Nat,
         NEW o1 \in Nat \ {0}, NEW o2 \in Nat \ {0}, NEW o3 \in Nat \ {0},
         u1 * o2 <= u2 * o1, u2 * o3 <= u3 * o2
  PROVE  /\ u1 * o3 <= u3 * o1
         /\ u1 * o2 < u2 * o1 \/ u2 * o3 < u3 * o2 => u1 * o3 < u3 * o1
<1> DEFINE a == u1 * o2
           b == u2 * o1
           c == u2 * o3
           d == u3 * o2
           x == u1 * o3
           y == u3 * o1
<1>1. a \in Nat /\ b \in Nat /\ c \in Nat /\ d \in Nat /\ x \in Nat /\ y \in Nat /\ a <= b /\ c <= d
  OBVIOUS
<1>2. a * o3 = x * o2 /\ b * o3 = c * o1 /\ d * o1 = y * o2
  OBVIOUS
<1>3. a < b <=> u1 * o2 < u2 * o1
  OBVIOUS
<1>4. c < d <=> u2 * o3 < u3 * o2
  OBVIOUS
<1> HIDE DEF a, b, c, d, x, y
<1>5. /\ a * o3 <= b * o3 /\ (a < b => a * o3 < b * o3)
      /\ c * o1 <= d * o1 /\ (c < d => c * o1 < d * o1)
  BY <1>1, Multiplied
<1> DEFINE p == x * o2
           q == b * o3
           r == y * o2
<1>6. p \in Nat /\ q \in Nat /\ r \in Nat
  BY <1>1
<1>7. p <= q /\ q <= r /\ (a < b => p < q) /\ (c < d => q < r)
  BY <1>2, <1>5
<1>8. (p <= r <=> x <= y) /\ (p < r <=> x < y)
  BY <1>1, Multiplied
<1> HIDE DEF p, q, r
<1>9. p <= r /\ (a < b \/ c < d => p < r)
  BY <1>6, <1>7
<1>10. x <= y /\ (a < b \/ c < d => x < y)
  BY <1>8, <1>9
<1>11. QED
  BY <1>3, <1>4, <1>10 DEF x, y

PricedRow(row) == row.usdcAmount \in Nat /\ row.outcomeAmount \in Nat \ {0} /\ row.acceptedSequence \in Nat

(* What priority says: a better price, or the same and an older order.       *)
Cheaper(taker, l, r) ==
  IF taker.side = "BUY" THEN l.usdcAmount * r.outcomeAmount < r.usdcAmount * l.outcomeAmount
  ELSE r.usdcAmount * l.outcomeAmount < l.usdcAmount * r.outcomeAmount
AsCheap(l, r) == l.usdcAmount * r.outcomeAmount = r.usdcAmount * l.outcomeAmount

LEMMA PriorityMeans ==
  ASSUME NEW taker, NEW l, NEW r, PricedRow(l), PricedRow(r)
  PROVE  /\ PriceTimePriority(taker, l, r) <=>
              Cheaper(taker, l, r) \/ (AsCheap(l, r) /\ l.acceptedSequence < r.acceptedSequence)
         /\ Cheaper(taker, l, r) \/ AsCheap(l, r) \/ Cheaper(taker, r, l)
<1> DEFINE a == l.usdcAmount * r.outcomeAmount
           b == r.usdcAmount * l.outcomeAmount
<1>1. a \in Nat /\ b \in Nat
  BY DEF PricedRow
<1>2. /\ BetterPrice(taker, l, r) <=> IF taker.side = "BUY" THEN a < b ELSE a > b
      /\ BetterPrice(taker, r, l) <=> IF taker.side = "BUY" THEN b < a ELSE b > a
  BY DEF BetterPrice
<1>3. /\ Cheaper(taker, l, r) <=> IF taker.side = "BUY" THEN a < b ELSE b < a
      /\ Cheaper(taker, r, l) <=> IF taker.side = "BUY" THEN b < a ELSE a < b
      /\ AsCheap(l, r) <=> a = b
  BY DEF Cheaper, AsCheap
<1> HIDE DEF a, b
<1>4. QED
  BY <1>1, <1>2, <1>3 DEF PriceTimePriority

LEMMA PriorityTrans ==
  ASSUME NEW taker, NEW l, NEW m, NEW r, PricedRow(l), PricedRow(m), PricedRow(r),
         PriceTimePriority(taker, l, m), PriceTimePriority(taker, m, r)
  PROVE  PriceTimePriority(taker, l, r)
<1> DEFINE u1 == l.usdcAmount
           u2 == m.usdcAmount
           u3 == r.usdcAmount
           o1 == l.outcomeAmount
           o2 == m.outcomeAmount
           o3 == r.outcomeAmount
           s1 == l.acceptedSequence
           s2 == m.acceptedSequence
           s3 == r.acceptedSequence
           a == u1 * o2
           b == u2 * o1
           c == u2 * o3
           d == u3 * o2
           x == u1 * o3
           y == u3 * o1
<1>1. /\ u1 \in Nat /\ u2 \in Nat /\ u3 \in Nat
      /\ o1 \in Nat \ {0} /\ o2 \in Nat \ {0} /\ o3 \in Nat \ {0}
      /\ s1 \in Nat /\ s2 \in Nat /\ s3 \in Nat
  BY DEF PricedRow
<1>2. /\ IF taker.side = "BUY" THEN a < b \/ (a = b /\ s1 < s2) ELSE b < a \/ (a = b /\ s1 < s2)
      /\ IF taker.side = "BUY" THEN c < d \/ (c = d /\ s2 < s3) ELSE d < c \/ (c = d /\ s2 < s3)
  BY PriorityMeans DEF Cheaper, AsCheap
<1>3. PriceTimePriority(taker, l, r) <=>
        IF taker.side = "BUY" THEN x < y \/ (x = y /\ s1 < s3) ELSE y < x \/ (x = y /\ s1 < s3)
  BY PriorityMeans DEF Cheaper, AsCheap
<1>4. /\ a <= b /\ c <= d => x <= y /\ (a < b \/ c < d => x < y)
      /\ d <= c /\ b <= a => y <= x /\ (d < c \/ b < a => y < x)
  <2> HIDE DEF u1, u2, u3, o1, o2, o3
  <2>1. a <= b /\ c <= d => x <= y /\ (a < b \/ c < d => x < y)
    BY <1>1, FractionsInOrder
  <2>2. d <= c /\ b <= a => y <= x /\ (d < c \/ b < a => y < x)
    BY <1>1, FractionsInOrder
  <2>3. QED
    BY <2>1, <2>2
<1>5. a \in Nat /\ b \in Nat /\ c \in Nat /\ d \in Nat /\ x \in Nat /\ y \in Nat
  BY <1>1
<1> HIDE DEF a, b, c, d, x, y, u1, u2, u3, o1, o2, o3, s1, s2, s3
<1>6. CASE taker.side = "BUY"
  <2>1. (a < b \/ (a = b /\ s1 < s2)) /\ (c < d \/ (c = d /\ s2 < s3))
    BY <1>2, <1>6
  <2>2. x < y \/ (x <= y /\ s1 < s3 /\ a = b /\ c = d)
    BY <2>1, <1>1, <1>4, <1>5
  <2>3. a = b /\ c = d => x = y
    BY <1>4, <1>5
  <2>4. QED
    BY <2>2, <2>3, <1>3, <1>6
<1>7. CASE taker.side # "BUY"
  <2>1. (b < a \/ (a = b /\ s1 < s2)) /\ (d < c \/ (c = d /\ s2 < s3))
    BY <1>2, <1>7
  <2>2. y < x \/ (y <= x /\ s1 < s3 /\ a = b /\ c = d)
    BY <2>1, <1>1, <1>4, <1>5
  <2>3. a = b /\ c = d => x = y
    BY <1>4, <1>5
  <2>4. QED
    BY <2>2, <2>3, <1>3, <1>7
<1>8. QED
  BY <1>6, <1>7

RowsInOrder(S, taker, rows) ==
  SortedBy(S, LAMBDA g, h : PriceTimePriority(taker, rows[g], rows[h]))
InPriority(s, taker, rows) ==
  \A i, j \in DOMAIN s : i < j => PriceTimePriority(taker, rows[s[i]], rows[s[j]])

LEMMA CandidatesSort ==
  ASSUME NEW taker, NEW rows, NEW S \in SUBSET DOMAIN rows, IsFiniteSet(S),
         \A h \in S : PricedRow(rows[h]),
         \A g, h \in S : rows[g].acceptedSequence = rows[h].acceptedSequence => g = h
  PROVE  RowsInOrder(S, taker, rows) \in SetToSeqs(S) /\ InPriority(RowsInOrder(S, taker, rows), taker, rows)
<1> DEFINE R == {z \in S \X S : PriceTimePriority(taker, rows[z[1]], rows[z[2]])}
           P(s) == \A i, j \in DOMAIN s : i < j => PriceTimePriority(taker, rows[s[i]], rows[s[j]])
<1>1. Orders(R, S)
  <2>1. \A a, b \in S : <<a, b>> \in R <=> PriceTimePriority(taker, rows[a], rows[b])
    OBVIOUS
  <2> HIDE DEF R
  <2>2. ASSUME NEW a \in S, NEW b \in S, a # b PROVE <<a, b>> \in R \/ <<b, a>> \in R
    <3>1. PricedRow(rows[a]) /\ PricedRow(rows[b])
      OBVIOUS
    <3>2. /\ PriceTimePriority(taker, rows[a], rows[b]) <=>
               Cheaper(taker, rows[a], rows[b])
                 \/ (AsCheap(rows[a], rows[b]) /\ rows[a].acceptedSequence < rows[b].acceptedSequence)
          /\ PriceTimePriority(taker, rows[b], rows[a]) <=>
               Cheaper(taker, rows[b], rows[a])
                 \/ (AsCheap(rows[b], rows[a]) /\ rows[b].acceptedSequence < rows[a].acceptedSequence)
          /\ Cheaper(taker, rows[a], rows[b]) \/ AsCheap(rows[a], rows[b]) \/ Cheaper(taker, rows[b], rows[a])
      BY <3>1, PriorityMeans
    <3>3. AsCheap(rows[a], rows[b]) => AsCheap(rows[b], rows[a])
      BY DEF AsCheap
    <3>4. rows[a].acceptedSequence < rows[b].acceptedSequence \/ rows[b].acceptedSequence < rows[a].acceptedSequence
      <4>1. rows[a].acceptedSequence # rows[b].acceptedSequence
        BY <2>2
      <4>2. rows[a].acceptedSequence \in Nat /\ rows[b].acceptedSequence \in Nat
        BY <3>1 DEF PricedRow
      <4>3. QED
        BY <4>1, <4>2
    <3>5. QED
      BY <2>1, <3>2, <3>3, <3>4
  <2>3. ASSUME NEW a \in S, NEW b \in S, NEW c \in S, <<a, b>> \in R, <<b, c>> \in R
        PROVE  <<a, c>> \in R
    <3>1. PricedRow(rows[a]) /\ PricedRow(rows[b]) /\ PricedRow(rows[c])
      OBVIOUS
    <3>2. QED
      BY <2>1, <2>3, <3>1, PriorityTrans
  <2>4. QED
    BY <2>2, <2>3 DEF Orders
<1>2. PICK s \in SetToSeqs(S) : Sorted(s, R)
  BY <1>1, SortedExists
<1>3. P(s)
  BY <1>2 DEF Sorted
<1>4. RowsInOrder(S, taker, rows) = CHOOSE e \in SetToSeqs(S) : P(e)
  BY DEF SortedBy, RowsInOrder
<1> HIDE DEF P, R
<1> DEFINE r == RowsInOrder(S, taker, rows)
<1>5. r \in SetToSeqs(S) /\ P(r)
  BY <1>2, <1>3, <1>4
<1>6. QED
  BY <1>5 DEF P, InPriority

-----------------------------------------------------------------------------
(* What a match takes from its taker it gives in fills, one of each maker.   *)

Filled(fills) == Total([i \in DOMAIN fills |-> fills[i].amount], DOMAIN fills)

LEMMA FilledAppend ==
  ASSUME NEW D, NEW fills \in Seq(FillRow(D)), NEW e \in FillRow(D)
  PROVE  /\ Filled(<<>>) = 0 /\ Filled(fills) \in Nat
         /\ Filled(Append(fills, e)) = Filled(fills) + e.amount
<1> DEFINE n == Len(fills)
           more == Append(fills, e)
           f == [i \in 1 .. n |-> fills[i].amount]
           g == [i \in 1 .. n + 1 |-> more[i].amount]
<1>1. /\ n \in Nat /\ DOMAIN fills = 1 .. n /\ \A i \in 1 .. n : fills[i] \in FillRow(D)
      /\ DOMAIN more = 1 .. n + 1 /\ more[n + 1] = e /\ \A i \in 1 .. n : more[i] = fills[i]
  OBVIOUS
<1>2. IsFiniteSet(1 .. n) /\ 1 .. n + 1 = (1 .. n) \cup {n + 1} /\ n + 1 \notin 1 .. n
  BY <1>1, IntervalFinite
<1>3. /\ \A i \in 1 .. n : f[i] \in Nat /\ g[i] = f[i]
      /\ g[n + 1] = e.amount /\ e.amount \in Nat
  <2>1. \A i \in 1 .. n : fills[i].amount \in Nat
    BY <1>1 DEF FillRow
  <2>2. e.amount \in Nat
    BY DEF FillRow
  <2>3. \A i \in 1 .. n : i \in 1 .. n + 1
    BY <1>2
  <2> HIDE DEF n, more
  <2>4. QED
    BY <2>1, <2>2, <2>3, <1>1, <1>2
<1>4. Filled(fills) = Total(f, 1 .. n) /\ Filled(more) = Total(g, 1 .. n + 1)
  BY <1>1 DEF Filled
<1>5. Filled(<<>>) = 0
  <2>1. DOMAIN <<>> = {}
    OBVIOUS
  <2>2. QED
    BY <2>1, TotalZero DEF Filled
<1> HIDE DEF n, f, g, more
<1>6. Total(f, 1 .. n) \in Nat
  BY <1>2, <1>3, TotalNat
<1>7. Total(g, 1 .. n + 1) = Total(g, 1 .. n) + g[n + 1]
  <2> DEFINE S == 1 .. n
             a == n + 1
  <2>1. IsFiniteSet(S) /\ a \notin S /\ \A i \in S \cup {a} : g[i] \in Nat
    BY <1>2, <1>3
  <2>2. S \cup {a} = 1 .. n + 1
    BY <1>2
  <2> HIDE DEF S, a
  <2>3. Total(g, S \cup {a}) = Total(g, S) + g[a]
    BY <2>1, TotalAdd
  <2>4. QED
    BY <2>2, <2>3 DEF S, a
<1>8. Total(g, 1 .. n) = Total(f, 1 .. n)
  BY <1>3, TotalEqual
<1>9. QED
  BY <1>3, <1>4, <1>5, <1>6, <1>7, <1>8 DEF more

MatchStates(D) == [left : Nat, usdc : Nat, fills : Seq(FillRow(D))]

RowsMatch(taker, rows, D) ==
  /\ IsFiniteSet(D) /\ D \subseteq DOMAIN rows /\ taker \in OrderRow /\ RowInv(taker)
  /\ \A h \in D : rows[h] \in OrderRow /\ RowInv(rows[h]) /\ Available(rows[h]) > 0

LEMMA MatchNextState ==
  ASSUME NEW taker, NEW rows, NEW D, RowsMatch(taker, rows, D), NEW x \in MatchStates(D), NEW h \in D,
         NEW y, y = MatchNext(rows, x, h)
  PROVE  /\ y \in MatchStates(D)
         /\ y = x \/ \E e \in FillRow(D) : /\ e.maker = h /\ y.fills = Append(x.fills, e)
                                           /\ y.left = x.left - e.amount
<1> DEFINE maker == rows[h]
           amount == MakerFillAmount(x.left, maker)
           usdc == IncrementalUsdcFill(maker, amount)
           e == [maker |-> h, amount |-> amount, usdc |-> usdc]
<1>1. /\ x.left \in Nat /\ x.usdc \in Nat /\ x.fills \in Seq(FillRow(D))
      /\ maker \in OrderRow /\ RowInv(maker) /\ Available(maker) > 0
  BY DEF MatchStates, RowsMatch
<1>2. CASE x.left = 0 \/ usdc = 0
  BY <1>2 DEF MatchNext
<1>3. CASE ~ (x.left = 0 \/ usdc = 0)
  <2>1. y = [left |-> x.left - amount, usdc |-> x.usdc + usdc, fills |-> Append(x.fills, e)]
    BY <1>3 DEF MatchNext
  <2>2. amount \in Nat \ {0} /\ amount <= x.left
    <3>1. Available(maker) \in Nat \ {0}
      BY <1>1 DEF Available, OrderRow
    <3>2. QED
      BY <3>1, <1>1, <1>3 DEF MakerFillAmount, Smaller
  <2>3. usdc \in Nat \ {0}
    <3>1. Confirmed(maker) \in Nat /\ maker.usdcAmount \in Nat \ {0} /\ maker.outcomeAmount \in Nat \ {0}
      BY <1>1, NeededNat DEF OrderRow
    <3> DEFINE c == Confirmed(maker)
               d == c + amount
    <3>2. c \in Nat /\ d \in Nat /\ c <= d
      BY <3>1, <2>2
    <3> HIDE DEF c, d
    <3>3. /\ BuyReservation(maker, c) \in Nat /\ BuyReservation(maker, d) \in Nat
          /\ BuyReservation(maker, c) <= BuyReservation(maker, d)
      BY <3>1, <3>2, Worth
    <3>4. usdc = BuyReservation(maker, d) - BuyReservation(maker, c)
      BY DEF IncrementalUsdcFill, c, d
    <3> HIDE DEF maker, usdc
    <3>5. usdc \in Nat
      BY <3>3, <3>4
    <3>6. QED
      BY <3>5, <1>3
  <2>4. e \in FillRow(D) /\ e.maker = h /\ e.amount = amount
    BY <2>2, <2>3 DEF FillRow
  <2> HIDE DEF e, amount, usdc
  <2>5. /\ x.left - amount \in Nat /\ x.usdc + usdc \in Nat /\ Append(x.fills, e) \in Seq(FillRow(D))
    BY <1>1, <2>2, <2>3, <2>4
  <2>6. y \in MatchStates(D)
    BY <2>1, <2>5 DEF MatchStates
  <2>7. y.fills = Append(x.fills, e) /\ y.left = x.left - e.amount
    BY <2>1, <2>4
  <2>8. QED
    BY <2>4, <2>6, <2>7
<1>4. QED
  BY <1>2, <1>3

MatchCandidates(taker, rows) == {h \in DOMAIN rows : CanMatchCandidate(taker, rows[h])}
MatchOrder(taker, rows) ==
  SortedBy(MatchCandidates(taker, rows), LAMBDA g, h : PriceTimePriority(taker, rows[g], rows[h]))

MatchRun(c, taker, rows) ==
  LET sorted == MatchOrder(taker, rows) IN
  /\ c \in [0 .. Len(sorted) -> MatchStates(MatchCandidates(taker, rows))]
  /\ c[0] = [left |-> Available(taker), usdc |-> 0, fills |-> <<>>]
  /\ \A k \in 0 .. Len(sorted) - 1 : c[k + 1] = MatchNext(rows, c[k], sorted[k + 1])
  /\ c[Len(sorted)] = MatchTakerOrder(taker, rows)

LEMMA MatchSteps ==
  ASSUME NEW taker, NEW rows, RowsMatch(taker, rows, MatchCandidates(taker, rows)),
         MatchOrder(taker, rows) \in SetToSeqs(MatchCandidates(taker, rows))
  PROVE  \E c : MatchRun(c, taker, rows)
<1> DEFINE D == MatchCandidates(taker, rows)
           sorted == MatchOrder(taker, rows)
           n == Len(sorted)
           X == MatchStates(D)
           base == [left |-> Available(taker), usdc |-> 0, fills |-> <<>>]
           op(x, i) == MatchNext(rows, x, sorted[i])
           step == [z \in X \X (1 .. n) |-> op(z[1], z[2])]
           Rec(g) == g = [s \in SUBSET (1 .. n) |->
                            IF s = {} THEN base ELSE op(g[s \ {Max(s)}], Max(s))]
<1>1. n \in Nat /\ DOMAIN sorted = 1 .. n /\ \A i \in 1 .. n : sorted[i] \in D
  BY SeqsCover DEF RowsMatch
<1>2. base \in X
  <2>1. Available(taker) \in Nat
    BY DEF RowsMatch, RowInv, OrderRow, Available
  <2>2. <<>> \in Seq(FillRow(D))
    OBVIOUS
  <2>3. QED
    BY <2>1, <2>2 DEF MatchStates
<1>3. ASSUME NEW x \in X, NEW i \in 1 .. n PROVE op(x, i) \in X
  <2> DEFINE h == sorted[i]
             y == MatchNext(rows, x, h)
  <2>1. h \in D /\ y = MatchNext(rows, x, h)
    BY <1>1
  <2> HIDE DEF h, y, D, sorted
  <2>2. y \in X
    BY <2>1, MatchNextState DEF D
  <2>3. QED
    BY <2>1, <2>2 DEF h
<1>4. step \in [X \X (1 .. n) -> X] /\ \A x \in X, i \in 1 .. n : step[<<x, i>>] = op(x, i)
  BY <1>3
<1>5. MatchTakerOrder(taker, rows) = (CHOOSE g : Rec(g))[1 .. n]
  BY <1>1 DEF MatchTakerOrder, MatchCandidates, MatchOrder, FoldLeft, MapThenFoldSet
<1> HIDE DEF X, base, step, op
<1>6. \E g : Rec(g)
  <2>1. PICK g \in [SUBSET (1 .. n) -> X] : IsFold(g, n, base, step)
    BY <1>1, <1>2, <1>4, FoldExists
  <2>2. ASSUME NEW s \in SUBSET (1 .. n), s # {}
        PROVE  step[<<g[s \ {Max(s)}], Max(s)>>] = op(g[s \ {Max(s)}], Max(s))
    <3>1. Max(s) \in 1 .. n /\ g[s \ {Max(s)}] \in X
      BY <1>1, <2>2, MaxInside
    <3>2. QED
      BY <3>1, <1>4
  <2>3. Rec(g)
    BY <2>1, <2>2 DEF IsFold
  <2>4. QED
    BY <2>3
<1> DEFINE g == CHOOSE f : Rec(f)
<1>7. Rec(g)
  BY <1>6
<1> HIDE DEF g
<1>8. GoesBy(g, n, X, base, step)
  <2>1. ASSUME NEW s \in SUBSET (1 .. n), s # {}, g[s \ {Max(s)}] \in X
        PROVE  g[s] = step[<<g[s \ {Max(s)}], Max(s)>>]
    <3>1. Max(s) \in 1 .. n
      BY <1>1, <2>1, MaxInside
    <3>2. QED
      BY <3>1, <1>4, <1>7, <2>1
  <2>2. g[{}] = base
    BY <1>7
  <2>3. QED
    BY <2>1, <2>2 DEF GoesBy
<1>9. RunEndsAt(g[1 .. n], n, X, base, step)
  <2> HIDE DEF Rec, n
  <2>1. QED
    BY <1>1, <1>2, <1>4, <1>8, FoldChain
<1>10. PICK c \in [0 .. n -> X] :
         /\ c[0] = base /\ c[n] = g[1 .. n]
         /\ \A k \in 0 .. n - 1 : c[k + 1] = step[<<c[k], k + 1>>]
  BY <1>9 DEF RunEndsAt
<1> HIDE DEF Rec, n
<1>11. \A k \in 0 .. n - 1 : c[k + 1] = op(c[k], k + 1)
  <2>1. \A k \in 0 .. n - 1 : k \in 0 .. n /\ k + 1 \in 1 .. n
    BY <1>1
  <2>2. QED
    BY <2>1, <1>4, <1>10
<1>12. c[n] = MatchTakerOrder(taker, rows)
  BY <1>5, <1>10 DEF g
<1>13. MatchRun(c, taker, rows)
  BY <1>10, <1>11, <1>12 DEF MatchRun, X, base, op, n
<1>14. QED
  BY <1>13

(* What a match is: fills of makers among D, one of each, that add up.       *)
MatchOf(match, D, available) ==
  /\ match \in MatchStates(D)
  /\ \A i, j \in DOMAIN match.fills : match.fills[i].maker = match.fills[j].maker => i = j
  /\ match.left + Filled(match.fills) = available

LEMMA Matched ==
  ASSUME NEW taker, NEW rows, RowsMatch(taker, rows, MatchCandidates(taker, rows)),
         MatchOrder(taker, rows) \in SetToSeqs(MatchCandidates(taker, rows)),
         NEW match, match = MatchTakerOrder(taker, rows)
  PROVE  MatchOf(match, MatchCandidates(taker, rows), Available(taker))
<1> DEFINE D == MatchCandidates(taker, rows)
           sorted == MatchOrder(taker, rows)
           n == Len(sorted)
           Done(k) == {sorted[i] : i \in 1 .. k}
           At(x, S) == MatchOf(x, D, Available(taker)) /\ \A i \in DOMAIN x.fills : x.fills[i].maker \in S
<1>1. PICK c : MatchRun(c, taker, rows)
  BY MatchSteps
<1>2. /\ n \in Nat /\ DOMAIN sorted = 1 .. n /\ \A i \in 1 .. n : sorted[i] \in D
      /\ \A i, j \in 1 .. n : sorted[i] = sorted[j] => i = j
  BY SeqsCover DEF RowsMatch
<1>3. /\ c \in [0 .. n -> MatchStates(D)] /\ c[n] = match
      /\ c[0] = [left |-> Available(taker), usdc |-> 0, fills |-> <<>>]
      /\ \A k \in 0 .. n - 1 : c[k + 1] = MatchNext(rows, c[k], sorted[k + 1])
  BY <1>1 DEF MatchRun
<1> HIDE DEF n, sorted, D
<1>4. At(c[0], Done(0))
  <2>1. Available(taker) \in Nat
    BY DEF RowsMatch, RowInv, OrderRow, Available
  <2>2. Filled(<<>>) = 0
    BY TotalZero DEF Filled
  <2>3. c[0].fills = <<>> /\ c[0].left = Available(taker) /\ c[0] \in MatchStates(D) /\ DOMAIN <<>> = {}
    BY <1>2, <1>3
  <2>4. QED
    BY <2>1, <2>2, <2>3 DEF MatchOf
<1>5. ASSUME NEW k \in 0 .. n - 1, At(c[k], Done(k)) PROVE At(c[k + 1], Done(k + 1))
  <2> DEFINE h == sorted[k + 1]
             x == c[k]
             y == c[k + 1]
             S == Done(k)
  <2>1. k \in 0 .. n /\ k + 1 \in 0 .. n /\ k + 1 \in 1 .. n /\ 1 .. k + 1 = (1 .. k) \cup {k + 1}
    BY <1>2
  <2>2. Done(k + 1) = S \cup {h}
    BY <2>1
  <2>3. h \notin S
    <3>1. \A i \in 1 .. k : i \in 1 .. n /\ i # k + 1
      BY <1>2, <2>1
    <3>2. QED
      BY <3>1, <2>1, <1>2
  <2>4. h \in D /\ x \in MatchStates(D) /\ y \in MatchStates(D) /\ y = MatchNext(rows, x, h)
    BY <1>2, <1>3, <2>1
  <2> HIDE DEF h, x, y, S, Done
  <2>5. y = x \/ \E e \in FillRow(D) : /\ e.maker = h /\ y.fills = Append(x.fills, e)
                                       /\ y.left = x.left - e.amount
    BY <2>4, MatchNextState DEF D
  <2>6. At(x, S)
    BY <1>5 DEF x, S
  <2>7. CASE y = x
    <3>1. At(y, S \cup {h})
      BY <2>6, <2>7
    <3>2. QED
      BY <3>1, <2>2 DEF y
  <2>8. CASE \E e \in FillRow(D) : /\ e.maker = h /\ y.fills = Append(x.fills, e)
                                   /\ y.left = x.left - e.amount
    <3>1. PICK e \in FillRow(D) : /\ e.maker = h /\ y.fills = Append(x.fills, e)
                                  /\ y.left = x.left - e.amount
      BY <2>8
    <3> DEFINE fills == x.fills
               m == Len(fills)
               more == Append(fills, e)
    <3>2. /\ fills \in Seq(FillRow(D)) /\ x.left \in Nat /\ e.amount \in Nat
          /\ \A i, j \in DOMAIN fills : fills[i].maker = fills[j].maker => i = j
          /\ x.left + Filled(fills) = Available(taker)
          /\ \A i \in DOMAIN fills : fills[i].maker \in S
      BY <2>6 DEF MatchOf, MatchStates, FillRow
    <3>3. /\ m \in Nat /\ DOMAIN fills = 1 .. m /\ DOMAIN more = 1 .. m + 1
          /\ more[m + 1] = e /\ \A i \in 1 .. m : more[i] = fills[i]
      BY <3>2
    <3>4. Filled(fills) \in Nat /\ Filled(more) = Filled(fills) + e.amount
      BY <3>2, FilledAppend
    <3> HIDE DEF fills, m, more
    <3>5. \A i \in 1 .. m + 1 : i \in 1 .. m \/ i = m + 1
      BY <3>3
    <3>6. \A i, j \in DOMAIN more : more[i].maker = more[j].maker => i = j
      BY <3>1, <3>2, <3>3, <3>5, <2>3
    <3>7. \A i \in DOMAIN more : more[i].maker \in S \cup {h}
      BY <3>1, <3>2, <3>3, <3>5
    <3>8. y.left + Filled(more) = Available(taker)
      <4> DEFINE a == Filled(fills)
                 b == Filled(more)
                 l == x.left
                 v == Available(taker)
      <4>1. a \in Nat /\ b = a + e.amount /\ l \in Nat /\ l + a = v /\ y.left = l - e.amount /\ e.amount \in Nat
        BY <3>1, <3>2, <3>4
      <4> HIDE DEF a, b, l, v
      <4>2. y.left + b = v
        BY <4>1
      <4>3. QED
        BY <4>2 DEF b, v
    <3>9. y.fills = more
      BY <3>1 DEF more, fills
    <3>10. At(y, S \cup {h})
      BY <3>6, <3>7, <3>8, <3>9, <2>4 DEF MatchOf
    <3>11. QED
      BY <3>10, <2>2 DEF y
  <2>9. QED
    BY <2>5, <2>7, <2>8
<1> HIDE DEF Done, At
<1>6. At(c[n], Done(n))
  <2> DEFINE G == {k \in 0 .. n : At(c[k], Done(k))}
  <2>1. 0 \in G
    BY <1>2, <1>4
  <2>2. ASSUME NEW k \in 0 .. n - 1, k \in G PROVE k + 1 \in G
    <3>1. k + 1 \in 0 .. n
      BY <1>2
    <3>2. QED
      BY <2>2, <3>1, <1>5
  <2> HIDE DEF G
  <2>3. n \in G
    BY <2>1, <2>2, <1>2, UpTo
  <2>4. QED
    BY <2>3 DEF G
<1>7. QED
  BY <1>3, <1>6 DEF At, D

-----------------------------------------------------------------------------
(* Whom a match fills: the makers in their order, each for all he has of what *)
(* those ahead of him left.                                                   *)

FillsBy(fills, g) == {i \in DOMAIN fills : fills[i].maker = g}
FilledBy(fills, g) == Total([i \in FillsBy(fills, g) |-> fills[i].amount], FillsBy(fills, g))

LEMMA FilledByAppend ==
  ASSUME NEW D, NEW fills \in Seq(FillRow(D)), NEW e \in FillRow(D), NEW g
  PROVE  /\ FilledBy(<<>>, g) = 0 /\ FilledBy(fills, g) \in Nat
         /\ FilledBy(Append(fills, e), g) = FilledBy(fills, g) + (IF g = e.maker THEN e.amount ELSE 0)
<1> DEFINE n == Len(fills)
           more == Append(fills, e)
           S == FillsBy(fills, g)
           T == FillsBy(more, g)
           f == [i \in S |-> fills[i].amount]
           m == [i \in T |-> more[i].amount]
           a == n + 1
<1>1. /\ n \in Nat /\ DOMAIN fills = 1 .. n /\ \A i \in 1 .. n : fills[i] \in FillRow(D)
      /\ DOMAIN more = (1 .. n) \cup {a} /\ more[a] = e /\ \A i \in 1 .. n : more[i] = fills[i]
      /\ a \notin 1 .. n
  OBVIOUS
<1>2. FilledBy(<<>>, g) = 0
  <2>1. FillsBy(<<>>, g) = {}
    BY DEF FillsBy
  <2>2. QED
    BY <2>1, TotalZero DEF FilledBy
<1>3. S \subseteq 1 .. n /\ IsFiniteSet(S) /\ T = S \cup (IF g = e.maker THEN {a} ELSE {}) /\ a \notin S
  <2>1. S \subseteq 1 .. n
    BY <1>1 DEF FillsBy
  <2>2. IsFiniteSet(S)
    BY <2>1, <1>1, IntervalFinite, FS_Subset
  <2>3. T = S \cup (IF g = e.maker THEN {a} ELSE {})
    <3> HIDE DEF n, more, a
    <3>1. QED
      BY <1>1 DEF FillsBy
  <2>4. QED
    BY <1>1, <2>1, <2>2, <2>3
<1>4. /\ \A i \in S : f[i] \in Nat /\ m[i] = f[i]
      /\ g = e.maker => m[a] = e.amount
      /\ e.amount \in Nat
  <2>1. \A i \in 1 .. n : fills[i].amount \in Nat
    BY <1>1 DEF FillRow
  <2>2. e.amount \in Nat
    BY DEF FillRow
  <2> HIDE DEF n, more, a, S, T
  <2>3. QED
    BY <1>1, <1>3, <2>1, <2>2
<1>5. FilledBy(fills, g) = Total(f, S) /\ FilledBy(more, g) = Total(m, T)
  BY DEF FilledBy
<1> HIDE DEF f, m, S, T, n, more, a
<1>6. Total(f, S) \in Nat /\ Total(m, S) = Total(f, S)
  BY <1>3, <1>4, TotalNat, TotalEqual
<1>7. CASE g = e.maker
  <2>1. \A i \in S \cup {a} : m[i] \in Nat
    BY <1>4, <1>7
  <2>2. Total(m, S \cup {a}) = Total(m, S) + m[a]
    <3> HIDE <1>7
    <3>1. QED
      BY <1>3, <2>1, TotalAdd
  <2>3. QED
    BY <1>2, <1>3, <1>4, <1>5, <1>6, <1>7, <2>2 DEF more
<1>8. CASE g # e.maker
  BY <1>2, <1>3, <1>5, <1>6, <1>8 DEF more
<1>9. QED
  BY <1>7, <1>8

(* A fill costs its part of the price, but for a unit up or down.             *)
LEMMA FillCosts ==
  ASSUME NEW row, row.usdcAmount \in Nat \ {0}, row.outcomeAmount \in Nat \ {0},
         NEW c \in Nat, NEW a \in Nat, NEW u, u = BuyReservation(row, c + a) - BuyReservation(row, c)
  PROVE  /\ u \in Nat
         /\ u * row.outcomeAmount <= row.usdcAmount * a + row.outcomeAmount
         /\ row.usdcAmount * a <= (u + 1) * row.outcomeAmount
<1> DEFINE d == row.outcomeAmount
           y == row.usdcAmount * a
           q == y \div d
<1>1. d \in Nat \ {0} /\ y \in Nat
  OBVIOUS
<1>2. BuyReservation(row, a) = q
  BY DEF BuyReservation
<1>3. /\ BuyReservation(row, c) \in Nat /\ BuyReservation(row, c + a) \in Nat
      /\ BuyReservation(row, c) + BuyReservation(row, a) <= BuyReservation(row, c + a)
      /\ BuyReservation(row, c + a) <= BuyReservation(row, c) + BuyReservation(row, a) + 1
  <2>1. c + a \in Nat
    OBVIOUS
  <2>2. QED
    BY <2>1, Worth
<1> HIDE DEF d, y
<1>4. q \in Nat /\ q * d <= y /\ y <= (q + 1) * d
  BY <1>1
<1> HIDE DEF q
<1>5. u \in Nat /\ q <= u /\ u <= q + 1
  BY <1>2, <1>3, <1>4
<1>6. u * d <= (q + 1) * d /\ (q + 1) * d <= (u + 1) * d /\ (q + 1) * d = q * d + d
  BY <1>1, <1>4, <1>5, Multiplied
<1> DEFINE s == u * d
           t == (q + 1) * d
           v == (u + 1) * d
           w == q * d
<1>7. s \in Nat /\ t \in Nat /\ v \in Nat /\ w \in Nat
  BY <1>1, <1>4, <1>5
<1>8. s <= t /\ t <= v /\ t = w + d /\ w <= y /\ y <= t
  BY <1>4, <1>6
<1> HIDE DEF s, t, v, w
<1>9. s <= y + d /\ y <= v
  BY <1>1, <1>7, <1>8
<1>10. QED
  BY <1>5, <1>9 DEF s, v, y, d

(* At a maker's price that crosses the taker's, a fill is within the taker's  *)
(* limit, but for a unit.                                                     *)
LEMMA CrossedLimit ==
  ASSUME NEW p \in Nat \ {0}, NEW o \in Nat \ {0}, NEW mp \in Nat \ {0}, NEW mo \in Nat \ {0},
         NEW a \in Nat \ {0}, NEW u \in Nat,
         u * mo <= mp * a + mo, mp * a <= (u + 1) * mo
  PROVE  /\ p * mo >= mp * o => u * o <= p * a + o
         /\ mp * o >= p * mo => p * a <= (u + 1) * o
<1> DEFINE x == u * o
           y == p * a + o
           l == (mp * a + mo) * o
<1>1. x \in Nat /\ y \in Nat /\ l \in Nat
  OBVIOUS
<1>2. x * mo <= l
  <2> DEFINE b == u * mo
             d == mp * a + mo
  <2>1. b \in Nat /\ d \in Nat /\ b <= d
    OBVIOUS
  <2>2. b * o = x * mo
    OBVIOUS
  <2>3. b * o <= d * o
    <3> HIDE DEF b, d
    <3>1. QED
      BY <2>1, Multiplied
  <2>4. QED
    BY <2>2, <2>3
<1>3. ASSUME p * mo >= mp * o PROVE l <= y * mo
  <2> DEFINE b == mp * o
             d == p * mo
  <2>1. b \in Nat /\ d \in Nat /\ b <= d
    BY <1>3
  <2>2. l = b * a + mo * o /\ y * mo = d * a + mo * o /\ mo * o \in Nat
    OBVIOUS
  <2> HIDE DEF b, d, l, y
  <2>3. b * a <= d * a /\ b * a \in Nat /\ d * a \in Nat
    BY <2>1, Multiplied
  <2>4. QED
    BY <2>2, <2>3
<1>4. p * mo >= mp * o => x <= y
  <2> DEFINE b == x * mo
             d == y * mo
  <2>1. SUFFICES ASSUME p * mo >= mp * o PROVE x <= y
    OBVIOUS
  <2>2. b \in Nat /\ d \in Nat /\ b <= l /\ l <= d
    BY <2>1, <1>1, <1>2, <1>3
  <2> HIDE DEF b, d, l, x, y
  <2>3. b <= d
    BY <2>2, <1>1
  <2>4. QED
    BY <2>3, <1>1, Multiplied DEF b, d
<1> DEFINE s == p * a
           t == (u + 1) * o
           k == (mp * a) * o
<1>5. s \in Nat /\ t \in Nat /\ k \in Nat
  OBVIOUS
<1>6. k <= t * mo
  <2> DEFINE b == mp * a
             d == (u + 1) * mo
  <2>1. b \in Nat /\ d \in Nat /\ b <= d
    OBVIOUS
  <2>2. d * o = t * mo
    OBVIOUS
  <2>3. b * o <= d * o
    <3> HIDE DEF b, d
    <3>1. QED
      BY <2>1, Multiplied
  <2>4. QED
    BY <2>2, <2>3
<1>7. ASSUME mp * o >= p * mo PROVE s * mo <= k
  <2> DEFINE b == p * mo
             d == mp * o
  <2>1. b \in Nat /\ d \in Nat /\ b <= d
    BY <1>7
  <2>2. s * mo = b * a /\ k = d * a
    OBVIOUS
  <2> HIDE DEF b, d, s, k
  <2>3. b * a <= d * a
    BY <2>1, Multiplied
  <2>4. QED
    BY <2>2, <2>3
<1>8. mp * o >= p * mo => s <= t
  <2> DEFINE b == s * mo
             d == t * mo
  <2>1. SUFFICES ASSUME mp * o >= p * mo PROVE s <= t
    OBVIOUS
  <2>2. b \in Nat /\ d \in Nat /\ b <= k /\ k <= d
    BY <2>1, <1>5, <1>6, <1>7
  <2> HIDE DEF b, d, k, s, t
  <2>3. b <= d
    BY <2>2, <1>5
  <2>4. QED
    BY <2>3, <1>5, Multiplied DEF b, d
<1>9. QED
  BY <1>4, <1>8

(* What maker h gives a taker who has left to fill. *)
Taken(rows, h, left) ==
  LET amount == MakerFillAmount(left, rows[h])
  IN IF IncrementalUsdcFill(rows[h], amount) = 0 THEN 0 ELSE amount

LEMMA MatchNextTakes ==
  ASSUME NEW taker, NEW rows, NEW D, RowsMatch(taker, rows, D), NEW x \in MatchStates(D),
         NEW h \in D, Crosses(taker, rows[h]), x.left <= Available(taker),
         TakerWithinLimit(taker, x), NEW y, y = MatchNext(rows, x, h),
         NEW d, d = Taken(rows, h, x.left)
  PROVE  /\ d \in Nat /\ d <= x.left /\ y.left = x.left - d
         /\ \A g : FilledBy(y.fills, g) = FilledBy(x.fills, g) + (IF g = h THEN d ELSE 0)
         /\ TakerWithinLimit(taker, y)
<1> DEFINE maker == rows[h]
           a == MakerFillAmount(x.left, maker)
           u == IncrementalUsdcFill(maker, a)
           e == [maker |-> h, amount |-> a, usdc |-> u]
           c == Confirmed(maker)
<1>1. /\ x.left \in Nat /\ x.usdc \in Nat /\ x.fills \in Seq(FillRow(D))
      /\ maker \in OrderRow /\ RowInv(maker) /\ Available(maker) \in Nat \ {0}
      /\ taker \in OrderRow /\ Available(taker) \in Nat
  BY DEF MatchStates, RowsMatch, RowInv, OrderRow, Available
<1>2. /\ maker.usdcAmount \in Nat \ {0} /\ maker.outcomeAmount \in Nat \ {0} /\ c \in Nat
      /\ taker.usdcAmount \in Nat \ {0} /\ taker.outcomeAmount \in Nat \ {0} /\ taker.side \in OrderSide
  BY <1>1, NeededNat DEF OrderRow
<1>3. a \in Nat /\ a <= x.left /\ (a = 0 <=> x.left = 0)
  BY <1>1 DEF MakerFillAmount, Smaller
<1>4. u = BuyReservation(maker, c + a) - BuyReservation(maker, c)
  BY DEF IncrementalUsdcFill
<1>5. /\ u \in Nat /\ u * maker.outcomeAmount <= maker.usdcAmount * a + maker.outcomeAmount
      /\ maker.usdcAmount * a <= (u + 1) * maker.outcomeAmount
  <2> HIDE DEF maker, a, u, c
  <2>1. QED
    BY <1>2, <1>3, <1>4, FillCosts
<1>6. a = 0 => u = 0
  <2>1. a = 0 => c + a = c
    BY <1>2
  <2>2. BuyReservation(maker, c) \in Nat
    BY <1>2, Worth
  <2>3. QED
    BY <2>1, <2>2, <1>4
<1>7. d = IF u = 0 THEN 0 ELSE a
  BY DEF Taken
<1>8. CASE u = 0
  <2>1. y = x /\ d = 0
    BY <1>7, <1>8 DEF MatchNext
  <2>2. \A g : FilledBy(x.fills, g) \in Nat
    <3>1. SUFFICES ASSUME NEW g PROVE FilledBy(x.fills, g) \in Nat
      OBVIOUS
    <3> DEFINE f == [maker |-> h, amount |-> 1, usdc |-> 1]
    <3>2. f \in FillRow(D)
      BY DEF FillRow
    <3> HIDE DEF f
    <3>3. QED
      BY <1>1, <3>2, FilledByAppend
  <2>3. QED
    BY <2>1, <2>2, <1>1
<1>9. CASE u # 0
  <2>1. a \in Nat \ {0} /\ x.left # 0 /\ d = a /\ u \in Nat \ {0}
    BY <1>3, <1>5, <1>6, <1>7, <1>9
  <2>2. y = [left |-> x.left - a, usdc |-> x.usdc + u, fills |-> Append(x.fills, e)]
    BY <2>1, <1>9 DEF MatchNext
  <2>3. e \in FillRow(D) /\ e.maker = h /\ e.amount = a
    BY <2>1 DEF FillRow
  <2>4. ASSUME NEW g PROVE FilledBy(y.fills, g) = FilledBy(x.fills, g) + (IF g = h THEN d ELSE 0)
    <3> DEFINE more == Append(x.fills, e)
    <3> HIDE DEF e, a, u
    <3>1. FilledBy(more, g) = FilledBy(x.fills, g) + (IF g = e.maker THEN e.amount ELSE 0)
      BY <1>1, <2>3, FilledByAppend
    <3>2. QED
      BY <3>1, <2>1, <2>2, <2>3
  <2>5. TakerWithinLimit(taker, y)
    <3> DEFINE p == taker.usdcAmount
               o == taker.outcomeAmount
               v == Available(taker)
               A == v - x.left
               B == v - y.left
               U == x.usdc
               L == Len(x.fills)
    <3>1. y.usdc = U + u /\ Len(y.fills) = L + 1 /\ y.left = x.left - a /\ L \in Nat
      <4> HIDE DEF a, u
      <4>1. Len(Append(x.fills, e)) = Len(x.fills) + 1
        BY <1>1, <2>3
      <4>2. QED
        BY <4>1, <2>2, <1>1
    <3>2. A \in Nat /\ B \in Nat /\ B = A + a /\ U \in Nat /\ p \in Nat \ {0} /\ o \in Nat \ {0}
      BY <1>1, <1>2, <1>3, <3>1
    <3>3. /\ TakerWithinLimit(taker, x) <=>
                IF taker.side = "BUY" THEN U * o <= p * A + L * o ELSE (U + L) * o >= p * A
          /\ TakerWithinLimit(taker, y) <=>
                IF taker.side = "BUY" THEN (U + u) * o <= p * B + (L + 1) * o
                ELSE ((U + u) + (L + 1)) * o >= p * B
      BY <3>1 DEF TakerWithinLimit
    <3> DEFINE mp == maker.usdcAmount
               mo == maker.outcomeAmount
    <3>4. IF taker.side = "BUY" THEN p * mo >= mp * o ELSE mp * o >= p * mo
      BY DEF Crosses, BuyPriceCrossesSellPrice
    <3>5. /\ u * mo <= mp * a + mo /\ mp * a <= (u + 1) * mo
          /\ mp \in Nat \ {0} /\ mo \in Nat \ {0}
      BY <1>2, <1>5
    <3> HIDE DEF p, o, v, A, B, U, L, mp, mo, a, u, maker
    <3>6. /\ p * mo >= mp * o => u * o <= p * a + o
          /\ mp * o >= p * mo => p * a <= (u + 1) * o
      BY <2>1, <3>2, <3>5, CrossedLimit
    <3>7. /\ p * B = p * A + p * a /\ (U + u) * o = U * o + u * o /\ (L + 1) * o = L * o + o
          /\ ((U + u) + (L + 1)) * o = (U + L) * o + (u + 1) * o
      BY <2>1, <3>1, <3>2
    <3> DEFINE pB == p * B
               pA == p * A
               pa == p * a
               s1 == (U + u) * o
               s2 == U * o
               s3 == u * o
               l1 == (L + 1) * o
               l2 == L * o
               t1 == ((U + u) + (L + 1)) * o
               t2 == (U + L) * o
               t3 == (u + 1) * o
    <3>8. /\ pB \in Nat /\ pA \in Nat /\ pa \in Nat /\ s1 \in Nat /\ s2 \in Nat /\ s3 \in Nat
          /\ l1 \in Nat /\ l2 \in Nat /\ t1 \in Nat /\ t2 \in Nat /\ t3 \in Nat
      BY <2>1, <3>1, <3>2
    <3>9. pB = pA + pa /\ s1 = s2 + s3 /\ l1 = l2 + o /\ t1 = t2 + t3
      BY <3>7
    <3>10. CASE taker.side = "BUY"
      <4>1. s2 <= pA + l2 /\ s3 <= pa + o
        BY <3>3, <3>4, <3>6, <3>10
      <4> HIDE DEF pB, pA, pa, s1, s2, s3, l1, l2, t1, t2, t3
      <4>2. s1 <= pB + l1
        BY <4>1, <3>2, <3>8, <3>9
      <4>3. QED
        BY <4>2, <3>3, <3>10 DEF s1, pB, l1
    <3>11. CASE taker.side # "BUY"
      <4>1. t2 >= pA /\ pa <= t3
        BY <3>3, <3>4, <3>6, <3>11
      <4> HIDE DEF pB, pA, pa, s1, s2, s3, l1, l2, t1, t2, t3
      <4>2. t1 >= pB
        BY <4>1, <3>8, <3>9
      <4>3. QED
        BY <4>2, <3>3, <3>11 DEF t1, pB
    <3>12. QED
      BY <3>10, <3>11
  <2>6. QED
    BY <2>1, <2>2, <2>4, <2>5, <1>3
<1>10. QED
  BY <1>8, <1>9

(* Round i of a run leaves what maker i did not take; he is in no other.     *)
RoundsTake(c, n, sorted, rows) ==
  \A i \in 1 .. n : /\ FilledBy(c[n].fills, sorted[i]) = Taken(rows, sorted[i], c[i - 1].left)
                     /\ c[i].left = c[i - 1].left - FilledBy(c[n].fills, sorted[i])
                     /\ FilledBy(c[n].fills, sorted[i]) \in Nat

LEMMA MatchTakes ==
  ASSUME NEW taker, NEW rows, RowsMatch(taker, rows, MatchCandidates(taker, rows)),
         MatchOrder(taker, rows) \in SetToSeqs(MatchCandidates(taker, rows)),
         NEW c, MatchRun(c, taker, rows)
  PROVE  /\ RoundsTake(c, Len(MatchOrder(taker, rows)), MatchOrder(taker, rows), rows)
         /\ TakerWithinLimit(taker, MatchTakerOrder(taker, rows))
<1> DEFINE D == MatchCandidates(taker, rows)
           sorted == MatchOrder(taker, rows)
           n == Len(sorted)
           v == Available(taker)
           t == [i \in 1 .. n |-> Taken(rows, sorted[i], c[i - 1].left)]
           At(k) == /\ c[k].left <= v /\ TakerWithinLimit(taker, c[k])
                    /\ \A i \in 1 .. n : FilledBy(c[k].fills, sorted[i]) = IF i <= k THEN t[i] ELSE 0
<1>1. /\ n \in Nat /\ DOMAIN sorted = 1 .. n /\ \A i \in 1 .. n : sorted[i] \in D
      /\ \A i, j \in 1 .. n : sorted[i] = sorted[j] => i = j
  BY SeqsCover DEF RowsMatch
<1>2. /\ c \in [0 .. n -> MatchStates(D)] /\ c[n] = MatchTakerOrder(taker, rows)
      /\ c[0] = [left |-> v, usdc |-> 0, fills |-> <<>>]
      /\ \A k \in 0 .. n - 1 : c[k + 1] = MatchNext(rows, c[k], sorted[k + 1])
  BY DEF MatchRun
<1>3. \A h \in D : Crosses(taker, rows[h])
  BY DEF MatchCandidates, CanMatchCandidate
<1>4. v \in Nat /\ RowsMatch(taker, rows, D) /\ taker.usdcAmount \in Nat /\ taker.outcomeAmount \in Nat
  BY DEF RowsMatch, RowInv, OrderRow, Available
<1>5. \A i \in 1 .. n : t[i] = Taken(rows, sorted[i], c[i - 1].left)
  OBVIOUS
<1> HIDE DEF n, sorted, D, v, t
<1>6. At(0)
  <2>1. c[0].left = v /\ c[0].usdc = 0 /\ c[0].fills = <<>> /\ Len(<<>>) = 0
    BY <1>2
  <2>2. TakerWithinLimit(taker, c[0])
    <3>1. v - v = 0 /\ taker.usdcAmount * 0 = 0 /\ 0 * taker.outcomeAmount = 0 /\ 0 + 0 = 0
      BY <1>4
    <3>2. QED
      BY <2>1, <3>1 DEF TakerWithinLimit, v
  <2>3. ASSUME NEW i \in 1 .. n PROVE FilledBy(c[0].fills, sorted[i]) = 0 /\ ~ (i <= 0)
    <3>1. FillsBy(<<>>, sorted[i]) = {}
      BY DEF FillsBy
    <3>2. FilledBy(<<>>, sorted[i]) = 0
      BY <3>1, TotalZero DEF FilledBy
    <3>3. QED
      BY <2>1, <3>2, <1>1
  <2>4. QED
    BY <2>1, <2>2, <2>3, <1>4
<1>7. ASSUME NEW k \in 0 .. n - 1, At(k) PROVE At(k + 1) /\ c[k + 1].left = c[k].left - t[k + 1] /\ t[k + 1] \in Nat
  <2> DEFINE h == sorted[k + 1]
             x == c[k]
             y == c[k + 1]
             d == t[k + 1]
  <2>1. k \in 0 .. n /\ k + 1 \in 0 .. n /\ k + 1 \in 1 .. n /\ (k + 1) - 1 = k /\ k \in Nat
    BY <1>1
  <2>2. /\ h \in D /\ x \in MatchStates(D) /\ y = MatchNext(rows, x, h) /\ d = Taken(rows, h, x.left)
        /\ Crosses(taker, rows[h]) /\ x.left <= Available(taker) /\ TakerWithinLimit(taker, x)
    BY <1>1, <1>2, <1>3, <1>5, <1>7, <2>1 DEF v
  <2>3. x.left \in Nat
    BY <2>2 DEF MatchStates
  <2> HIDE DEF h, x, y, d, At
  <2>4. /\ d \in Nat /\ d <= x.left /\ y.left = x.left - d
        /\ \A g : FilledBy(y.fills, g) = FilledBy(x.fills, g) + (IF g = h THEN d ELSE 0)
        /\ TakerWithinLimit(taker, y)
    BY <2>2, <1>4, MatchNextTakes
  <2>5. y.left <= v
    BY <2>2, <2>3, <2>4, <1>4 DEF v
  <2>6. ASSUME NEW i \in 1 .. n PROVE FilledBy(y.fills, sorted[i]) = IF i <= k + 1 THEN t[i] ELSE 0
    <3>1. FilledBy(x.fills, sorted[i]) = IF i <= k THEN t[i] ELSE 0
      BY <1>7 DEF At, x
    <3>2. sorted[i] = h <=> i = k + 1
      BY <1>1, <2>1 DEF h
    <3>3. i \in Nat
      BY <1>1
    <3>4. CASE i = k + 1
      BY <3>1, <3>2, <3>4, <2>1, <2>4 DEF d
    <3>5. CASE i # k + 1 /\ i <= k
      <4>1. t[i] \in Nat
        <5>1. FilledBy(x.fills, sorted[i]) \in Nat
          <6> DEFINE f == [maker |-> h, amount |-> 1, usdc |-> 1]
          <6>1. f \in FillRow(D) /\ x.fills \in Seq(FillRow(D))
            BY <2>2 DEF FillRow, MatchStates
          <6> HIDE DEF f
          <6>2. QED
            BY <6>1, FilledByAppend
        <5>2. QED
          BY <5>1, <3>1, <3>5
      <4>2. FilledBy(y.fills, sorted[i]) = FilledBy(x.fills, sorted[i]) + 0
        BY <2>4, <3>2, <3>5
      <4>3. QED
        BY <4>1, <4>2, <3>1, <3>3, <3>5, <2>1
    <3>6. CASE i # k + 1 /\ ~ (i <= k)
      <4>1. FilledBy(y.fills, sorted[i]) = 0 + 0
        BY <2>4, <3>1, <3>2, <3>6
      <4>2. ~ (i <= k + 1)
        BY <3>3, <3>6, <2>1
      <4>3. QED
        BY <4>1, <4>2
    <3>7. QED
      BY <3>4, <3>5, <3>6
  <2>7. At(k + 1)
    BY <2>4, <2>5, <2>6 DEF At, y
  <2>8. QED
    BY <2>4, <2>7 DEF y, x, d
<1> HIDE DEF At
<1>8. \A k \in 0 .. n : At(k)
  <2> DEFINE G == {k \in 0 .. n : At(k)}
             Far == {m \in 0 .. n : \A k \in 0 .. m : k \in G}
  <2>1. 0 \in Far
    BY <1>1, <1>6
  <2>2. ASSUME NEW m \in 0 .. n - 1, m \in Far PROVE m + 1 \in Far
    <3>1. m \in 0 .. n /\ m + 1 \in 0 .. n /\ m \in 0 .. m /\ \A k \in 0 .. m + 1 : k \in 0 .. m \/ k = m + 1
      BY <1>1
    <3>2. At(m)
      BY <2>2, <3>1
    <3>3. At(m + 1)
      BY <3>2, <1>7
    <3>4. QED
      BY <2>2, <3>1, <3>3
  <2> HIDE DEF Far
  <2>3. n \in Far
    BY <1>1, <2>1, <2>2, UpTo
  <2>4. QED
    BY <2>3 DEF Far
<1>9. ASSUME NEW i \in 1 .. n
      PROVE  /\ FilledBy(c[n].fills, sorted[i]) = Taken(rows, sorted[i], c[i - 1].left)
             /\ c[i].left = c[i - 1].left - FilledBy(c[n].fills, sorted[i])
             /\ FilledBy(c[n].fills, sorted[i]) \in Nat
  <2>1. n \in 0 .. n /\ i - 1 \in 0 .. n - 1 /\ i - 1 \in 0 .. n /\ (i - 1) + 1 = i /\ i <= n
    BY <1>1
  <2>2. FilledBy(c[n].fills, sorted[i]) = t[i]
    BY <1>8, <2>1 DEF At
  <2>3. c[(i - 1) + 1].left = c[i - 1].left - t[(i - 1) + 1] /\ t[(i - 1) + 1] \in Nat
    BY <1>7, <1>8, <2>1
  <2>4. QED
    BY <2>1, <2>2, <2>3, <1>5
<1>10. TakerWithinLimit(taker, c[n])
  BY <1>1, <1>8 DEF At
<1>11. QED
  BY <1>2, <1>9, <1>10 DEF RoundsTake, n, sorted

LEMMA PriorityStrict ==
  ASSUME NEW taker, NEW l, NEW r, PricedRow(l), PricedRow(r), PriceTimePriority(taker, l, r)
  PROVE  ~ PriceTimePriority(taker, r, l)
<1> DEFINE a == l.usdcAmount * r.outcomeAmount
           b == r.usdcAmount * l.outcomeAmount
<1>1. a \in Nat /\ b \in Nat /\ l.acceptedSequence \in Nat /\ r.acceptedSequence \in Nat
  BY DEF PricedRow
<1>2. /\ PriceTimePriority(taker, l, r) <=>
           Cheaper(taker, l, r) \/ (AsCheap(l, r) /\ l.acceptedSequence < r.acceptedSequence)
      /\ PriceTimePriority(taker, r, l) <=>
           Cheaper(taker, r, l) \/ (AsCheap(r, l) /\ r.acceptedSequence < l.acceptedSequence)
  BY PriorityMeans
<1>3. /\ Cheaper(taker, l, r) <=> IF taker.side = "BUY" THEN a < b ELSE b < a
      /\ Cheaper(taker, r, l) <=> IF taker.side = "BUY" THEN b < a ELSE a < b
      /\ AsCheap(l, r) <=> a = b
      /\ AsCheap(r, l) <=> b = a
  BY DEF Cheaper, AsCheap
<1> HIDE DEF a, b
<1>4. QED
  BY <1>1, <1>2, <1>3

(* The loop does what BestMatch says of it: when a maker's turn comes, those *)
(* ahead of him are the makers of the rounds before.                         *)
LEMMA MatchIsBest ==
  ASSUME NEW taker, NEW rows, RowsMatch(taker, rows, MatchCandidates(taker, rows)),
         MatchOrder(taker, rows) \in SetToSeqs(MatchCandidates(taker, rows)),
         InPriority(MatchOrder(taker, rows), taker, rows),
         \A h \in MatchCandidates(taker, rows) : PricedRow(rows[h]),
         NEW o, MatchCandidates(taker, o) = MatchCandidates(taker, rows),
         \A h \in MatchCandidates(taker, rows) : o[h] = rows[h]
  PROVE  BestMatch(taker, o, MatchTakerOrder(taker, rows))
<1> DEFINE D == MatchCandidates(taker, rows)
           sorted == MatchOrder(taker, rows)
           match == MatchTakerOrder(taker, rows)
           n == Len(sorted)
           v == Available(taker)
           F == [h \in D |-> FilledBy(match.fills, h)]
           Done(k) == {sorted[i] : i \in 1 .. k}
           Ahead(g) == {h \in D : PriceTimePriority(taker, rows[h], rows[g])}
<1>1. /\ n \in Nat /\ DOMAIN sorted = 1 .. n /\ \A i \in 1 .. n : sorted[i] \in D
      /\ \A i, j \in 1 .. n : sorted[i] = sorted[j] => i = j
      /\ \A h \in D : \E i \in 1 .. n : sorted[i] = h
      /\ IsFiniteSet(D)
  BY SeqsCover DEF RowsMatch
<1>2. PICK c : MatchRun(c, taker, rows)
  BY MatchSteps
<1>3. /\ c \in [0 .. n -> MatchStates(D)] /\ c[n] = match
      /\ c[0] = [left |-> v, usdc |-> 0, fills |-> <<>>]
  BY <1>2 DEF MatchRun
<1>4. RoundsTake(c, n, sorted, rows) /\ TakerWithinLimit(taker, match)
  BY <1>2, MatchTakes
<1>5. v \in Nat /\ \A h \in D : Available(rows[h]) \in Nat
  BY DEF RowsMatch, RowInv, OrderRow, Available
<1>6. \A k \in 0 .. n : c[k].left \in Nat
  BY <1>3 DEF MatchStates
<1>7. \A h \in D : F[h] = FilledBy(match.fills, h) /\ F[h] \in Nat
  BY <1>1, <1>3, <1>4 DEF RoundsTake
<1>8. \A h \in D : PricedRow(rows[h]) /\ o[h] = rows[h]
  OBVIOUS
<1>9. InPriority(sorted, taker, rows)
  OBVIOUS
<1> HIDE DEF n, v, F, D, sorted, match
<1>10. ASSUME NEW k \in 0 .. n - 1
      PROVE  /\ Total(F, Done(k + 1)) = Total(F, Done(k)) + F[sorted[k + 1]]
             /\ Total(F, Done(k)) \in Nat
  <2> DEFINE S == Done(k)
             h == sorted[k + 1]
  <2>1. /\ 1 .. k + 1 = (1 .. k) \cup {k + 1} /\ k + 1 \in 1 .. n
        /\ \A i \in 1 .. k : i \in 1 .. n /\ i # k + 1
    BY <1>1
  <2>2. Done(k + 1) = S \cup {h} /\ S \subseteq D /\ h \in D
    BY <2>1, <1>1
  <2>3. h \notin S
    BY <2>1, <1>1
  <2>4. IsFiniteSet(S) /\ \A g \in S \cup {h} : F[g] \in Nat
    BY <2>2, <1>1, <1>7, FS_Subset
  <2> HIDE DEF S, h, Done
  <2>5. Total(F, S \cup {h}) = Total(F, S) + F[h]
    BY <2>3, <2>4, TotalAdd
  <2>6. Total(F, S) \in Nat
    BY <2>4, TotalNat
  <2>7. QED
    BY <2>2, <2>5, <2>6 DEF S, h
<1>11. \A k \in 0 .. n : c[k].left = v - Total(F, Done(k)) /\ Total(F, Done(k)) \in Nat
  <2> DEFINE At(k) == c[k].left = v - Total(F, Done(k)) /\ Total(F, Done(k)) \in Nat
             Far == {m \in 0 .. n : \A k \in 0 .. m : At(k)}
  <2>1. At(0)
    <3>1. Done(0) = {} /\ Total(F, {}) = 0 /\ c[0].left = v
      BY <1>3, TotalZero
    <3>2. QED
      BY <3>1, <1>5
  <2>2. ASSUME NEW k \in 0 .. n - 1, At(k) PROVE At(k + 1)
    <3>1. k + 1 \in 1 .. n /\ k + 1 \in 0 .. n /\ (k + 1) - 1 = k /\ sorted[k + 1] \in D
      BY <1>1
    <3>2. c[k + 1].left = c[k].left - F[sorted[k + 1]] /\ F[sorted[k + 1]] \in Nat
      <4>1. c[k + 1].left = c[(k + 1) - 1].left - FilledBy(c[n].fills, sorted[k + 1])
        BY <3>1, <1>4 DEF RoundsTake
      <4>2. QED
        BY <4>1, <3>1, <1>3, <1>7
    <3> HIDE DEF Done
    <3>3. QED
      BY <2>2, <3>2, <1>5, <1>10
  <2> HIDE DEF At
  <2>3. 0 \in Far
    BY <2>1, <1>1
  <2>4. ASSUME NEW m \in 0 .. n - 1, m \in Far PROVE m + 1 \in Far
    <3>1. m + 1 \in 0 .. n /\ m \in 0 .. m /\ \A k \in 0 .. m + 1 : k \in 0 .. m \/ k = m + 1
      BY <1>1
    <3>2. At(m + 1)
      BY <2>4, <3>1, <2>2
    <3>3. QED
      BY <2>4, <3>1, <3>2
  <2> HIDE DEF Far
  <2>5. n \in Far
    BY <1>1, <2>3, <2>4, UpTo
  <2>6. QED
    BY <2>5 DEF Far, At
<1>12. ASSUME NEW k \in 1 .. n PROVE Ahead(sorted[k]) = Done(k - 1)
  <2> DEFINE g == sorted[k]
  <2>1. /\ g \in D /\ \A i \in 1 .. k - 1 : i \in 1 .. n /\ i < k
        /\ \A i \in 1 .. n : i \in 1 .. k - 1 \/ i = k \/ k < i
    BY <1>1
  <2>2. \A i, j \in 1 .. n : i < j => PriceTimePriority(taker, rows[sorted[i]], rows[sorted[j]])
    BY <1>1, <1>9 DEF InPriority
  <2>3. ASSUME NEW h \in D, PriceTimePriority(taker, rows[h], rows[g]) PROVE h \in Done(k - 1)
    <3>1. PICK j \in 1 .. n : sorted[j] = h
      BY <1>1
    <3>2. ~ PriceTimePriority(taker, rows[g], rows[h])
      BY <2>1, <2>3, <1>8, PriorityStrict
    <3>3. j # k
      BY <2>3, <3>1, <3>2
    <3>4. ~ (k < j)
      BY <2>2, <3>1, <3>2
    <3>5. QED
      BY <2>1, <3>1, <3>3, <3>4
  <2>4. ASSUME NEW i \in 1 .. k - 1 PROVE sorted[i] \in Ahead(g)
    BY <2>1, <2>2, <1>1
  <2>5. QED
    BY <2>3, <2>4
<1>13. ASSUME NEW S \in SUBSET D
       PROVE  SumOver(S, LAMBDA h : FilledOf(match, h)) = Total(F, S)
  <2> DEFINE f == [h \in S |-> FilledOf(match, h)]
  <2>1. SumOver(S, LAMBDA h : FilledOf(match, h)) = Total(f, S)
    BY DEF SumOver
  <2>2. \A h \in S : f[h] = F[h]
    <3>1. \A h : FilledOf(match, h) = FilledBy(match.fills, h)
      BY DEF FilledOf, FilledBy, FillsBy, SumOver
    <3>2. QED
      BY <3>1, <1>7
  <2> HIDE DEF f
  <2>3. Total(f, S) = Total(F, S)
    BY <2>2, TotalEqual
  <2>4. QED
    BY <2>1, <2>3
<1> DEFINE Due(g) == Smaller(Available(o[g]), v - Total(F, Ahead(g)))
<1>14. ASSUME NEW g \in D
       PROVE  FilledOf(match, g) = IF IncrementalUsdcFill(o[g], Due(g)) = 0 THEN 0 ELSE Due(g)
  <2>1. PICK k \in 1 .. n : sorted[k] = g
    BY <1>1
  <2>2. k - 1 \in 0 .. n
    BY <1>1
  <2>3. Due(g) = Smaller(Available(rows[g]), c[k - 1].left)
    BY <2>1, <2>2, <1>8, <1>11, <1>12
  <2>4. Due(g) = MakerFillAmount(c[k - 1].left, rows[g])
    BY <2>2, <2>3, <1>5, <1>6 DEF MakerFillAmount, Smaller
  <2>5. FilledBy(match.fills, g) = Taken(rows, g, c[k - 1].left)
    BY <2>1, <1>3, <1>4 DEF RoundsTake
  <2>6. FilledOf(match, g) = FilledBy(match.fills, g)
    BY DEF FilledOf, FilledBy, FillsBy, SumOver
  <2> HIDE DEF Due
  <2>7. QED
    BY <2>4, <2>5, <2>6, <1>8 DEF Taken
<1>15. \A i \in DOMAIN match.fills : match.fills[i].maker \in D
  <2>1. match.fills \in Seq(FillRow(D))
    BY <1>1, <1>3 DEF MatchStates
  <2>2. ASSUME NEW S, NEW s \in Seq(FillRow(S)) PROVE \A i \in DOMAIN s : s[i].maker \in S
    <3>1. \A i \in DOMAIN s : s[i] \in FillRow(S)
      OBVIOUS
    <3>2. QED
      BY <3>1 DEF FillRow
  <2>3. QED
    BY <2>1, <2>2
<1>16. match.left = v - Total(F, D)
  <2>1. Done(n) = D /\ n \in 0 .. n
    BY <1>1
  <2>2. QED
    BY <2>1, <1>3, <1>11
<1> DEFINE crossing == {g \in DOMAIN o : CanMatchCandidate(taker, o[g])}
           AheadOf(g) == {h \in crossing :
                            \/ BetterPrice(taker, o[h], o[g])
                            \/ /\ ~BetterPrice(taker, o[g], o[h])
                               /\ o[h].acceptedSequence < o[g].acceptedSequence}
           DueTo(g) == Smaller(Available(o[g]),
                               Available(taker) - SumOver(AheadOf(g), LAMBDA h : FilledOf(match, h)))
<1>17. crossing = D
  BY DEF MatchCandidates, D
<1> HIDE DEF crossing
<1>18. ASSUME NEW g \in D PROVE AheadOf(g) = Ahead(g)
  BY <1>8, <1>17 DEF PriceTimePriority
<1>19. ASSUME NEW g \in D PROVE DueTo(g) = Due(g)
  <2>1. Ahead(g) \in SUBSET D
    OBVIOUS
  <2> HIDE DEF Ahead, AheadOf
  <2>2. SumOver(Ahead(g), LAMBDA h : FilledOf(match, h)) = Total(F, Ahead(g))
    BY <2>1, <1>13
  <2>3. QED
    BY <2>2, <1>18 DEF v
<1>20. match.left = Available(taker) - SumOver(crossing, LAMBDA g : FilledOf(match, g))
  BY <1>13, <1>16, <1>17 DEF v
<1> HIDE DEF AheadOf, Ahead, DueTo, Due
<1>21. \A g \in crossing : FilledOf(match, g) = IF IncrementalUsdcFill(o[g], DueTo(g)) = 0 THEN 0 ELSE DueTo(g)
  BY <1>14, <1>17, <1>19
<1>22. /\ \A i \in DOMAIN match.fills : match.fills[i].maker \in crossing
       /\ TakerWithinLimit(taker, match)
  BY <1>4, <1>15, <1>17
<1>23. QED
  BY <1>20, <1>21, <1>22 DEF BestMatch, DueTo, AheadOf, crossing, match

-----------------------------------------------------------------------------
(* The trade that is stored of a match, and the pending amounts it adds.     *)

LEMMA TradeAmount ==
  ASSUME NEW D, NEW taker, NEW match, match.fills \in Seq(FillRow(D)), NEW book
  PROVE  NewTrade(taker, match, book).amount = Filled(match.fills)
<1> DEFINE fills == match.fills
           n == Len(fills)
           f == [i \in 1 .. n |-> fills[i].amount]
           X == Nat
           base == 0
           op(x, i) == x + fills[i].amount
           step == [z \in X \X (1 .. n) |-> op(z[1], z[2])]
           Rec(g) == g = [s \in SUBSET (1 .. n) |->
                            IF s = {} THEN base ELSE op(g[s \ {Max(s)}], Max(s))]
<1>1. n \in Nat /\ DOMAIN fills = 1 .. n /\ \A i \in 1 .. n : fills[i] \in FillRow(D)
  OBVIOUS
<1>2. base \in X
  OBVIOUS
<1>3. ASSUME NEW x \in X, NEW i \in 1 .. n PROVE op(x, i) \in X
  <2>1. fills[i].amount \in Nat
    BY <1>1 DEF FillRow
  <2>2. QED
    BY <2>1
<1>4. step \in [X \X (1 .. n) -> X] /\ \A x \in X, i \in 1 .. n : step[<<x, i>>] = op(x, i)
  BY <1>3
<1>5. NewTrade(taker, match, book).amount = (CHOOSE g : Rec(g))[1 .. n]
  BY <1>1 DEF NewTrade, FoldLeft, MapThenFoldSet
<1> HIDE DEF X, base, step, op
<1>6. \E g : Rec(g)
  <2>1. PICK g \in [SUBSET (1 .. n) -> X] : IsFold(g, n, base, step)
    BY <1>1, <1>2, <1>4, FoldExists
  <2>2. ASSUME NEW s \in SUBSET (1 .. n), s # {}
        PROVE  step[<<g[s \ {Max(s)}], Max(s)>>] = op(g[s \ {Max(s)}], Max(s))
    <3>1. Max(s) \in 1 .. n /\ g[s \ {Max(s)}] \in X
      BY <1>1, <2>2, MaxInside
    <3>2. QED
      BY <3>1, <1>4
  <2>3. Rec(g)
    BY <2>1, <2>2 DEF IsFold
  <2>4. QED
    BY <2>3
<1> DEFINE g == CHOOSE e : Rec(e)
<1>7. Rec(g)
  BY <1>6
<1> HIDE DEF g
<1>8. GoesBy(g, n, X, base, step)
  <2>1. ASSUME NEW s \in SUBSET (1 .. n), s # {}, g[s \ {Max(s)}] \in X
        PROVE  g[s] = step[<<g[s \ {Max(s)}], Max(s)>>]
    <3>1. Max(s) \in 1 .. n
      BY <1>1, <2>1, MaxInside
    <3>2. QED
      BY <3>1, <1>4, <1>7, <2>1
  <2>2. g[{}] = base
    BY <1>7
  <2>3. QED
    BY <2>1, <2>2 DEF GoesBy
<1>9. RunEndsAt(g[1 .. n], n, X, base, step)
  <2> HIDE DEF Rec, n
  <2>1. QED
    BY <1>1, <1>2, <1>4, <1>8, FoldChain
<1>10. PICK c \in [0 .. n -> X] :
         /\ c[0] = base /\ c[n] = g[1 .. n]
         /\ \A k \in 0 .. n - 1 : c[k + 1] = step[<<c[k], k + 1>>]
  BY <1>9 DEF RunEndsAt
<1>11. /\ \A i \in 1 .. n : f[i] = fills[i].amount /\ f[i] \in Nat
       /\ Filled(fills) = Total(f, 1 .. n)
  <2>1. \A i \in 1 .. n : fills[i].amount \in Nat
    BY <1>1 DEF FillRow
  <2>2. QED
    BY <1>1, <2>1 DEF Filled
<1> HIDE DEF Rec, n, f, fills
<1>12. ASSUME NEW k \in 0 .. n - 1
       PROVE  /\ k \in 0 .. n /\ k + 1 \in 0 .. n /\ k + 1 \in 1 .. n
              /\ c[k + 1] = c[k] + f[k + 1] /\ c[k] \in Nat
              /\ Total(f, 1 .. k + 1) = Total(f, 1 .. k) + f[k + 1]
  <2>1. k \in 0 .. n /\ k + 1 \in 0 .. n /\ k + 1 \in 1 .. n /\ k \in Nat
    BY <1>1
  <2>2. c[k + 1] = c[k] + f[k + 1] /\ c[k] \in Nat
    <3>1. c[k] \in X /\ c[k + 1] = step[<<c[k], k + 1>>]
      BY <2>1, <1>10
    <3>2. c[k + 1] = op(c[k], k + 1)
      BY <3>1, <2>1, <1>4
    <3>3. op(c[k], k + 1) = c[k] + fills[k + 1].amount
      BY DEF op
    <3>4. f[k + 1] = fills[k + 1].amount
      BY <2>1, <1>11
    <3>5. QED
      BY <3>1, <3>2, <3>3, <3>4 DEF X
  <2> DEFINE S == 1 .. k
             a == k + 1
  <2>3. IsFiniteSet(S) /\ a \notin S /\ S \cup {a} = 1 .. k + 1 /\ \A i \in S \cup {a} : f[i] \in Nat
    BY <2>1, <1>1, <1>11, IntervalFinite
  <2> HIDE DEF S, a
  <2>4. Total(f, S \cup {a}) = Total(f, S) + f[a]
    BY <2>3, TotalAdd
  <2>5. QED
    BY <2>1, <2>2, <2>3, <2>4 DEF S, a
<1>13. c[n] = Total(f, 1 .. n)
  <2> DEFINE G == {k \in 0 .. n : c[k] = Total(f, 1 .. k)}
  <2>1. 0 \in G
    <3>1. 1 .. 0 = {} /\ Total(f, {}) = 0
      BY TotalZero
    <3>2. QED
      BY <3>1, <1>1, <1>10 DEF base
  <2>2. ASSUME NEW k \in 0 .. n - 1, k \in G PROVE k + 1 \in G
    BY <2>2, <1>12
  <2> HIDE DEF G
  <2>3. n \in G
    BY <2>1, <2>2, <1>1, UpTo
  <2>4. QED
    BY <2>3 DEF G
<1>14. QED
  BY <1>5, <1>10, <1>11, <1>13 DEF g, fills

IncreaseRun(c, table, trade) ==
  LET fills == trade.fills IN
  /\ c \in [0 .. Len(fills) -> [DOMAIN table -> OrderRow]]
  /\ c[0] = IncreaseOrderPending(table, trade.taker, trade.amount)
  /\ \A k \in 0 .. Len(fills) - 1 :
       c[k + 1] = IncreaseOrderPending(c[k], fills[k + 1].maker, fills[k + 1].amount)

LEMMA IncreaseState ==
  ASSUME NEW D, NEW o \in [D -> OrderRow], NEW h \in D, NEW amount \in Nat
  PROVE  IncreaseOrderPending(o, h, amount) \in [D -> OrderRow]
<1>1. [o[h] EXCEPT !.pending = @ + amount] \in OrderRow
  BY DEF OrderRow
<1>2. QED
  BY <1>1 DEF IncreaseOrderPending

LEMMA IncreaseSteps ==
  ASSUME NEW table, OrdersInv(table), NEW trade, TradeOfOrders(trade, table),
         NEW match, match.fills = trade.fills, trade.amount = Available(table[trade.taker]) - match.left,
         NEW end, end = IncreaseAll(table, trade.taker, match)
  PROVE  \E c : IncreaseRun(c, table, trade) /\ c[Len(trade.fills)] = end
<1> DEFINE fills == trade.fills
           n == Len(fills)
           X == [DOMAIN table -> OrderRow]
           base == IncreaseOrderPending(table, trade.taker, trade.amount)
           op(x, i) == IncreaseOrderPending(x, fills[i].maker, fills[i].amount)
           step == [z \in X \X (1 .. n) |-> op(z[1], z[2])]
           Rec(g) == g = [s \in SUBSET (1 .. n) |->
                            IF s = {} THEN base ELSE op(g[s \ {Max(s)}], Max(s))]
<1>1. /\ n \in Nat /\ DOMAIN fills = 1 .. n /\ \A i \in 1 .. n : fills[i] \in FillRow(DOMAIN table)
      /\ trade.taker \in DOMAIN table /\ trade.amount \in Nat
  BY DEF TradeOfOrders
<1>2. base \in X
  BY <1>1, IncreaseState DEF OrdersInv
<1>3. ASSUME NEW x \in X, NEW i \in 1 .. n PROVE op(x, i) \in X
  <2>1. fills[i].maker \in DOMAIN table /\ fills[i].amount \in Nat
    BY <1>1 DEF FillRow
  <2>2. QED
    BY <2>1, IncreaseState
<1>4. step \in [X \X (1 .. n) -> X] /\ \A x \in X, i \in 1 .. n : step[<<x, i>>] = op(x, i)
  BY <1>3
<1>5. end = (CHOOSE g : Rec(g))[1 .. n]
  BY <1>1 DEF IncreaseAll, FoldLeft, MapThenFoldSet
<1> HIDE DEF X, base, step, op
<1>6. \E g : Rec(g)
  <2>1. PICK g \in [SUBSET (1 .. n) -> X] : IsFold(g, n, base, step)
    BY <1>1, <1>2, <1>4, FoldExists
  <2>2. ASSUME NEW s \in SUBSET (1 .. n), s # {}
        PROVE  step[<<g[s \ {Max(s)}], Max(s)>>] = op(g[s \ {Max(s)}], Max(s))
    <3>1. Max(s) \in 1 .. n /\ g[s \ {Max(s)}] \in X
      BY <1>1, <2>2, MaxInside
    <3>2. QED
      BY <3>1, <1>4
  <2>3. Rec(g)
    BY <2>1, <2>2 DEF IsFold
  <2>4. QED
    BY <2>3
<1> DEFINE g == CHOOSE e : Rec(e)
<1>7. Rec(g)
  BY <1>6
<1> HIDE DEF g
<1>8. GoesBy(g, n, X, base, step)
  <2>1. ASSUME NEW s \in SUBSET (1 .. n), s # {}, g[s \ {Max(s)}] \in X
        PROVE  g[s] = step[<<g[s \ {Max(s)}], Max(s)>>]
    <3>1. Max(s) \in 1 .. n
      BY <1>1, <2>1, MaxInside
    <3>2. QED
      BY <3>1, <1>4, <1>7, <2>1
  <2>2. g[{}] = base
    BY <1>7
  <2>3. QED
    BY <2>1, <2>2 DEF GoesBy
<1>9. RunEndsAt(g[1 .. n], n, X, base, step)
  <2> HIDE DEF Rec, n
  <2>1. QED
    BY <1>1, <1>2, <1>4, <1>8, FoldChain
<1>10. PICK c \in [0 .. n -> X] :
         /\ c[0] = base /\ c[n] = g[1 .. n]
         /\ \A k \in 0 .. n - 1 : c[k + 1] = step[<<c[k], k + 1>>]
  BY <1>9 DEF RunEndsAt
<1> HIDE DEF Rec, n
<1>11. \A k \in 0 .. n - 1 : c[k + 1] = op(c[k], k + 1)
  <2>1. \A k \in 0 .. n - 1 : k \in 0 .. n /\ k + 1 \in 1 .. n
    BY <1>1
  <2>2. QED
    BY <2>1, <1>4, <1>10
<1>12. c[n] = end
  BY <1>5, <1>10 DEF g
<1>13. IncreaseRun(c, table, trade)
  BY <1>10, <1>11 DEF IncreaseRun, X, base, op, n
<1>14. QED
  BY <1>12, <1>13 DEF n

LEMMA AmountNat ==
  ASSUME NEW D, NEW trade, trade.fills \in Seq(FillRow(D)), trade.amount \in Nat,
         MadeByMatch(trade), EachMakerOnce(trade), NEW h
  PROVE  AmountIn(trade, h) \in Nat
<1>1. /\ AmountIn(trade, trade.taker) = trade.amount
      /\ \A i \in DOMAIN trade.fills : AmountIn(trade, trade.fills[i].maker) = trade.fills[i].amount
      /\ h \notin Reached(trade, Len(trade.fills)) => AmountIn(trade, h) = 0
  BY TradeParts
<1>2. CASE h \notin Reached(trade, Len(trade.fills))
  BY <1>1, <1>2
<1>3. CASE h = trade.taker
  BY <1>1, <1>3
<1>4. CASE h \in Reached(trade, Len(trade.fills)) /\ h # trade.taker
  <2>1. PICK i \in 1 .. Len(trade.fills) : h = trade.fills[i].maker
    BY <1>4 DEF Reached
  <2>2. i \in DOMAIN trade.fills /\ trade.fills[i] \in FillRow(D)
    BY <2>1
  <2>3. trade.fills[i].amount \in Nat
    BY <2>2 DEF FillRow
  <2>4. QED
    BY <2>1, <2>2, <2>3, <1>1
<1>5. QED
  BY <1>2, <1>3, <1>4

PendingMore(q, o, trade, S) ==
  q = [g \in DOMAIN o |-> [o[g] EXCEPT !.pending = @ + (IF g \in S THEN AmountIn(trade, g) ELSE 0)]]

LEMMA PendingMoreOne ==
  ASSUME NEW o, NEW trade, NEW S, NEW q, PendingMore(q, o, trade, S), NEW h \in DOMAIN o, h \notin S,
         o \in [DOMAIN o -> OrderRow], AmountIn(trade, h) \in Nat
  PROVE  PendingMore(IncreaseOrderPending(q, h, AmountIn(trade, h)), o, trade, S \cup {h})
<1> DEFINE p == IncreaseOrderPending(q, h, AmountIn(trade, h))
<1>1. DOMAIN q = DOMAIN o /\ \A g \in DOMAIN o :
        q[g] = [o[g] EXCEPT !.pending = @ + (IF g \in S THEN AmountIn(trade, g) ELSE 0)]
  BY DEF PendingMore
<1>2. /\ p = [g \in DOMAIN o |-> IF g = h THEN [q[h] EXCEPT !.pending = @ + AmountIn(trade, h)] ELSE q[g]]
  BY <1>1 DEF IncreaseOrderPending
<1>3. ASSUME NEW g \in DOMAIN o
      PROVE  p[g] = [o[g] EXCEPT !.pending = @ + (IF g \in S \cup {h} THEN AmountIn(trade, g) ELSE 0)]
  <2>1. CASE g # h
    BY <2>1, <1>1, <1>2
  <2>2. CASE g = h
    <3>1. o[h] \in OrderRow /\ o[h].pending + 0 = o[h].pending
      BY DEF OrderRow
    <3>2. q[h] = o[h]
      BY <1>1, <3>1 DEF OrderRow
    <3>3. QED
      BY <2>2, <3>2, <1>2
  <2>3. QED
    BY <2>1, <2>2
<1> HIDE DEF p
<1>4. p = [g \in DOMAIN o |-> p[g]]
  BY <1>2
<1>5. PendingMore(p, o, trade, S \cup {h})
  BY <1>3, <1>4 DEF PendingMore
<1>6. QED
  BY <1>5 DEF p

(* Whatever a match adds, it adds once to each order and leaves what the *)
(* order needs as it was.                                                *)
MatchedRows(q, o, trade) ==
  /\ Kept(q, o)
  /\ \A g \in DOMAIN o : /\ q[g].pending = o[g].pending + AmountIn(trade, g)
                         /\ Needed(q[g]) = Needed(o[g])
                         /\ q[g].status = o[g].status /\ q[g].remaining = o[g].remaining

LEMMA PendingSteps ==
  ASSUME NEW table, OrdersInv(table), NEW trade, TradeOfOrders(trade, table),
         NEW match, match.fills = trade.fills, trade.amount = Available(table[trade.taker]) - match.left,
         NEW end, end = IncreaseAll(table, trade.taker, match)
  PROVE  PendingMore(end, table, trade, Reached(trade, Len(trade.fills)))
<1> DEFINE fills == trade.fills
           n == Len(fills)
           D == DOMAIN table
<1>1. /\ trade.taker \in D /\ fills \in Seq(FillRow(D)) /\ trade.amount \in Nat
      /\ n \in Nat /\ DOMAIN fills = 1 .. n
      /\ MadeByMatch(trade) /\ EachMakerOnce(trade)
      /\ \A i \in 1 .. n : fills[i] \in FillRow(D)
      /\ table \in [D -> OrderRow] /\ IsFiniteSet(D)
  BY TicketsAssumption, FS_Subset DEF TradeOfOrders, OrdersInv
<1>2. PICK c : IncreaseRun(c, table, trade) /\ c[n] = end
  BY IncreaseSteps
<1>3. /\ c[0] = IncreaseOrderPending(table, trade.taker, trade.amount)
      /\ \A k \in 0 .. n - 1 : c[k + 1] = IncreaseOrderPending(c[k], fills[k + 1].maker, fills[k + 1].amount)
  BY <1>2 DEF IncreaseRun
<1>4. /\ AmountIn(trade, trade.taker) = trade.amount
      /\ \A i \in 1 .. n : AmountIn(trade, fills[i].maker) = fills[i].amount
      /\ \A h : AmountIn(trade, h) \in Nat
  BY <1>1, TradeParts, AmountNat
<1>5. PendingMore(c[0], table, trade, Reached(trade, 0))
  <2>1. PendingMore(table, table, trade, {})
    <3>1. \A g \in D : [table[g] EXCEPT !.pending = @ + 0] = table[g]
      BY <1>1 DEF OrderRow
    <3>2. \A g \in D : [table[g] EXCEPT !.pending = @ + (IF g \in {} THEN AmountIn(trade, g) ELSE 0)] = table[g]
      BY <3>1
    <3>3. table = [g \in D |-> table[g]]
      BY <1>1
    <3>4. QED
      BY <3>2, <3>3 DEF PendingMore
  <2>2. {} \cup {trade.taker} = Reached(trade, 0)
    BY DEF Reached
  <2>3. trade.taker \notin {}
    OBVIOUS
  <2>4. PendingMore(IncreaseOrderPending(table, trade.taker, AmountIn(trade, trade.taker)), table, trade,
                    {} \cup {trade.taker})
    BY <2>1, <2>3, <1>1, <1>4, PendingMoreOne
  <2>5. QED
    BY <2>2, <2>4, <1>3, <1>4
<1>6. ASSUME NEW k \in 0 .. n - 1, PendingMore(c[k], table, trade, Reached(trade, k))
      PROVE  PendingMore(c[k + 1], table, trade, Reached(trade, k + 1))
  <2> DEFINE h == fills[k + 1].maker
             S == Reached(trade, k)
             q == c[k]
  <2>1. k + 1 \in 1 .. n /\ h \in D /\ fills[k + 1].amount = AmountIn(trade, h)
    <3>1. k + 1 \in 1 .. n
      BY <1>1
    <3>2. fills[k + 1] \in FillRow(D)
      BY <1>1, <3>1
    <3>3. QED
      BY <3>1, <3>2, <1>4 DEF FillRow
  <2>2. Reached(trade, k + 1) = S \cup {h} /\ h \notin S
    BY <1>1, ReachedGrows
  <2>3. c[k + 1] = IncreaseOrderPending(q, h, AmountIn(trade, h))
    BY <1>3, <2>1
  <2>4. PendingMore(q, table, trade, S)
    BY <1>6
  <2> HIDE DEF h, S, q
  <2>5. PendingMore(IncreaseOrderPending(q, h, AmountIn(trade, h)), table, trade, S \cup {h})
    BY <2>1, <2>2, <2>4, <1>1, <1>4, PendingMoreOne
  <2>6. QED
    BY <2>2, <2>3, <2>5
<1>7. PendingMore(c[n], table, trade, Reached(trade, n))
  <2> DEFINE G == {k \in 0 .. n : PendingMore(c[k], table, trade, Reached(trade, k))}
  <2>1. 0 \in G
    BY <1>1, <1>5
  <2>2. ASSUME NEW k \in 0 .. n - 1, k \in G PROVE k + 1 \in G
    <3>1. k + 1 \in 0 .. n
      BY <1>1
    <3>2. QED
      BY <2>2, <3>1, <1>6
  <2> HIDE DEF G
  <2>3. n \in G
    BY <2>1, <2>2, <1>1, UpTo
  <2>4. QED
    BY <2>3 DEF G
<1>8. QED
  BY <1>2, <1>7

LEMMA MatchedRow ==
  ASSUME NEW row \in OrderRow, RowInv(row), NEW a \in Nat, a > 0 => row.status = "LIVE",
         row.pending + a <= row.remaining,
         NEW after, after = [row EXCEPT !.pending = @ + a]
  PROVE  /\ after \in OrderRow /\ RowInv(after) /\ Needed(after) = Needed(row)
         /\ after.pending = row.pending + a /\ after.status = row.status /\ after.remaining = row.remaining
         /\ after.acceptedSequence = row.acceptedSequence
         /\ BuildOrderReservationKey(after) = BuildOrderReservationKey(row)
<1>1. row.pending \in Nat /\ row.remaining \in Nat
  BY DEF OrderRow
<1>2. /\ after \in OrderRow /\ RowInv(after)
      /\ after.pending = row.pending + a /\ after.status = row.status /\ after.remaining = row.remaining
      /\ after.acceptedSequence = row.acceptedSequence /\ after.side = row.side
      /\ after.maker = row.maker /\ after.book = row.book
      /\ after.usdcAmount = row.usdcAmount /\ after.outcomeAmount = row.outcomeAmount
  BY <1>1 DEF OrderRow, RowInv
<1>3. BuildOrderReservationKey(after) = BuildOrderReservationKey(row)
  BY <1>2 DEF BuildOrderReservationKey, AssetOf
<1>4. Confirmed(after) = Confirmed(row) /\ \A x : BuyReservation(after, x) = BuyReservation(row, x)
  BY <1>2 DEF Confirmed, BuyReservation
<1>5. Needed(after) = Needed(row)
  <2>1. CASE row.status = "LIVE"
    BY <2>1, <1>2, <1>4 DEF Needed
  <2>2. CASE row.status # "LIVE"
    <3>1. after.pending = row.pending
      BY <2>2, <1>1, <1>2
    <3>2. QED
      BY <3>1, <1>2, <1>4 DEF Needed
  <2>3. QED
    BY <2>1, <2>2
<1>6. QED
  BY <1>2, <1>3, <1>5

LEMMA MatchedTable ==
  ASSUME NEW table, OrdersInv(table), NEW trade, TradeOfOrders(trade, table),
         NEW match, match.fills = trade.fills, trade.amount = Available(table[trade.taker]) - match.left,
         CanIncreaseAll(table, trade.taker, match),
         NEW end, end = IncreaseAll(table, trade.taker, match)
  PROVE  MatchedRows(end, table, trade)
<1> DEFINE fills == trade.fills
           n == Len(fills)
           D == DOMAIN table
<1>1. /\ trade.taker \in D /\ fills \in Seq(FillRow(D)) /\ trade.amount \in Nat
      /\ n \in Nat /\ DOMAIN fills = 1 .. n
      /\ MadeByMatch(trade) /\ EachMakerOnce(trade) /\ D \subseteq Tickets
      /\ \A g \in D : table[g] \in OrderRow /\ RowInv(table[g])
  BY DEF TradeOfOrders, OrdersInv
<1>2. /\ AmountIn(trade, trade.taker) = trade.amount
      /\ \A i \in 1 .. n : AmountIn(trade, fills[i].maker) = fills[i].amount
      /\ \A h : h \notin Reached(trade, n) => AmountIn(trade, h) = 0
      /\ \A h : AmountIn(trade, h) \in Nat
  BY <1>1, TradeParts, AmountNat
<1>3. ASSUME NEW g \in D
      PROVE  /\ AmountIn(trade, g) > 0 => table[g].status = "LIVE"
             /\ table[g].pending + AmountIn(trade, g) <= table[g].remaining
  <2>1. CASE g \notin Reached(trade, n)
    <3>1. AmountIn(trade, g) = 0 /\ table[g].pending \in Nat /\ table[g].pending <= table[g].remaining
      BY <2>1, <1>1, <1>2 DEF OrderRow, RowInv
    <3>2. QED
      BY <3>1
  <2>2. CASE g = trade.taker
    <3>1. CanIncreasePending(table, g, AmountIn(trade, g))
      BY <2>2, <1>2 DEF CanIncreaseAll
    <3>2. QED
      BY <3>1 DEF CanIncreasePending
  <2>3. CASE g \in Reached(trade, n) /\ g # trade.taker
    <3>1. PICK i \in 1 .. n : g = fills[i].maker
      BY <2>3 DEF Reached
    <3>2. CanIncreasePending(table, g, AmountIn(trade, g))
      BY <3>1, <1>1, <1>2 DEF CanIncreaseAll
    <3>3. QED
      BY <3>2 DEF CanIncreasePending
  <2>4. QED
    BY <2>1, <2>2, <2>3
<1>4. /\ end = [g \in D |-> end[g]]
      /\ \A g \in D : end[g] = [table[g] EXCEPT !.pending = @ + AmountIn(trade, g)]
  <2>1. PendingMore(end, table, trade, Reached(trade, n))
    BY PendingSteps
  <2>2. end = [g \in D |-> [table[g] EXCEPT !.pending =
                              @ + (IF g \in Reached(trade, n) THEN AmountIn(trade, g) ELSE 0)]]
    BY <2>1 DEF PendingMore
  <2>3. \A g \in D : (IF g \in Reached(trade, n) THEN AmountIn(trade, g) ELSE 0) = AmountIn(trade, g)
    BY <1>2
  <2>4. DOMAIN end = D /\ end = [g \in D |-> end[g]]
    BY <2>2
  <2>5. \A g \in D : end[g] = [table[g] EXCEPT !.pending =
                              @ + (IF g \in Reached(trade, n) THEN AmountIn(trade, g) ELSE 0)]
    BY <2>2
  <2>6. QED
    BY <2>3, <2>4, <2>5
<1>5. ASSUME NEW g \in D
      PROVE  /\ end[g] \in OrderRow /\ RowInv(end[g]) /\ Needed(end[g]) = Needed(table[g])
             /\ end[g].pending = table[g].pending + AmountIn(trade, g)
             /\ end[g].status = table[g].status /\ end[g].remaining = table[g].remaining
             /\ end[g].acceptedSequence = table[g].acceptedSequence
             /\ BuildOrderReservationKey(end[g]) = BuildOrderReservationKey(table[g])
  <2> DEFINE a == AmountIn(trade, g)
             row == table[g]
  <2>1. /\ a \in Nat /\ (a > 0 => row.status = "LIVE") /\ row.pending + a <= row.remaining
        /\ row \in OrderRow /\ RowInv(row) /\ end[g] = [row EXCEPT !.pending = @ + a]
    BY <1>1, <1>2, <1>3, <1>4
  <2> HIDE DEF a, row
  <2>2. /\ end[g] \in OrderRow /\ RowInv(end[g]) /\ Needed(end[g]) = Needed(row)
        /\ end[g].pending = row.pending + a
        /\ end[g].status = row.status /\ end[g].remaining = row.remaining
        /\ end[g].acceptedSequence = row.acceptedSequence
        /\ BuildOrderReservationKey(end[g]) = BuildOrderReservationKey(row)
    BY <2>1, MatchedRow
  <2>3. QED
    BY <2>2 DEF a, row
<1>6. OrdersInv(end) /\ DOMAIN end = D
  BY <1>1, <1>4, <1>5 DEF OrdersInv
<1>7. QED
  BY <1>5, <1>6 DEF MatchedRows, Kept

-----------------------------------------------------------------------------
(* The commit of a submission: the order, its reservation and its match.     *)

InsertLeaves(q, h, sequence) ==
  /\ OrdersInv(q) /\ DOMAIN q = DOMAIN orders \cup {h}
  /\ \A g \in DOMAIN orders : q[g] = orders[g]
  /\ q[h].status = "LIVE" /\ q[h].pending = 0 /\ q[h].acceptedSequence = sequence
  /\ q[h] \in OrderRow /\ RowInv(q[h]) /\ Available(q[h]) = Signed[h].outcomeAmount
  /\ BuildOrderReservationKey(q[h]) = ReservationKeyOf(h) /\ ReservationKeyOf(h) \in ReservationKeys
  /\ Needed(q[h]) = ReservationAmount(h) /\ ReservationAmount(h) \in Nat \ {0}

LEMMA Inserted ==
  ASSUME OrdersInv(orders), NEW h \in Tickets, h \notin DOMAIN orders, NEW tif \in {"GTC", "FAK"},
         NEW sequence \in Nat, NEW q, q = InsertOrder(orders, h, Signed[h], tif, sequence)
  PROVE  InsertLeaves(q, h, sequence)
<1> DEFINE signed == Signed[h]
           row == q[h]
<1>1. /\ signed.maker \in Makers /\ signed.side \in OrderSide /\ signed.book \in Books
      /\ signed.outcomeAmount \in Nat \ {0} /\ signed.usdcAmount \in Nat \ {0} /\ signed.expiration \in Nat
  BY TicketsAssumption
<1>2. /\ DOMAIN q = DOMAIN orders \cup {h} /\ \A g \in DOMAIN orders : q[g] = orders[g]
      /\ q = [g \in DOMAIN q |-> q[g]]
      /\ row = [maker |-> signed.maker, side |-> signed.side, book |-> signed.book,
                outcomeAmount |-> signed.outcomeAmount, usdcAmount |-> signed.usdcAmount,
                expiration |-> signed.expiration, timeInForce |-> tif,
                remaining |-> signed.outcomeAmount, pending |-> 0,
                status |-> "LIVE", acceptedSequence |-> sequence]
  BY DEF InsertOrder
<1> HIDE DEF row, signed
<1>3. row \in OrderRow
  BY <1>1, <1>2 DEF OrderRow, OrderStatus
<1>4. RowInv(row) /\ Available(row) = signed.outcomeAmount /\ Confirmed(row) = 0
  BY <1>1, <1>2 DEF RowInv, Available, Confirmed
<1>5. BuildOrderReservationKey(row) = BuildOrderReservationKey(signed)
  BY <1>2 DEF BuildOrderReservationKey, AssetOf
<1>6. BuildOrderReservationKey(signed) \in ReservationKeys
  BY <1>1 DEF BuildOrderReservationKey, AssetOf, ReservationKeys, Assets
<1>7. OrdersInv(q)
  BY <1>2, <1>3, <1>4 DEF OrdersInv, row
<1>8. Needed(row) = ReservationAmount(h) /\ ReservationAmount(h) \in Nat \ {0}
  <2>1. /\ BuyReservation(signed, signed.outcomeAmount) = signed.usdcAmount
        /\ BuyReservation(row, 0) = 0
    BY <1>1, <1>2, Worth
  <2>2. CASE row.side = "SELL"
    BY <2>2, <1>1, <1>2 DEF Needed, ReservationAmount, signed
  <2>3. CASE row.side # "SELL"
    <3>1. signed.side = "BUY"
      BY <2>3, <1>1, <1>2 DEF OrderSide
    <3>2. Needed(row) = row.usdcAmount - 0
      BY <2>1, <2>3, <1>2, <1>4 DEF Needed
    <3>3. ReservationAmount(h) = signed.usdcAmount
      BY <2>1, <3>1 DEF ReservationAmount, signed
    <3>4. QED
      BY <3>2, <3>3, <1>1, <1>2
  <2>4. QED
    BY <2>2, <2>3
<1>9. QED
  BY <1>2, <1>3, <1>4, <1>5, <1>6, <1>7, <1>8 DEF row, signed, ReservationKeyOf, InsertLeaves

(* What an accepted submission may commit: it has matched orders that are *)
(* rows of the table, and not its own.                                    *)
AcceptedFrom(s, o) ==
  /\ s.order \in Tickets /\ s.timeInForce \in {"GTC", "FAK"} /\ s.sequence \in Nat
  /\ \E D \in SUBSET (DOMAIN o \ {s.order}) : MatchOf(s.match, D, Signed[s.order].outcomeAmount)

LEMMA TradeStored ==
  ASSUME NEW o, NEW s, AcceptedFrom(s, o), NEW q, DOMAIN q = DOMAIN o \cup {s.order},
         Available(q[s.order]) = Signed[s.order].outcomeAmount,
         NEW trade, trade = NewTrade(s.order, s.match, Signed[s.order].book)
  PROVE  /\ TradeOfOrders(trade, q) /\ trade.fills = s.match.fills /\ trade.taker = s.order
         /\ trade.amount = Available(q[trade.taker]) - s.match.left
         /\ trade.status = "MATCHED"
<1> DEFINE fills == s.match.fills
           a == Signed[s.order].outcomeAmount
<1>1. PICK D \in SUBSET (DOMAIN o \ {s.order}) : MatchOf(s.match, D, a)
  BY DEF AcceptedFrom
<1>2. /\ s.match.left \in Nat /\ fills \in Seq(FillRow(D)) /\ s.match.left + Filled(fills) = a
      /\ \A i, j \in DOMAIN fills : fills[i].maker = fills[j].maker => i = j
  BY <1>1 DEF MatchOf, MatchStates
<1>3. /\ trade.taker = s.order /\ trade.fills = fills /\ trade.status = "MATCHED"
      /\ trade.amount = Filled(fills)
  <2> DEFINE match == s.match
             book == Signed[s.order].book
             taker == s.order
  <2>1. match.fills \in Seq(FillRow(D)) /\ trade = NewTrade(taker, match, book)
    BY <1>2
  <2> HIDE DEF match, book, taker
  <2>2. NewTrade(taker, match, book).amount = Filled(match.fills)
    BY <2>1, TradeAmount
  <2>3. trade.taker = taker /\ trade.fills = match.fills /\ trade.status = "MATCHED"
    <3>1. PICK amount : trade = [taker |-> taker, fills |-> match.fills, book |-> book, amount |-> amount,
                                 usdc |-> match.usdc, status |-> "MATCHED", tx |-> NoTx]
      BY <2>1, Zenon DEF NewTrade
    <3>2. QED
      BY <3>1
  <2>4. QED
    BY <2>1, <2>2, <2>3 DEF match, taker
<1>4. Filled(fills) \in Nat
  <2>1. IsFiniteSet(DOMAIN fills) /\ \A i \in DOMAIN fills : fills[i].amount \in Nat
    <3>1. DOMAIN fills = 1 .. Len(fills) /\ Len(fills) \in Nat /\ \A i \in DOMAIN fills : fills[i] \in FillRow(D)
      BY <1>2
    <3>2. QED
      BY <3>1, IntervalFinite DEF FillRow
  <2> HIDE DEF fills
  <2>2. QED
    BY <2>1, TotalNat DEF Filled
<1>5. fills \in Seq(FillRow(DOMAIN q))
  <2> DEFINE S == FillRow(D)
             T == FillRow(DOMAIN q)
  <2>1. S \subseteq T /\ fills \in Seq(S)
    BY <1>2 DEF FillRow
  <2> HIDE DEF S, T, fills
  <2>2. fills \in Seq(T)
    BY <2>1
  <2>3. QED
    BY <2>2 DEF T
<1>6. MadeByMatch(trade)
  <2>1. \A i \in DOMAIN fills : fills[i] \in FillRow(D)
    BY <1>2
  <2>2. \A i \in DOMAIN fills : fills[i].maker # s.order
    BY <2>1 DEF FillRow
  <2>3. QED
    BY <2>2, <1>3 DEF MadeByMatch, SumOver, Filled
<1>7. EachMakerOnce(trade)
  BY <1>2, <1>3 DEF EachMakerOnce
<1>8. trade.amount = Available(q[trade.taker]) - s.match.left
  <2> DEFINE v == Filled(fills)
             l == s.match.left
  <2>1. v \in Nat /\ l \in Nat /\ l + v = a
    BY <1>2, <1>4
  <2> HIDE DEF v, l, a
  <2>2. v = a - l
    BY <2>1
  <2>3. QED
    BY <2>2, <1>3 DEF v, l, a
<1>9. QED
  BY <1>3, <1>4, <1>5, <1>6, <1>7, <1>8 DEF TradeOfOrders

TradeFrom(s) == NewTrade(s.order, s.match, Signed[s.order].book)
HasMatched(s) == s.match.fills # <<>>
CommitLeaves(q, u, s) ==
  /\ OrdersInv(q) /\ DOMAIN q = DOMAIN orders \cup {s.order} /\ u \in ReservationTables
  /\ \A g \in DOMAIN orders : /\ q[g].acceptedSequence = orders[g].acceptedSequence
                              /\ BuildOrderReservationKey(q[g]) = BuildOrderReservationKey(orders[g])
  /\ q[s.order].acceptedSequence = s.sequence
  /\ BuildOrderReservationKey(q[s.order]) = ReservationKeyOf(s.order)
  /\ \A g \in DOMAIN q : q[g].pending = (IF g = s.order THEN 0 ELSE orders[g].pending)
                                          + (IF HasMatched(s) THEN AmountIn(TradeFrom(s), g) ELSE 0)
  /\ NoSpareLost(q, u, orders, reservations)
  /\ \A k : GetReservation(u, k) <= GetReservation(reservations, k)
                                      + (IF k = ReservationKeyOf(s.order) THEN ReservationAmount(s.order) ELSE 0)
  /\ HasMatched(s) => TradeOfOrders(TradeFrom(s), q)

LEMMA Committed ==
  ASSUME OrdersInv(orders), reservations \in ReservationTables, NEW s, AcceptedFrom(s, orders),
         NEW h, h = s.order, h \notin DOMAIN orders, NEW key, key = ReservationKeyOf(h),
         NEW I, I = InsertOrder(orders, h, Signed[h], s.timeInForce, s.sequence),
         HasMatched(s) => CanIncreaseAll(I, h, s.match),
         NEW T, T = IF HasMatched(s) THEN IncreaseAll(I, h, s.match) ELSE I,
         NEW R, R = IncreaseReservation(reservations, key, ReservationAmount(h)),
         NEW fak \in BOOLEAN,
         NEW q, q = IF fak THEN CancelOrderAvailableRemainder(T, h) ELSE T,
         NEW u, u = IF fak THEN ReleaseRemainder(R, key, AvailableRemainderRelease(T[h])) ELSE R
  PROVE  CommitLeaves(q, u, s)
<1> DEFINE trade == TradeFrom(s)
           amount == ReservationAmount(h)
<1>1. h \in Tickets /\ s.timeInForce \in {"GTC", "FAK"} /\ s.sequence \in Nat
  BY DEF AcceptedFrom
<1>2. /\ OrdersInv(I) /\ DOMAIN I = DOMAIN orders \cup {h}
      /\ \A g \in DOMAIN orders : I[g] = orders[g]
      /\ I[h].status = "LIVE" /\ I[h].pending = 0 /\ I[h].acceptedSequence = s.sequence
      /\ I[h] \in OrderRow /\ RowInv(I[h]) /\ Available(I[h]) = Signed[h].outcomeAmount
      /\ BuildOrderReservationKey(I[h]) = key /\ key \in ReservationKeys
      /\ Needed(I[h]) = amount /\ amount \in Nat \ {0}
  <2> DEFINE tif == s.timeInForce
             sequence == s.sequence
  <2>1. tif \in {"GTC", "FAK"} /\ sequence \in Nat /\ I = InsertOrder(orders, h, Signed[h], tif, sequence)
    BY <1>1
  <2> HIDE DEF tif, sequence
  <2>2. InsertLeaves(I, h, sequence)
    BY <2>1, <1>1, Inserted
  <2>3. QED
    BY <2>2 DEF sequence, InsertLeaves
<1> HIDE DEF amount
<1>3. /\ R \in ReservationTables /\ key \in DOMAIN R
      /\ \A k : GetReservation(R, k) = GetReservation(reservations, k) + (IF k = key THEN amount ELSE 0)
  BY <1>2, IncreaseAdds DEF amount
<1>4. \A k : NeededIn(I, k) = NeededIn(orders, k) + (IF k = key THEN amount ELSE 0)
  <2>1. \A k : NeededIn(I, k) =
           NeededIn(orders, k) + (IF k = BuildOrderReservationKey(I[h]) THEN Needed(I[h]) ELSE 0)
    BY <1>2, NeededNew
  <2>2. QED
    BY <2>1, <1>2
<1>5. /\ TradeOfOrders(trade, I) /\ trade.fills = s.match.fills /\ trade.taker = h
      /\ trade.amount = Available(I[trade.taker]) - s.match.left
  <2>1. /\ trade = NewTrade(s.order, s.match, Signed[s.order].book)
        /\ DOMAIN I = DOMAIN orders \cup {s.order}
        /\ Available(I[s.order]) = Signed[s.order].outcomeAmount
    BY <1>2 DEF TradeFrom
  <2> HIDE DEF trade
  <2>2. /\ TradeOfOrders(trade, I) /\ trade.fills = s.match.fills /\ trade.taker = s.order
        /\ trade.amount = Available(I[trade.taker]) - s.match.left
    BY <2>1, TradeStored
  <2>3. QED
    BY <2>2
<1> HIDE DEF trade
<1>6. /\ Kept(T, I)
      /\ \A g \in DOMAIN I : /\ T[g].pending = I[g].pending + (IF HasMatched(s) THEN AmountIn(trade, g) ELSE 0)
                             /\ Needed(T[g]) = Needed(I[g]) /\ T[g].status = I[g].status
  <2>1. CASE HasMatched(s)
    <3> DEFINE match == s.match
    <3>1. /\ match.fills = trade.fills /\ trade.amount = Available(I[trade.taker]) - match.left
          /\ CanIncreaseAll(I, trade.taker, match) /\ T = IncreaseAll(I, trade.taker, match)
      BY <2>1, <1>5
    <3> HIDE DEF match
    <3>2. MatchedRows(T, I, trade)
      BY <3>1, <1>2, <1>5, MatchedTable
    <3>3. QED
      BY <3>2, <2>1 DEF MatchedRows
  <2>2. CASE ~HasMatched(s)
    <3>1. T = I /\ \A g \in DOMAIN I : I[g].pending \in Nat
      BY <2>2, <1>2 DEF OrdersInv, OrderRow
    <3>2. QED
      BY <3>1, <2>2, <1>2 DEF Kept
  <2>3. QED
    BY <2>1, <2>2
<1>7. /\ OrdersInv(T) /\ DOMAIN T = DOMAIN I
      /\ \A g \in DOMAIN I : /\ T[g].acceptedSequence = I[g].acceptedSequence
                             /\ BuildOrderReservationKey(T[g]) = BuildOrderReservationKey(I[g])
  BY <1>6 DEF Kept
<1>8. \A k : NeededIn(T, k) = NeededIn(I, k)
  BY <1>6, <1>7, NeededSame
<1>9. NoSpareLost(T, R, orders, reservations)
  <2>1. SUFFICES ASSUME NEW k PROVE Spare(T, R, k) >= Spare(orders, reservations, k)
    BY DEF NoSpareLost
  <2> DEFINE a == NeededIn(orders, k)
             b == GetReservation(reservations, k)
             d == IF k = key THEN amount ELSE 0
  <2>2. a \in Nat /\ b \in Nat /\ d \in Nat
    BY <1>2, NeededInNat, ReservedNat
  <2>3. Spare(orders, reservations, k) = b - a
    BY DEF Spare
  <2>4. Spare(T, R, k) = (b + d) - (a + d)
    BY <1>3, <1>4, <1>8 DEF Spare
  <2> HIDE DEF a, b, d
  <2>5. QED
    BY <2>2, <2>3, <2>4
<1>10. /\ EndLeaves(q, u, T, R)
       /\ DOMAIN q = DOMAIN T
  <2>1. CASE fak
    <3> DEFINE release == AvailableRemainderRelease(T[h])
               status == "CANCELLED"
    <3>1. h \in DOMAIN T /\ T[h].status = "LIVE" /\ BuildOrderReservationKey(T[h]) = key
      BY <1>2, <1>6, <1>7
    <3>2. q = Ending(T, h, status) /\ u = ReleaseRemainder(R, key, release)
      BY <2>1 DEF CancelOrderAvailableRemainder, Ending
    <3>3. CanReleaseRemainder(R, key, release)
      <4> DEFINE ended == [T[h] EXCEPT !.status = status]
      <4>1. T[h] \in OrderRow /\ RowInv(T[h])
        BY <3>1, <1>7 DEF OrdersInv
      <4>2. ended \in OrderRow /\ RowInv(ended) /\ release \in Nat /\ Needed(ended) = Needed(T[h]) - release
        BY <3>1, <4>1, EndedNeeds
      <4> HIDE DEF ended, release
      <4>3. Needed(ended) \in Nat
        BY <4>2, NeededNat
      <4>4. Needed(T[h]) = amount
        BY <3>1, <1>2, <1>6
      <4>5. release <= amount
        BY <4>2, <4>3, <4>4, <1>2
      <4>6. GetReservation(reservations, key) \in Nat /\ R[key] = GetReservation(reservations, key) + amount
        BY <1>3, ReservedNat DEF GetReservation
      <4>7. R[key] >= release
        BY <4>2, <4>5, <4>6, <1>2
      <4>8. QED
        BY <4>7, <1>3 DEF CanReleaseRemainder, CanDecreaseReservation
    <3>4. status \in {"CANCELLED", "EXPIRED"}
      OBVIOUS
    <3>5. release = AvailableRemainderRelease(T[h])
      OBVIOUS
    <3> HIDE DEF release, status
    <3>6. EndLeaves(q, u, T, R)
      BY <3>1, <3>2, <3>3, <3>4, <3>5, <1>3, <1>7, EndOne
    <3>7. QED
      BY <3>6 DEF EndLeaves, Kept
  <2>2. CASE ~fak
    <3>1. q = T /\ u = R
      BY <2>2
    <3>2. \A k : Spare(T, R, k) \in Int /\ GetReservation(R, k) \in Nat
      BY <1>3, <1>7, NeededInNat, ReservedNat DEF Spare
    <3>3. QED
      BY <3>1, <3>2, <1>3, <1>7 DEF EndLeaves, Kept, PendingSame, NoSpareLost, NoneMore
  <2>3. QED
    BY <2>1, <2>2
<1>11. /\ Kept(q, T) /\ PendingSame(q, T) /\ u \in ReservationTables
       /\ NoSpareLost(q, u, T, R) /\ NoneMore(u, R)
  BY <1>10 DEF EndLeaves
<1>12. /\ OrdersInv(q) /\ DOMAIN q = DOMAIN orders \cup {h}
       /\ \A g \in DOMAIN orders : /\ q[g].acceptedSequence = orders[g].acceptedSequence
                                   /\ BuildOrderReservationKey(q[g]) = BuildOrderReservationKey(orders[g])
       /\ q[h].acceptedSequence = s.sequence /\ BuildOrderReservationKey(q[h]) = key
  <2>1. /\ OrdersInv(q) /\ DOMAIN q = DOMAIN T
        /\ \A g \in DOMAIN T : /\ q[g].acceptedSequence = T[g].acceptedSequence
                               /\ BuildOrderReservationKey(q[g]) = BuildOrderReservationKey(T[g])
    BY <1>11 DEF Kept
  <2>2. DOMAIN q = DOMAIN orders \cup {h} /\ h \in DOMAIN I
    BY <2>1, <1>2, <1>7
  <2>3. q[h].acceptedSequence = s.sequence /\ BuildOrderReservationKey(q[h]) = key
    <3>1. /\ q[h].acceptedSequence = T[h].acceptedSequence
          /\ BuildOrderReservationKey(q[h]) = BuildOrderReservationKey(T[h])
      BY <2>1, <2>2, <1>7
    <3>2. /\ T[h].acceptedSequence = I[h].acceptedSequence
          /\ BuildOrderReservationKey(T[h]) = BuildOrderReservationKey(I[h])
      BY <2>2, <1>7
    <3>3. QED
      BY <3>1, <3>2, <1>2
  <2>4. ASSUME NEW g \in DOMAIN orders
        PROVE  /\ q[g].acceptedSequence = orders[g].acceptedSequence
               /\ BuildOrderReservationKey(q[g]) = BuildOrderReservationKey(orders[g])
    <3>1. g \in DOMAIN I /\ g \in DOMAIN T /\ I[g] = orders[g]
      BY <1>2, <1>7
    <3>2. QED
      BY <3>1, <2>1, <1>7
  <2>5. QED
    BY <2>1, <2>2, <2>3, <2>4
<1>13. ASSUME NEW g \in DOMAIN q
       PROVE  q[g].pending = (IF g = h THEN 0 ELSE orders[g].pending)
                               + (IF HasMatched(s) THEN AmountIn(trade, g) ELSE 0)
  <2>1. g \in DOMAIN I /\ g \in DOMAIN T
    BY <1>2, <1>7, <1>12
  <2>2. q[g].pending = T[g].pending
    BY <2>1, <1>11 DEF PendingSame
  <2>3. I[g].pending = IF g = h THEN 0 ELSE orders[g].pending
    BY <2>1, <1>2
  <2>4. QED
    BY <2>1, <2>2, <2>3, <1>6
<1>14. NoSpareLost(q, u, orders, reservations)
  <2>1. SUFFICES ASSUME NEW k PROVE Spare(q, u, k) >= Spare(orders, reservations, k)
    BY DEF NoSpareLost
  <2> DEFINE a == Spare(q, u, k)
             b == Spare(T, R, k)
             d == Spare(orders, reservations, k)
  <2>2. a \in Int /\ b \in Int /\ d \in Int
    <3>1. NeededIn(q, k) \in Nat /\ GetReservation(u, k) \in Nat
      BY <1>11, <1>12, NeededInNat, ReservedNat
    <3>2. NeededIn(T, k) \in Nat /\ GetReservation(R, k) \in Nat
      BY <1>3, <1>7, NeededInNat, ReservedNat
    <3>3. NeededIn(orders, k) \in Nat /\ GetReservation(reservations, k) \in Nat
      BY NeededInNat, ReservedNat
    <3>4. QED
      BY <3>1, <3>2, <3>3 DEF Spare
  <2>3. a >= b /\ b >= d
    BY <1>9, <1>11 DEF NoSpareLost
  <2> HIDE DEF a, b, d
  <2>4. a >= d
    BY <2>2, <2>3
  <2>5. QED
    BY <2>4 DEF a, d
<1>15. \A k : GetReservation(u, k) <= GetReservation(reservations, k) + (IF k = key THEN amount ELSE 0)
  BY <1>3, <1>11 DEF NoneMore
<1>16. TradeOfOrders(trade, q)
  BY <1>2, <1>5, <1>12 DEF TradeOfOrders
<1>17. QED
  BY <1>11, <1>12, <1>13, <1>14, <1>15, <1>16 DEF CommitLeaves, trade, amount

-----------------------------------------------------------------------------
(* The ledger: the orders, the reservations and the trades agree.            *)

EntryTrade == [taker : Tickets, fills : Seq(FillRow(Tickets)), book : Books, amount : Nat, usdc : Nat,
               status : {"MATCHED", "CONFIRMED", "FAILED"}, tx : {NoTx}]
PendingAgrees(o, T) == \A h \in DOMAIN o : o[h].pending = PendingIn(T, h)
TradesOfOrders(o, T) == \A t \in DOMAIN T : TradeOfOrders(T[t], o)
LedgerInv(o, r, T) ==
  /\ OrdersInv(o) /\ r \in ReservationTables /\ T \in Seq(EntryTrade)
  /\ TradesOfOrders(o, T) /\ PendingAgrees(o, T) /\ Covered(o, r, T)

LEMMA TradesFacts ==
  ASSUME NEW o, NEW T \in Seq(EntryTrade), TradesOfOrders(o, T)
  PROVE  /\ IsFiniteSet(DOMAIN T) /\ \A h : \A t \in DOMAIN T : AmountIn(T[t], h) \in Nat
         /\ \A t \in DOMAIN T : T[t] \in EntryTrade /\ PartsOf(T[t]) \subseteq DOMAIN o
<1>1. DOMAIN T = 1 .. Len(T) /\ Len(T) \in Nat /\ \A t \in DOMAIN T : T[t] \in EntryTrade
  OBVIOUS
<1>2. IsFiniteSet(DOMAIN T)
  BY <1>1, IntervalFinite
<1>3. ASSUME NEW t \in DOMAIN T
      PROVE  PartsOf(T[t]) \subseteq DOMAIN o /\ \A h : AmountIn(T[t], h) \in Nat
  <2> DEFINE trade == T[t]
             D == DOMAIN o
  <2>1. TradeOfOrders(trade, o)
    BY DEF TradesOfOrders
  <2> HIDE DEF trade
  <2>2. /\ trade.taker \in D /\ trade.fills \in Seq(FillRow(D)) /\ trade.amount \in Nat
        /\ MadeByMatch(trade) /\ EachMakerOnce(trade)
    BY <2>1 DEF TradeOfOrders
  <2>3. PartsOf(trade) \subseteq D
    <3>1. \A i \in DOMAIN trade.fills : trade.fills[i] \in FillRow(D)
      BY <2>2
    <3>2. QED
      BY <3>1, <2>2 DEF PartsOf, FillRow
  <2>4. \A h : AmountIn(trade, h) \in Nat
    BY <2>2, AmountNat
  <2>5. QED
    BY <2>3, <2>4 DEF trade
<1>4. QED
  BY <1>1, <1>2, <1>3

(* Orders that end, and statements that take nothing of a trade. *)
LEMMA TradesStay ==
  ASSUME NEW o, NEW q, DOMAIN o \subseteq DOMAIN q, NEW trade, TradeOfOrders(trade, o)
  PROVE  TradeOfOrders(trade, q)
<1> DEFINE S == FillRow(DOMAIN o)
           R == FillRow(DOMAIN q)
           fills == trade.fills
<1>1. S \subseteq R /\ fills \in Seq(S) /\ trade.taker \in DOMAIN q
  BY DEF FillRow, TradeOfOrders
<1> HIDE DEF S, R, fills
<1>2. fills \in Seq(R)
  BY <1>1
<1>3. QED
  BY <1>1, <1>2 DEF TradeOfOrders, R, fills

LEMMA LedgerEnds ==
  ASSUME NEW o, NEW r, NEW T, LedgerInv(o, r, T), NEW q, NEW s, EndLeaves(q, s, o, r)
  PROVE  LedgerInv(q, s, T)
<1>1. /\ OrdersInv(o) /\ r \in ReservationTables /\ T \in Seq(EntryTrade)
      /\ TradesOfOrders(o, T) /\ PendingAgrees(o, T) /\ Covered(o, r, T)
  BY DEF LedgerInv
<1>2. /\ Kept(q, o) /\ OrdersInv(q) /\ DOMAIN q = DOMAIN o /\ PendingSame(q, o)
      /\ s \in ReservationTables /\ NoSpareLost(q, s, o, r)
  BY DEF EndLeaves, Kept
<1>3. TradesOfOrders(q, T)
  BY <1>1, <1>2, TradesStay DEF TradesOfOrders
<1>4. PendingAgrees(q, T)
  BY <1>1, <1>2 DEF PendingAgrees, PendingSame
<1>5. Covered(q, s, T)
  <2>1. \A key : WithKey(o, key) \subseteq WithKey(q, key)
    BY <1>2, KeysStay
  <2>2. IsFiniteSet(DOMAIN T)
    BY <1>1, TradesFacts
  <2>3. QED
    BY <1>1, <1>2, <2>1, <2>2, CoveredKept
<1>6. QED
  BY <1>1, <1>2, <1>3, <1>4, <1>5 DEF LedgerInv

(* A trade that ends, one way or the other. *)
Finished(N, T, t, status) ==
  /\ N \in Seq(EntryTrade) /\ DOMAIN N = DOMAIN T
  /\ N[t].status = status /\ N[t].fills = T[t].fills /\ N[t].taker = T[t].taker
  /\ N[t].amount = T[t].amount
  /\ \A e \in DOMAIN T \ {t} : N[e] = T[e]

LEMMA TradeFinished ==
  ASSUME NEW T \in Seq(EntryTrade), NEW t \in DOMAIN T, NEW status \in {"CONFIRMED", "FAILED"},
         NEW N, N = [T EXCEPT ![t].status = status]
  PROVE  Finished(N, T, t, status)
<1>1. DOMAIN T = 1 .. Len(T) /\ Len(T) \in Nat /\ \A e \in DOMAIN T : T[e] \in EntryTrade
  OBVIOUS
<1>2. /\ N = [e \in DOMAIN T |-> N[e]] /\ \A e \in DOMAIN T \ {t} : N[e] = T[e]
      /\ N[t] = [T[t] EXCEPT !.status = status]
  BY <1>1
<1>3. N[t] \in EntryTrade
  <2> DEFINE trade == T[t]
  <2>1. trade \in EntryTrade /\ N[t] = [trade EXCEPT !.status = status]
    BY <1>1, <1>2
  <2> HIDE DEF trade
  <2>2. QED
    BY <2>1 DEF EntryTrade
<1>4. \A e \in DOMAIN T : N[e] \in EntryTrade
  BY <1>1, <1>2, <1>3
<1>5. N \in Seq(EntryTrade) /\ DOMAIN N = DOMAIN T
  BY <1>2, <1>4, SeqOfRows
<1>6. /\ N[t].status = status /\ N[t].fills = T[t].fills /\ N[t].taker = T[t].taker
      /\ N[t].amount = T[t].amount
  <2> DEFINE trade == T[t]
  <2>1. trade \in EntryTrade /\ N[t] = [trade EXCEPT !.status = status]
    BY <1>1, <1>2
  <2> HIDE DEF trade
  <2>2. /\ N[t].status = status /\ N[t].fills = trade.fills /\ N[t].taker = trade.taker
        /\ N[t].amount = trade.amount
    BY <2>1 DEF EntryTrade
  <2>3. QED
    BY <2>2 DEF trade
<1>7. QED
  BY <1>2, <1>5, <1>6 DEF Finished

LEMMA SameParts ==
  ASSUME NEW N, NEW T, NEW t \in DOMAIN T, NEW status, Finished(N, T, t, status), NEW o, NEW q,
         DOMAIN q = DOMAIN o, TradesOfOrders(o, T)
  PROVE  /\ TradesOfOrders(q, N)
         /\ PartsOf(N[t]) = PartsOf(T[t])
<1>1. \A e \in DOMAIN T : /\ N[e].fills = T[e].fills /\ N[e].taker = T[e].taker
                          /\ N[e].amount = T[e].amount
  BY DEF Finished
<1>2. \A e \in DOMAIN T : TradeOfOrders(T[e], q)
  BY TradesStay DEF TradesOfOrders
<1>3. ASSUME NEW e \in DOMAIN T PROVE TradeOfOrders(N[e], q)
  <2> DEFINE a == T[e]
             b == N[e]
  <2>1. /\ b.fills = a.fills /\ b.taker = a.taker /\ b.amount = a.amount /\ TradeOfOrders(a, q)
    BY <1>1, <1>2
  <2> HIDE DEF a, b
  <2>2. TradeOfOrders(b, q)
    BY <2>1 DEF TradeOfOrders, MadeByMatch, EachMakerOnce
  <2>3. QED
    BY <2>2 DEF b
<1>4. TradesOfOrders(q, N)
  BY <1>3 DEF TradesOfOrders, Finished
<1>5. PartsOf(N[t]) = PartsOf(T[t])
  BY <1>1 DEF PartsOf
<1>6. QED
  BY <1>4, <1>5

LEMMA PendingFinished ==
  ASSUME NEW o, NEW T \in Seq(EntryTrade), TradesOfOrders(o, T), PendingAgrees(o, T),
         NEW t \in DOMAIN T, T[t].status = "MATCHED",
         NEW status \in {"CONFIRMED", "FAILED"}, NEW N, Finished(N, T, t, status),
         NEW q, DOMAIN q = DOMAIN o, PendingLess(q, o, T[t], DOMAIN o)
  PROVE  PendingAgrees(q, N)
<1>1. SUFFICES ASSUME NEW h \in DOMAIN o PROVE q[h].pending = PendingIn(N, h)
  BY DEF PendingAgrees
<1>2. IsFiniteSet(DOMAIN T) /\ \A e \in DOMAIN T : AmountIn(T[e], h) \in Nat
  BY TradesFacts
<1>3. /\ DOMAIN N = DOMAIN T /\ N[t].status # "MATCHED" /\ \A e \in DOMAIN T \ {t} : N[e] = T[e]
      /\ t \in OpenIn(T)
  BY DEF Finished, OpenIn
<1>4. PendingIn(N, h) = PendingIn(T, h) - AmountIn(T[t], h)
  BY <1>2, <1>3, PendingEnded
<1>5. q[h].pending = o[h].pending - AmountIn(T[t], h)
  BY DEF PendingLess
<1>6. QED
  BY <1>4, <1>5 DEF PendingAgrees

LEMMA PartsArePending ==
  ASSUME NEW o, NEW T \in Seq(EntryTrade), TradesOfOrders(o, T), PendingAgrees(o, T),
         NEW t \in DOMAIN T, T[t].status = "MATCHED", NEW h \in DOMAIN o
  PROVE  AmountIn(T[t], h) <= o[h].pending
<1>1. IsFiniteSet(DOMAIN T) /\ \A e \in DOMAIN T : AmountIn(T[e], h) \in Nat
  BY TradesFacts
<1>2. t \in OpenIn(T)
  BY DEF OpenIn
<1>3. AmountIn(T[t], h) <= PendingIn(T, h)
  BY <1>1, <1>2, PendingTotal
<1>4. QED
  BY <1>3 DEF PendingAgrees

LEMMA LedgerConfirms ==
  ASSUME LedgerInv(orders, reservations, trades), NEW t \in TradeIds, trades[t].status = "MATCHED",
         NEW x, x = Confirmations(t), x.ok, NEW N, N = [trades EXCEPT ![t].status = "CONFIRMED"]
  PROVE  /\ LedgerInv(x.orders, x.reservations, N)
         /\ Kept(x.orders, orders) /\ NoneMore(x.reservations, reservations)
<1> DEFINE status == "CONFIRMED"
           q == x.orders
           s == x.reservations
<1>1. /\ OrdersInv(orders) /\ reservations \in ReservationTables /\ trades \in Seq(EntryTrade)
      /\ TradesOfOrders(orders, trades) /\ PendingAgrees(orders, trades) /\ Covered(orders, reservations, trades)
      /\ t \in DOMAIN trades /\ TradeOfOrders(trades[t], orders)
  BY DEF LedgerInv, TradesOfOrders, TradeIds
<1>2. \A h \in DOMAIN orders : AmountIn(trades[t], h) <= orders[h].pending
  BY <1>1, PartsArePending
<1>3. /\ Kept(q, orders) /\ s \in ReservationTables
      /\ PendingLess(q, orders, trades[t], DOMAIN orders)
      /\ NoSpareLost(q, s, orders, reservations) /\ NoneMore(s, reservations)
  BY <1>1, <1>2, ConfirmedTrade
<1>4. Finished(N, trades, t, status) /\ status \in {"CONFIRMED", "FAILED"} /\ N[t].status # "FAILED"
  <2>1. Finished(N, trades, t, status)
    BY <1>1, TradeFinished
  <2>2. QED
    BY <2>1 DEF Finished
<1> HIDE DEF status, q, s
<1>5. OrdersInv(q) /\ DOMAIN q = DOMAIN orders /\ N \in Seq(EntryTrade) /\ DOMAIN N = DOMAIN trades
  BY <1>3, <1>4 DEF Kept, Finished
<1>6. TradesOfOrders(q, N)
  BY <1>1, <1>4, <1>5, SameParts
<1>7. PendingAgrees(q, N)
  BY <1>1, <1>3, <1>4, <1>5, PendingFinished
<1>8. \A M : Finished(M, trades, t, status) => Covered(q, s, M)
  <2> SUFFICES ASSUME NEW M, Finished(M, trades, t, status)
               PROVE  Covered(q, s, M)
    OBVIOUS
  <2>1. \A key : WithKey(orders, key) \subseteq WithKey(q, key)
    BY <1>3, KeysStay
  <2>2. IsFiniteSet(DOMAIN trades) /\ IsFiniteSet(DOMAIN M)
    BY <1>1, TradesFacts DEF Finished
  <2>3. \A h : FailedOf(trades, h) \subseteq FailedOf(M, h)
    <3>1. /\ DOMAIN M = DOMAIN trades
          /\ \A e \in DOMAIN trades : trades[e].status = "FAILED" => M[e] = trades[e]
      BY DEF Finished
    <3>2. QED
      BY <3>1 DEF FailedOf
  <2>4. /\ OrdersInv(orders) /\ reservations \in ReservationTables /\ Covered(orders, reservations, trades)
        /\ OrdersInv(q) /\ s \in ReservationTables /\ NoSpareLost(q, s, orders, reservations)
    BY <1>1, <1>3, <1>5
  <2>5. QED
    BY <2>1, <2>2, <2>3, <2>4, CoveredKept
<1>9. LedgerInv(q, s, N)
  BY <1>3, <1>4, <1>5, <1>6, <1>7, <1>8 DEF LedgerInv
<1>10. QED
  BY <1>3, <1>9 DEF q, s

LEMMA LedgerFails ==
  ASSUME LedgerInv(orders, reservations, trades), NEW t \in TradeIds, trades[t].status = "MATCHED",
         NEW x, x = Cleanup(t, orders), x.ok, NEW N, N = [trades EXCEPT ![t].status = "FAILED"]
  PROVE  /\ LedgerInv(x.orders, x.reservations, N)
         /\ Kept(x.orders, orders) /\ NoneMore(x.reservations, reservations)
<1> DEFINE status == "FAILED"
           q == x.orders
           s == x.reservations
<1>1. /\ OrdersInv(orders) /\ reservations \in ReservationTables /\ trades \in Seq(EntryTrade)
      /\ TradesOfOrders(orders, trades) /\ PendingAgrees(orders, trades) /\ Covered(orders, reservations, trades)
      /\ t \in DOMAIN trades /\ TradeOfOrders(trades[t], orders)
  BY DEF LedgerInv, TradesOfOrders, TradeIds
<1>2. OrdersOf(t) = PartsOf(trades[t]) /\ PartsOf(trades[t]) \subseteq DOMAIN orders
  BY <1>1, TradesFacts DEF OrdersOf, PartsOf
<1>3. /\ Kept(q, orders) /\ s \in ReservationTables
      /\ PendingLess(q, orders, trades[t], DOMAIN orders)
      /\ SpareBut(q, s, orders, reservations, OrdersOf(t)) /\ NoneMore(s, reservations)
  <2>1. \A h \in OrdersOf(t) : CopyOf(orders[h], orders[h])
    BY <1>1, <1>2, RowIsCopy
  <2>2. QED
    BY <1>1, <2>1, FailedTrade
<1>4. Finished(N, trades, t, status) /\ status \in {"CONFIRMED", "FAILED"} /\ N[t].status = "FAILED"
  <2>1. Finished(N, trades, t, status)
    BY <1>1, TradeFinished
  <2>2. QED
    BY <2>1 DEF Finished
<1> HIDE DEF status, q, s
<1>5. OrdersInv(q) /\ DOMAIN q = DOMAIN orders /\ N \in Seq(EntryTrade) /\ DOMAIN N = DOMAIN trades
  BY <1>3, <1>4 DEF Kept, Finished
<1>6. TradesOfOrders(q, N) /\ PartsOf(N[t]) = PartsOf(trades[t])
  BY <1>1, <1>4, <1>5, SameParts
<1>7. PendingAgrees(q, N)
  BY <1>1, <1>3, <1>4, <1>5, PendingFinished
<1>8. \A M : Finished(M, trades, t, status) /\ M[t].status = "FAILED" /\ PartsOf(M[t]) = PartsOf(trades[t])
           => Covered(q, s, M)
  <2> SUFFICES ASSUME NEW M, Finished(M, trades, t, status), M[t].status = "FAILED",
                      PartsOf(M[t]) = PartsOf(trades[t])
               PROVE  Covered(q, s, M)
    OBVIOUS
  <2>1. /\ trades[t].status # "FAILED" /\ DOMAIN M = DOMAIN trades
        /\ \A e \in DOMAIN trades \ {t} : M[e] = trades[e]
    BY DEF Finished
  <2>2. IsFiniteSet(DOMAIN trades) /\ t \in DOMAIN trades
    BY <1>1, TradesFacts
  <2>3. /\ OrdersInv(orders) /\ reservations \in ReservationTables /\ Covered(orders, reservations, trades)
        /\ Kept(q, orders) /\ s \in ReservationTables /\ PartsOf(trades[t]) \subseteq DOMAIN orders
        /\ SpareBut(q, s, orders, reservations, PartsOf(trades[t]))
    BY <1>1, <1>2, <1>3
  <2>4. QED
    BY <2>1, <2>2, <2>3, CoveredFails
<1>9. LedgerInv(q, s, N)
  BY <1>3, <1>4, <1>5, <1>6, <1>7, <1>8 DEF LedgerInv
<1>10. QED
  BY <1>3, <1>9 DEF q, s

LEMMA TradeTyped ==
  ASSUME OrdersInv(orders), NEW s, AcceptedFrom(s, orders), NEW q, OrdersInv(q),
         TradeOfOrders(TradeFrom(s), q)
  PROVE  TradeFrom(s) \in EntryTrade /\ TradeFrom(s).status = "MATCHED"
<1> DEFINE trade == TradeFrom(s)
           match == s.match
           book == Signed[s.order].book
           h == s.order
<1>1. /\ h \in Tickets /\ book \in Books /\ match.usdc \in Nat
  <2>1. PICK D \in SUBSET (DOMAIN orders \ {s.order}) : MatchOf(s.match, D, Signed[s.order].outcomeAmount)
    BY DEF AcceptedFrom
  <2>2. s.match.usdc \in Nat
    BY <2>1 DEF MatchOf, MatchStates
  <2>3. s.order \in Tickets
    BY DEF AcceptedFrom
  <2>4. QED
    BY <2>2, <2>3, TicketsAssumption
<1>2. trade.amount \in Nat /\ trade.fills \in Seq(FillRow(Tickets))
  <2>1. trade.amount \in Nat /\ trade.fills \in Seq(FillRow(DOMAIN q)) /\ DOMAIN q \subseteq Tickets
    BY DEF TradeOfOrders, OrdersInv
  <2> DEFINE S == FillRow(DOMAIN q)
             R == FillRow(Tickets)
             fills == trade.fills
  <2>2. S \subseteq R /\ fills \in Seq(S)
    BY <2>1 DEF FillRow
  <2> HIDE DEF S, R, fills
  <2>3. fills \in Seq(R)
    BY <2>2
  <2>4. QED
    BY <2>1, <2>3 DEF R, fills
<1>3. trade = NewTrade(h, match, book)
  BY DEF TradeFrom
<1> HIDE DEF trade, match, book, h
<1>4. PICK amount : trade = [taker |-> h, fills |-> match.fills, book |-> book, amount |-> amount,
                             usdc |-> match.usdc, status |-> "MATCHED", tx |-> NoTx]
  BY <1>3, Zenon DEF NewTrade
<1>5. trade \in EntryTrade /\ trade.status = "MATCHED"
  <2>1. trade.amount = amount /\ trade.fills = match.fills
    BY <1>4
  <2>2. amount \in Nat /\ match.fills \in Seq(FillRow(Tickets))
    BY <2>1, <1>2
  <2>3. QED
    BY <2>2, <1>1, <1>4 DEF EntryTrade
<1>6. QED
  BY <1>5 DEF trade

LEMMA LedgerCommits ==
  ASSUME LedgerInv(orders, reservations, trades), NEW s, AcceptedFrom(s, orders), s.order \notin DOMAIN orders,
         NEW q, NEW u, CommitLeaves(q, u, s),
         NEW N, N = IF HasMatched(s) THEN Append(trades, TradeFrom(s)) ELSE trades
  PROVE  LedgerInv(q, u, N)
<1> DEFINE trade == TradeFrom(s)
           n == Len(trades)
<1>1. /\ OrdersInv(orders) /\ reservations \in ReservationTables /\ trades \in Seq(EntryTrade)
      /\ TradesOfOrders(orders, trades) /\ PendingAgrees(orders, trades) /\ Covered(orders, reservations, trades)
  BY DEF LedgerInv
<1>2. /\ OrdersInv(q) /\ DOMAIN q = DOMAIN orders \cup {s.order} /\ u \in ReservationTables
      /\ \A g \in DOMAIN orders : BuildOrderReservationKey(q[g]) = BuildOrderReservationKey(orders[g])
      /\ \A g \in DOMAIN q : q[g].pending = (IF g = s.order THEN 0 ELSE orders[g].pending)
                                              + (IF HasMatched(s) THEN AmountIn(trade, g) ELSE 0)
      /\ NoSpareLost(q, u, orders, reservations)
      /\ HasMatched(s) => TradeOfOrders(trade, q)
  BY DEF CommitLeaves
<1>3. HasMatched(s) => trade \in EntryTrade /\ trade.status = "MATCHED" /\ \A h : AmountIn(trade, h) \in Nat
  <2>1. SUFFICES ASSUME HasMatched(s)
                 PROVE  trade \in EntryTrade /\ trade.status = "MATCHED" /\ \A h : AmountIn(trade, h) \in Nat
    OBVIOUS
  <2>2. trade \in EntryTrade /\ trade.status = "MATCHED"
    BY <2>1, <1>1, <1>2, TradeTyped
  <2>3. /\ trade.fills \in Seq(FillRow(DOMAIN q)) /\ trade.amount \in Nat
        /\ MadeByMatch(trade) /\ EachMakerOnce(trade)
    BY <2>1, <1>2 DEF TradeOfOrders
  <2> HIDE DEF trade
  <2>4. \A h : AmountIn(trade, h) \in Nat
    BY <2>3, AmountNat
  <2>5. QED
    BY <2>2, <2>4
<1> HIDE DEF trade
<1>4. trades \in Seq(EntryTrade) /\ n \in Nat /\ DOMAIN trades = 1 .. n
  BY <1>1
<1>5. /\ N \in Seq(EntryTrade)
      /\ \A e \in DOMAIN trades : e \in DOMAIN N /\ N[e] = trades[e]
      /\ \A e \in DOMAIN N \ DOMAIN trades : HasMatched(s) /\ N[e] = trade
  <2>1. CASE HasMatched(s)
    <3>1. N = Append(trades, trade)
      BY <2>1 DEF trade
    <3>2. N \in Seq(EntryTrade) /\ DOMAIN N = 1 .. n + 1 /\ N[n + 1] = trade
          /\ \A e \in 1 .. n : N[e] = trades[e]
      BY <2>1, <3>1, <1>3, <1>4
    <3>3. QED
      BY <2>1, <3>2, <1>4
  <2>2. CASE ~HasMatched(s)
    BY <2>2, <1>4
  <2>3. QED
    BY <2>1, <2>2
<1>6. TradesOfOrders(q, N)
  <2>1. \A e \in DOMAIN trades : TradeOfOrders(trades[e], q)
    BY <1>1, <1>2, TradesStay DEF TradesOfOrders
  <2>2. \A e \in DOMAIN N : TradeOfOrders(N[e], q)
    BY <2>1, <1>2, <1>5
  <2>3. QED
    BY <2>2 DEF TradesOfOrders
<1>7. PendingAgrees(q, N)
  <2>1. SUFFICES ASSUME NEW h \in DOMAIN q PROVE q[h].pending = PendingIn(N, h)
    BY DEF PendingAgrees
  <2>2. IsFiniteSet(DOMAIN trades) /\ \A e \in DOMAIN trades : AmountIn(trades[e], h) \in Nat
    BY <1>1, TradesFacts
  <2>3. PendingIn(trades, h) = (IF h = s.order THEN 0 ELSE orders[h].pending)
    <3>1. CASE h \in DOMAIN orders
      BY <3>1, <1>1 DEF PendingAgrees
    <3>2. CASE h = s.order
      <4>1. \A e \in DOMAIN trades : AmountIn(trades[e], h) = 0
        <5>1. SUFFICES ASSUME NEW e \in DOMAIN trades PROVE AmountIn(trades[e], h) = 0
          OBVIOUS
        <5> DEFINE t == trades[e]
                   D == DOMAIN orders
        <5>2. PartsOf(t) \subseteq D /\ TradeOfOrders(t, orders)
          BY <1>1, TradesFacts DEF TradesOfOrders
        <5> HIDE DEF t
        <5>3. t.fills \in Seq(FillRow(D)) /\ MadeByMatch(t) /\ EachMakerOnce(t)
          BY <5>2 DEF TradeOfOrders
        <5>4. h \notin Reached(t, Len(t.fills))
          <6>1. DOMAIN t.fills = 1 .. Len(t.fills)
            BY <5>3
          <6>2. Reached(t, Len(t.fills)) = PartsOf(t)
            BY <6>1 DEF Reached, PartsOf
          <6>3. QED
            BY <6>2, <5>2, <3>2
        <5>5. AmountIn(t, h) = 0
          BY <5>3, <5>4, TradeParts
        <5>6. QED
          BY <5>5 DEF t
      <4>2. \A e \in OpenIn(trades) : e \in DOMAIN trades
        BY DEF OpenIn
      <4> DEFINE S == OpenIn(trades)
                 f == [e \in S |-> AmountIn(trades[e], h)]
      <4>3. \A e \in S : f[e] = 0
        BY <4>1, <4>2
      <4>4. PendingIn(trades, h) = Total(f, S)
        BY DEF PendingIn
      <4> HIDE DEF S, f
      <4>5. PendingIn(trades, h) = 0
        BY <4>3, <4>4, TotalZero
      <4>6. QED
        BY <4>5, <3>2
    <3>3. QED
      BY <3>1, <3>2, <1>2
  <2>4. PendingIn(trades, h) \in Nat
    BY <2>2, PendingTotal
  <2>5. CASE HasMatched(s)
    <3>1. N = Append(trades, trade)
      BY <2>5 DEF trade
    <3>2. PendingIn(Append(trades, trade), h) = PendingIn(trades, h) + AmountIn(trade, h)
      BY <2>2, <2>5, <1>3, <1>4, PendingAppended
    <3>3. q[h].pending = PendingIn(trades, h) + AmountIn(trade, h)
      BY <2>3, <2>5, <1>2
    <3>4. QED
      BY <3>1, <3>2, <3>3
  <2>6. CASE ~HasMatched(s)
    <3>1. N = trades /\ q[h].pending = PendingIn(trades, h) + 0
      BY <2>3, <2>6, <1>2
    <3>2. QED
      BY <3>1, <2>4
  <2>7. QED
    BY <2>5, <2>6
<1>8. Covered(q, u, N)
  <2>1. \A key : WithKey(orders, key) \subseteq WithKey(q, key)
    BY <1>2 DEF WithKey
  <2>2. IsFiniteSet(DOMAIN trades) /\ IsFiniteSet(DOMAIN N)
    BY <1>1, <1>5, <1>6, TradesFacts
  <2>3. \A h : FailedOf(trades, h) \subseteq FailedOf(N, h)
    BY <1>5 DEF FailedOf
  <2>4. NoSpareLost(q, u, orders, reservations)
    BY <1>2
  <2>5. QED
    BY <1>1, <1>2, <2>1, <2>2, <2>3, <2>4, CoveredKept
<1>9. QED
  BY <1>2, <1>5, <1>6, <1>7, <1>8 DEF LedgerInv

-----------------------------------------------------------------------------
(* The requests under way, and the invariant of order entry.                 *)

CheckingRecord == [pc : {"checking"}, order : Tickets, timeInForce : {"GTC", "FAK"},
                   balance : SUBSET Nat, reserved : SUBSET Nat]

(* What has been reserved since a request read it under the lock is not more, *)
(* and there is room in the balance for what it will add.                     *)
RequestInv(s, o, r, n) ==
  \/ s = Idle
  \/ /\ s \in CheckingRecord
     /\ \A x \in s.reserved : GetReservation(r, ReservationKeyOf(s.order)) <= x
  \/ /\ s.pc = "accepted" /\ AcceptedFrom(s, o) /\ s.sequence < n /\ s.balance \in SUBSET Nat
     /\ \A g \in DOMAIN o : o[g].acceptedSequence # s.sequence
     /\ \A b \in s.balance : GetReservation(r, ReservationKeyOf(s.order)) + ReservationAmount(s.order) <= b

(* Each order has the side its maker signed, and no two have one place in    *)
(* time.                                                                     *)
SignedInv(o) == \A g \in DOMAIN o : BuildOrderReservationKey(o[g]) = ReservationKeyOf(g)
SequencesInv(o, n) == n \in Nat /\ DistinctSequences(o) /\ \A g \in DOMAIN o : o[g].acceptedSequence < n
OneHolder == \A p, q \in Submitters : \A key : HoldsLock(p, key) /\ HoldsLock(q, key) => p = q
OneSequence ==
  \A p, q \in Submitters :
    (/\ submission[p].pc = "accepted" /\ submission[q].pc = "accepted"
     /\ submission[p].sequence = submission[q].sequence) => p = q
RequestsInv ==
  /\ DOMAIN submission = Submitters
  /\ \A p \in Submitters : RequestInv(submission[p], orders, reservations, nextSequence)

EntryInv ==
  /\ LedgerInv(orders, reservations, trades)
  /\ SequencesInv(orders, nextSequence) /\ SignedInv(orders)
  /\ RequestsInv /\ OneHolder /\ OneSequence
  /\ wallet \in [ReservationKeys -> Nat] /\ IsFiniteSet(DOMAIN reservations)

LEMMA KeyOfTicket ==
  ASSUME NEW h \in Tickets
  PROVE  ReservationKeyOf(h) \in ReservationKeys /\ ReservationAmount(h) \in Nat \ {0}
<1> DEFINE signed == Signed[h]
<1>1. /\ signed.maker \in Makers /\ signed.side \in OrderSide /\ signed.book \in Books
      /\ signed.outcomeAmount \in Nat \ {0} /\ signed.usdcAmount \in Nat \ {0}
  BY TicketsAssumption
<1> HIDE DEF signed
<1>2. BuyReservation(signed, signed.outcomeAmount) = signed.usdcAmount
  BY <1>1, Worth
<1>3. BuildOrderReservationKey(signed) \in ReservationKeys
  BY <1>1 DEF BuildOrderReservationKey, AssetOf, ReservationKeys, Assets
<1>4. QED
  BY <1>1, <1>2, <1>3 DEF signed, ReservationKeyOf, ReservationAmount, OrderSide

(* Steps that keep the rows and reserve no more leave every request its room. *)
LEMMA RequestStays ==
  ASSUME NEW s, NEW o, NEW r \in ReservationTables, NEW n, RequestInv(s, o, r, n),
         NEW q, Kept(q, o), NEW u \in ReservationTables, NoneMore(u, r)
  PROVE  RequestInv(s, q, u, n)
<1> DEFINE key == ReservationKeyOf(s.order)
           a == GetReservation(r, key)
           b == GetReservation(u, key)
<1>1. a \in Nat /\ b \in Nat /\ b <= a
  BY ReservedNat DEF NoneMore
<1>2. CASE s = Idle
  BY <1>2 DEF RequestInv
<1>3. CASE s \in CheckingRecord /\ \A x \in s.reserved : a <= x
  <2>1. \A x \in s.reserved : x \in Nat
    BY <1>3 DEF CheckingRecord
  <2>2. \A x \in s.reserved : b <= x
    <3> HIDE DEF a, b
    <3>1. QED
      BY <1>1, <1>3, <2>1
  <2>3. QED
    BY <1>3, <2>2 DEF RequestInv
<1>4. CASE /\ s.pc = "accepted" /\ AcceptedFrom(s, o) /\ s.sequence < n /\ s.balance \in SUBSET Nat
           /\ \A g \in DOMAIN o : o[g].acceptedSequence # s.sequence
           /\ \A x \in s.balance : a + ReservationAmount(s.order) <= x
  <2>1. DOMAIN q = DOMAIN o /\ \A g \in DOMAIN o : q[g].acceptedSequence = o[g].acceptedSequence
    BY DEF Kept
  <2>2. AcceptedFrom(s, q) /\ \A g \in DOMAIN q : q[g].acceptedSequence # s.sequence
    BY <2>1, <1>4 DEF AcceptedFrom
  <2> DEFINE amount == ReservationAmount(s.order)
  <2>3. amount \in Nat
    BY <1>4, KeyOfTicket DEF AcceptedFrom
  <2>4. \A x \in s.balance : b + amount <= x
    <3> HIDE DEF a, b, amount
    <3>1. \A x \in s.balance : x \in Nat /\ a + amount <= x
      BY <1>4 DEF amount
    <3>2. QED
      BY <3>1, <1>1, <2>3
  <2>5. QED
    BY <1>4, <2>2, <2>4 DEF RequestInv
<1>5. QED
  BY <1>2, <1>3, <1>4 DEF RequestInv

LEMMA StaysFinite ==
  ASSUME NEW r \in ReservationTables, NEW u \in ReservationTables, NEW key,
         \A k : GetReservation(u, k) <= GetReservation(r, k) \/ k = key, IsFiniteSet(DOMAIN r)
  PROVE  IsFiniteSet(DOMAIN u)
<1>1. ASSUME NEW k \in DOMAIN u, k # key PROVE k \in DOMAIN r
  <2>1. GetReservation(u, k) \in Nat \ {0} /\ GetReservation(r, k) \in Nat
    BY ReservedNat DEF GetReservation, ReservationTables
  <2>2. GetReservation(u, k) <= GetReservation(r, k)
    BY <1>1
  <2>3. GetReservation(r, k) # 0
    BY <2>1, <2>2
  <2>4. QED
    BY <2>3 DEF GetReservation
<1>2. DOMAIN u \subseteq DOMAIN r \cup {key}
  BY <1>1
<1>3. IsFiniteSet(DOMAIN r \cup {key})
  BY FS_AddElement
<1>4. QED
  BY <1>2, <1>3, FS_Subset

(* The steps of the ledger: requests under way stay as they are. *)
LEMMA TablesStep ==
  ASSUME EntryInv, UNCHANGED <<submission, nextSequence, wallet>>,
         NEW q, NEW u, NEW N, orders' = q, reservations' = u, trades' = N,
         LedgerInv(q, u, N), Kept(q, orders), NoneMore(u, reservations)
  PROVE  EntryInv'
<1>1. SequencesInv(q, nextSequence) /\ SignedInv(q)
  BY DEF EntryInv, SequencesInv, SignedInv, DistinctSequences, Kept
<1>2. ASSUME NEW p \in Submitters PROVE RequestInv(submission[p], q, u, nextSequence)
  <2>1. RequestInv(submission[p], orders, reservations, nextSequence)
    BY DEF EntryInv, RequestsInv
  <2>2. reservations \in ReservationTables /\ u \in ReservationTables
    BY DEF EntryInv, LedgerInv
  <2>3. QED
    BY <2>1, <2>2, RequestStays
<1>3. LedgerInv(orders, reservations, trades)'
  OBVIOUS
<1>4. SequencesInv(orders, nextSequence)' /\ SignedInv(orders)'
  BY <1>1
<1>5. RequestsInv'
  <2>1. DOMAIN submission' = Submitters
    BY DEF EntryInv, RequestsInv
  <2>2. ASSUME NEW p \in Submitters PROVE RequestInv(submission[p], orders, reservations, nextSequence)'
    BY <1>2
  <2>3. QED
    BY <2>1, <2>2 DEF RequestsInv
<1>6. OneHolder' /\ OneSequence'
  BY DEF EntryInv, OneHolder, OneSequence, HoldsLock
<1>7. IsFiniteSet(DOMAIN reservations)'
  <2>1. reservations \in ReservationTables /\ u \in ReservationTables /\ IsFiniteSet(DOMAIN reservations)
    BY DEF EntryInv, LedgerInv
  <2>2. IsFiniteSet(DOMAIN u)
    BY <2>1, StaysFinite DEF NoneMore
  <2>3. QED
    BY <2>2
<1>8. QED
  BY <1>3, <1>4, <1>5, <1>6, <1>7 DEF EntryInv

HoldsBy(s, key) ==
  /\ s.pc # "idle"
  /\ s.pc = "accepted" \/ s.reserved # {}
  /\ ReservationKeyOf(s.order) = key

LEMMA RequestWaits ==
  ASSUME NEW s, NEW o, NEW r, NEW n \in Nat, RequestInv(s, o, r, n), NEW m \in Nat, m >= n
  PROVE  RequestInv(s, o, r, m)
<1>1. CASE s.pc = "accepted" /\ AcceptedFrom(s, o) /\ s.sequence < n
  <2>1. s.sequence \in Nat
    BY <1>1 DEF AcceptedFrom
  <2>2. s.sequence < m
    BY <1>1, <2>1
  <2>3. QED
    BY <2>2 DEF RequestInv
<1>2. CASE ~(s.pc = "accepted" /\ AcceptedFrom(s, o) /\ s.sequence < n)
  BY <1>2 DEF RequestInv
<1>3. QED
  BY <1>1, <1>2

(* The steps of one request: the ledger stays as it is. *)
LEMMA RequestStep ==
  ASSUME EntryInv, NEW p \in Submitters, NEW v, submission' = [submission EXCEPT ![p] = v],
         UNCHANGED <<ledgerVars, wallet>>, NEW m \in Nat, nextSequence' = m, m >= nextSequence,
         RequestInv(v, orders, reservations, m),
         \A key : HoldsBy(v, key) => \A e \in Submitters : HoldsLock(e, key) => e = p,
         v.pc = "accepted" => v.sequence = nextSequence
  PROVE  EntryInv'
<1>1. /\ LedgerInv(orders, reservations, trades) /\ SequencesInv(orders, nextSequence)
      /\ DOMAIN submission = Submitters
      /\ \A e \in Submitters : RequestInv(submission[e], orders, reservations, nextSequence)
      /\ OneHolder /\ OneSequence /\ wallet \in [ReservationKeys -> Nat]
      /\ nextSequence \in Nat
  BY DEF EntryInv, RequestsInv, SequencesInv
<1>2. /\ DOMAIN submission' = Submitters /\ submission'[p] = v
      /\ \A e \in Submitters \ {p} : submission'[e] = submission[e]
  BY <1>1
<1>3. /\ LedgerInv(orders, reservations, trades)' /\ (wallet \in [ReservationKeys -> Nat])'
      /\ IsFiniteSet(DOMAIN reservations)'
  <2>1. UNCHANGED <<orders, reservations, trades>> /\ IsFiniteSet(DOMAIN reservations)
    BY DEF ledgerVars, EntryInv
  <2>2. QED
    BY <1>1, <2>1
<1>4. SequencesInv(orders, m)
  BY <1>1 DEF SequencesInv, OrdersInv, OrderRow, LedgerInv
<1>5. SequencesInv(orders, nextSequence)' /\ SignedInv(orders)'
  <2>1. orders' = orders /\ SignedInv(orders)
    BY DEF ledgerVars, EntryInv
  <2>2. QED
    BY <1>4, <2>1
<1>6. RequestsInv'
  <2>1. \A e \in Submitters : RequestInv(submission[e], orders, reservations, m)
    BY <1>1, RequestWaits
  <2>2. ASSUME NEW e \in Submitters PROVE RequestInv(submission[e], orders, reservations, nextSequence)'
    <3>1. CASE e = p
      BY <3>1, <1>2 DEF ledgerVars
    <3>2. CASE e # p
      BY <3>2, <1>2, <2>1 DEF ledgerVars
    <3>3. QED
      BY <3>1, <3>2
  <2>3. QED
    BY <2>2, <1>2 DEF RequestsInv
<1>7. OneHolder'
  <2>1. SUFFICES ASSUME NEW e \in Submitters, NEW f \in Submitters, NEW key,
                        HoldsLock(e, key)', HoldsLock(f, key)'
                 PROVE  e = f
    BY DEF OneHolder
  <2>2. HoldsLock(p, key)' => HoldsBy(v, key)
    BY <1>2 DEF HoldsLock, HoldsBy
  <2>3. \A d \in Submitters \ {p} : HoldsLock(d, key)' => HoldsLock(d, key)
    BY <1>2 DEF HoldsLock
  <2>4. QED
    BY <2>1, <2>2, <2>3, <1>1 DEF OneHolder
<1>8. OneSequence'
  <2>1. SUFFICES ASSUME NEW e \in Submitters, NEW f \in Submitters,
                        (submission[e].pc = "accepted")', (submission[f].pc = "accepted")',
                        (submission[e].sequence = submission[f].sequence)'
                 PROVE  e = f
    BY DEF OneSequence
  <2>2. ASSUME NEW d \in Submitters, submission[d].pc = "accepted"
        PROVE  submission[d].sequence < nextSequence /\ submission[d].sequence \in Nat
    BY <2>2, <1>1 DEF RequestInv, CheckingRecord, Idle, AcceptedFrom
  <2>3. CASE e # p /\ f # p
    BY <2>1, <2>3, <1>1, <1>2 DEF OneSequence
  <2>4. CASE e = p /\ f # p
    <3>1. submission[f].pc = "accepted" /\ v.sequence = nextSequence /\ v.sequence = submission[f].sequence
      BY <2>1, <2>4, <1>2
    <3>2. QED
      BY <3>1, <2>2, <1>1
  <2>5. CASE e # p /\ f = p
    <3>1. submission[e].pc = "accepted" /\ v.sequence = nextSequence /\ v.sequence = submission[e].sequence
      BY <2>1, <2>5, <1>2
    <3>2. QED
      BY <3>1, <2>2, <1>1
  <2>6. QED
    BY <2>3, <2>4, <2>5
<1>9. QED
  BY <1>3, <1>5, <1>6, <1>7, <1>8 DEF EntryInv

LEMMA OwnRow ==
  ASSUME NEW h \in Tickets, NEW tif \in {"GTC", "FAK"}, NEW sequence \in Nat,
         NEW own, own = InsertOrder(NoOrders, h, Signed[h], tif, sequence)[h]
  PROVE  own \in OrderRow /\ RowInv(own) /\ Available(own) = Signed[h].outcomeAmount
<1> DEFINE signed == Signed[h]
<1>1. /\ signed.maker \in Makers /\ signed.side \in OrderSide /\ signed.book \in Books
      /\ signed.outcomeAmount \in Nat \ {0} /\ signed.usdcAmount \in Nat \ {0} /\ signed.expiration \in Nat
  BY TicketsAssumption
<1>2. own = [maker |-> signed.maker, side |-> signed.side, book |-> signed.book,
             outcomeAmount |-> signed.outcomeAmount, usdcAmount |-> signed.usdcAmount,
             expiration |-> signed.expiration, timeInForce |-> tif,
             remaining |-> signed.outcomeAmount, pending |-> 0,
             status |-> "LIVE", acceptedSequence |-> sequence]
  BY DEF InsertOrder, NoOrders
<1> HIDE DEF signed
<1>3. own \in OrderRow
  BY <1>1, <1>2 DEF OrderRow, OrderStatus
<1>4. RowInv(own) /\ Available(own) = signed.outcomeAmount
  BY <1>1, <1>2 DEF RowInv, Available
<1>5. QED
  BY <1>3, <1>4 DEF signed

LEMMA MatchOrderSorts ==
  ASSUME NEW taker, NEW rows, NEW S, S = MatchCandidates(taker, rows), IsFiniteSet(S),
         \A a \in S : PricedRow(rows[a]),
         \A a, b \in S : rows[a].acceptedSequence = rows[b].acceptedSequence => a = b
  PROVE  MatchOrder(taker, rows) \in SetToSeqs(S) /\ InPriority(MatchOrder(taker, rows), taker, rows)
<1>1. S \in SUBSET DOMAIN rows
  BY DEF MatchCandidates
<1>2. RowsInOrder(S, taker, rows) \in SetToSeqs(S) /\ InPriority(RowsInOrder(S, taker, rows), taker, rows)
  BY <1>1, CandidatesSort
<1>3. QED
  BY <1>2 DEF MatchOrder, RowsInOrder

(* A request is matched with rows of the table that are not its own. *)
LEMMA AcceptedMatch ==
  ASSUME OrdersInv(orders), DistinctSequences(orders), NEW h \in Tickets, NEW tif \in {"GTC", "FAK"},
         NEW sequence \in Nat, NEW own, own = InsertOrder(NoOrders, h, Signed[h], tif, sequence)[h],
         NEW candidates, candidates = GetMakerCandidatesForTaker(orders, h, own),
         NEW rows, rows = [g \in candidates |-> orders[g]],
         NEW match, match = MatchTakerOrder(own, rows)
  PROVE  \E D \in SUBSET (DOMAIN orders \ {h}) : MatchOf(match, D, Signed[h].outcomeAmount)
<1> DEFINE D == MatchCandidates(own, rows)
<1>1. own \in OrderRow /\ RowInv(own) /\ Available(own) = Signed[h].outcomeAmount
  BY OwnRow
<1>2. candidates \subseteq DOMAIN orders \ {h} /\ DOMAIN rows = candidates /\ \A g \in candidates : rows[g] = orders[g]
  BY DEF GetMakerCandidatesForTaker
<1>3. D \in SUBSET DOMAIN rows /\ \A g \in D : CanMatchCandidate(own, rows[g])
  BY DEF MatchCandidates
<1>4. IsFiniteSet(D)
  <2>1. IsFiniteSet(DOMAIN orders) /\ D \subseteq DOMAIN orders
    BY <1>2, <1>3, TicketsAssumption, FS_Subset DEF OrdersInv
  <2>2. QED
    BY <2>1, FS_Subset
<1>5. \A g \in D : rows[g] \in OrderRow /\ RowInv(rows[g]) /\ Available(rows[g]) > 0
  <2>1. \A g \in D : orders[g] \in OrderRow /\ RowInv(orders[g]) /\ rows[g] = orders[g]
    BY <1>2, <1>3 DEF OrdersInv
  <2>2. QED
    BY <2>1, <1>3 DEF CanMatchCandidate
<1>6. RowsMatch(own, rows, D)
  BY <1>1, <1>3, <1>4, <1>5 DEF RowsMatch
<1>7. \A g \in D : PricedRow(rows[g])
  BY <1>5 DEF PricedRow, OrderRow
<1>8. \A e, g \in D : rows[e].acceptedSequence = rows[g].acceptedSequence => e = g
  BY <1>2, <1>3 DEF DistinctSequences
<1>9. MatchOrder(own, rows) \in SetToSeqs(D)
  BY <1>4, <1>7, <1>8, MatchOrderSorts
<1>10. MatchOf(match, D, Available(own))
  BY <1>6, <1>9, Matched
<1>11. QED
  BY <1>1, <1>2, <1>3, <1>10

-----------------------------------------------------------------------------
(* The invariant holds to begin with, and every step keeps it.               *)

LEMMA EntryInit ==
  ASSUME Init
  PROVE  EntryInv
<1>1. DOMAIN orders = {} /\ DOMAIN trades = {} /\ DOMAIN reservations = {}
  BY DEF Init, NoOrders
<1>2. OrdersInv(orders)
  BY <1>1 DEF OrdersInv
<1>3. reservations \in ReservationTables
  <2>1. reservations \in [{} -> Nat \ {0}] /\ {} \in SUBSET ReservationKeys
    BY <1>1 DEF Init
  <2>2. QED
    BY <2>1 DEF ReservationTables
<1>4. trades \in Seq(EntryTrade)
  BY DEF Init
<1>5. TradesOfOrders(orders, trades) /\ PendingAgrees(orders, trades)
  BY <1>1 DEF TradesOfOrders, PendingAgrees
<1>6. Covered(orders, reservations, trades)
  <2>1. SUFFICES ASSUME NEW key \in ReservationKeys
                 PROVE  Spare(orders, reservations, key)
                          + (IF key[2] = "USDC" THEN FailedIn(orders, trades, key) ELSE 0) >= 0
    BY DEF Covered
  <2>2. GetReservation(reservations, key) = 0
    BY <1>1 DEF GetReservation
  <2>3. WithKey(orders, key) = {}
    BY <1>1 DEF WithKey
  <2>4. NeededIn(orders, key) = 0
    BY <2>3, TotalZero DEF NeededIn
  <2>5. FailedIn(orders, trades, key) = 0
    BY <2>3, TotalZero DEF FailedIn
  <2>6. Spare(orders, reservations, key) = 0
    BY <2>2, <2>4 DEF Spare
  <2>7. QED
    BY <2>5, <2>6
<1>7. SequencesInv(orders, nextSequence) /\ SignedInv(orders)
  BY <1>1 DEF SequencesInv, SignedInv, DistinctSequences, Init
<1>8. DOMAIN submission = Submitters /\ \A p \in Submitters : submission[p] = Idle
  BY DEF Init
<1>9. RequestsInv
  BY <1>8 DEF RequestsInv, RequestInv
<1>10. OneHolder /\ OneSequence
  BY <1>8 DEF OneHolder, OneSequence, HoldsLock, Idle
<1>11. wallet \in [ReservationKeys -> Nat]
  BY OrderEntryAssumption DEF Init
<1>12. IsFiniteSet(DOMAIN reservations)
  BY <1>1, FS_EmptySet
<1>13. QED
  BY <1>2, <1>3, <1>4, <1>5, <1>6, <1>7, <1>9, <1>10, <1>11, <1>12 DEF EntryInv, LedgerInv

(* The facts of the invariant that the steps use. *)
LEMMA EntryFacts ==
  ASSUME EntryInv
  PROVE  /\ LedgerInv(orders, reservations, trades) /\ OrdersInv(orders)
         /\ reservations \in ReservationTables /\ DistinctSequences(orders)
         /\ nextSequence \in Nat /\ wallet \in [ReservationKeys -> Nat]
         /\ DOMAIN submission = Submitters /\ IsFiniteSet(DOMAIN reservations)
         /\ \A p \in Submitters : RequestInv(submission[p], orders, reservations, nextSequence)
BY DEF EntryInv, LedgerInv, SequencesInv, RequestsInv

(* A step of one request before it is accepted, or that ends it. *)
LEMMA CheckingStep ==
  ASSUME EntryInv, NEW p \in Submitters, NEW v, submission' = [submission EXCEPT ![p] = v],
         UNCHANGED <<ledgerVars, wallet>>, nextSequence' = nextSequence,
         RequestInv(v, orders, reservations, nextSequence),
         \A key : HoldsBy(v, key) => \A e \in Submitters : HoldsLock(e, key) => e = p,
         v.pc # "accepted"
  PROVE  EntryInv'
<1>1. nextSequence \in Nat
  BY EntryFacts
<1>2. nextSequence >= nextSequence
  BY <1>1
<1>3. QED
  BY <1>1, <1>2, RequestStep

LEMMA StartSubmitKeeps ==
  ASSUME EntryInv, NEW p \in Submitters, NEW h \in Tickets, NEW tif \in {"GTC", "FAK"}, StartSubmit(p, h, tif)
  PROVE  EntryInv'
<1> DEFINE v == [pc |-> "checking", order |-> h, timeInForce |-> tif, balance |-> {}, reserved |-> {}]
<1>1. /\ submission' = [submission EXCEPT ![p] = v]
      /\ UNCHANGED <<ledgerVars, wallet>> /\ nextSequence' = nextSequence
  BY DEF StartSubmit
<1>2. v \in CheckingRecord /\ v.reserved = {} /\ v.pc = "checking"
  BY DEF CheckingRecord
<1> HIDE DEF v
<1>3. RequestInv(v, orders, reservations, nextSequence)
  BY <1>2 DEF RequestInv
<1>4. \A key : ~HoldsBy(v, key)
  BY <1>2 DEF HoldsBy
<1>5. QED
  BY <1>1, <1>2, <1>3, <1>4, CheckingStep

(* A request that is checking keeps its ticket, whatever it reads. *)
LEMMA CheckingRequest ==
  ASSUME EntryInv, NEW p \in Submitters, submission[p].pc = "checking"
  PROVE  /\ submission[p] \in CheckingRecord
         /\ submission[p].order \in Tickets /\ submission[p].timeInForce \in {"GTC", "FAK"}
         /\ \A x \in submission[p].reserved :
               x \in Nat /\ GetReservation(reservations, ReservationKeyOf(submission[p].order)) <= x
         /\ \A b \in submission[p].balance : b \in Nat
         /\ ReservationKeyOf(submission[p].order) \in ReservationKeys
<1> DEFINE s == submission[p]
<1>1. RequestInv(s, orders, reservations, nextSequence)
  BY EntryFacts
<1> HIDE DEF s
<1>2. s.pc = "checking"
  BY DEF s
<1>3. s \in CheckingRecord /\ \A x \in s.reserved : GetReservation(reservations, ReservationKeyOf(s.order)) <= x
  BY <1>1, <1>2 DEF RequestInv, Idle
<1>4. s.order \in Tickets /\ s.timeInForce \in {"GTC", "FAK"} /\ s.reserved \in SUBSET Nat /\ s.balance \in SUBSET Nat
  BY <1>3 DEF CheckingRecord
<1>5. QED
  BY <1>3, <1>4, KeyOfTicket DEF s

LEMMA ReadBalanceKeeps ==
  ASSUME EntryInv, NEW p \in Submitters, ReadBalance(p)
  PROVE  EntryInv'
<1> DEFINE s == submission[p]
           key == ReservationKeyOf(s.order)
           v == [s EXCEPT !.balance = {wallet[key]}]
<1>1. s.pc = "checking" /\ submission' = [submission EXCEPT ![p] = v]
      /\ UNCHANGED <<ledgerVars, wallet>> /\ nextSequence' = nextSequence
  BY DEF ReadBalance
<1>2. s \in CheckingRecord /\ wallet[key] \in Nat
      /\ \A x \in s.reserved : GetReservation(reservations, key) <= x
  BY <1>1, CheckingRequest, EntryFacts
<1>3. HoldsBy(v, key) => HoldsLock(p, key)
  BY <1>1, <1>2 DEF HoldsBy, HoldsLock, CheckingRecord
<1>4. \A k : HoldsBy(v, k) => k = key
  BY <1>2 DEF HoldsBy, CheckingRecord
<1> HIDE DEF s, key
<1>5. v \in CheckingRecord /\ v.reserved = s.reserved /\ v.order = s.order /\ v.pc = "checking"
  BY <1>1, <1>2 DEF CheckingRecord
<1> HIDE DEF v
<1>6. RequestInv(v, orders, reservations, nextSequence)
  BY <1>2, <1>5 DEF RequestInv, key
<1>7. \A k : HoldsBy(v, k) => \A e \in Submitters : HoldsLock(e, k) => e = p
  BY <1>3, <1>4 DEF EntryInv, OneHolder
<1>8. QED
  BY <1>1, <1>5, <1>6, <1>7, CheckingStep

LEMMA LockKeeps ==
  ASSUME EntryInv, NEW p \in Submitters, LockAndReadReservation(p)
  PROVE  EntryInv'
<1> DEFINE s == submission[p]
           key == ReservationKeyOf(s.order)
           x == GetReservation(reservations, key)
           v == [s EXCEPT !.reserved = {x}]
<1>1. s.pc = "checking" /\ submission' = [submission EXCEPT ![p] = v] /\ LockFree(key)
      /\ UNCHANGED <<ledgerVars, wallet>> /\ nextSequence' = nextSequence
  BY DEF LockAndReadReservation
<1>2. s \in CheckingRecord /\ x \in Nat
  BY <1>1, CheckingRequest, EntryFacts, ReservedNat
<1>3. \A k : HoldsBy(v, k) => k = key
  BY <1>2 DEF HoldsBy, CheckingRecord
<1>4. \A e \in Submitters : ~HoldsLock(e, key)
  BY <1>1 DEF LockFree
<1>5. x <= x
  BY <1>2
<1> HIDE DEF s, key, x
<1>6. v \in CheckingRecord /\ v.reserved = {x} /\ v.order = s.order /\ v.pc = "checking"
  BY <1>1, <1>2 DEF CheckingRecord
<1> HIDE DEF v
<1>7. RequestInv(v, orders, reservations, nextSequence)
  BY <1>5, <1>6 DEF RequestInv, key, x
<1>8. QED
  BY <1>1, <1>3, <1>4, <1>6, <1>7, CheckingStep

LEMMA RollBackKeeps ==
  ASSUME EntryInv, NEW p \in Submitters, RollBack(p)
  PROVE  EntryInv'
<1> DEFINE v == Idle
<1>1. submission' = [submission EXCEPT ![p] = v]
      /\ UNCHANGED <<ledgerVars, wallet>> /\ nextSequence' = nextSequence
  BY DEF RollBack
<1>2. v.pc = "idle" /\ RequestInv(v, orders, reservations, nextSequence) /\ \A k : ~HoldsBy(v, k)
  BY DEF Idle, RequestInv, HoldsBy
<1> HIDE DEF v
<1>3. QED
  BY <1>1, <1>2, CheckingStep

LEMMA AcceptKeeps ==
  ASSUME EntryInv, NEW p \in Submitters, Accept(p)
  PROVE  EntryInv'
<1> DEFINE s == submission[p]
           h == s.order
           tif == s.timeInForce
           n == nextSequence
           key == ReservationKeyOf(h)
           own == InsertOrder(NoOrders, h, Signed[h], tif, n)[h]
           candidates == GetMakerCandidatesForTaker(orders, h, own)
           rows == [g \in candidates |-> orders[g]]
           match == MatchTakerOrder(own, rows)
           v == [pc |-> "accepted", order |-> h, timeInForce |-> tif,
                 balance |-> s.balance, sequence |-> n, match |-> match]
<1>1. /\ s.pc = "checking" /\ s.balance # {} /\ s.reserved # {} /\ Enough(s)
      /\ submission' = [submission EXCEPT ![p] = v]
      /\ UNCHANGED <<ledgerVars, wallet>> /\ nextSequence' = n + 1
  BY DEF Accept
<1>2. /\ s \in CheckingRecord /\ h \in Tickets /\ tif \in {"GTC", "FAK"}
      /\ \A x \in s.reserved : x \in Nat /\ GetReservation(reservations, key) <= x
      /\ \A b \in s.balance : b \in Nat
  BY <1>1, CheckingRequest
<1>3. n \in Nat /\ OrdersInv(orders) /\ DistinctSequences(orders) /\ reservations \in ReservationTables
  BY EntryFacts
<1>4. \E D \in SUBSET (DOMAIN orders \ {h}) : MatchOf(match, D, Signed[h].outcomeAmount)
  <2> HIDE DEF s, h, tif, n
  <2>1. own = InsertOrder(NoOrders, h, Signed[h], tif, n)[h]
    OBVIOUS
  <2> HIDE DEF own
  <2>2. candidates = GetMakerCandidatesForTaker(orders, h, own)
    OBVIOUS
  <2> HIDE DEF candidates
  <2>3. rows = [g \in candidates |-> orders[g]]
    OBVIOUS
  <2> HIDE DEF rows
  <2>4. match = MatchTakerOrder(own, rows)
    OBVIOUS
  <2> HIDE DEF match
  <2>5. QED
    BY <2>1, <2>2, <2>3, <2>4, <1>2, <1>3, AcceptedMatch
<1>5. \A b \in s.balance : GetReservation(reservations, key) + ReservationAmount(h) <= b
  <2> DEFINE got == GetReservation(reservations, key)
             amount == ReservationAmount(h)
  <2>1. got \in Nat /\ amount \in Nat
    BY <1>2, <1>3, ReservedNat, KeyOfTicket
  <2>2. \A b \in s.balance, x \in s.reserved : b - x >= amount
    BY <1>1 DEF Enough
  <2>3. PICK x \in s.reserved : x \in Nat /\ got <= x
    BY <1>1, <1>2
  <2> HIDE DEF got, amount
  <2>4. \A b \in s.balance : got + amount <= b
    BY <2>1, <2>2, <2>3, <1>2
  <2>5. QED
    BY <2>4 DEF got, amount
<1>6. HoldsLock(p, key)
  BY <1>1 DEF HoldsLock
<1>7. /\ v.pc = "accepted" /\ v.order = h /\ v.timeInForce = tif /\ v.balance = s.balance
      /\ v.sequence = n /\ v.match = match
  OBVIOUS
<1>8. \A g \in DOMAIN orders : orders[g].acceptedSequence # n
  <2>1. \A g \in DOMAIN orders : orders[g].acceptedSequence < n /\ orders[g].acceptedSequence \in Nat
    BY <1>3 DEF EntryInv, SequencesInv, OrdersInv, OrderRow
  <2>2. QED
    BY <2>1, <1>3
<1>9. \A e \in Submitters : HoldsLock(e, key) => e = p
  BY <1>6 DEF EntryInv, OneHolder
<1> HIDE DEF s, h, tif, n, match, v
<1>10. AcceptedFrom(v, orders)
  BY <1>2, <1>3, <1>4, <1>7 DEF AcceptedFrom
<1>11. n < n + 1 /\ n + 1 \in Nat /\ n + 1 >= n
  BY <1>3
<1>12. v.sequence < n + 1 /\ v.balance \in SUBSET Nat
  BY <1>2, <1>7, <1>11
<1>13. RequestInv(v, orders, reservations, n + 1)
  BY <1>5, <1>7, <1>8, <1>10, <1>12 DEF RequestInv, key
<1>14. \A k : HoldsBy(v, k) => \A e \in Submitters : HoldsLock(e, k) => e = p
  <2>1. \A k : HoldsBy(v, k) => k = key
    BY <1>7 DEF HoldsBy, key
  <2>2. QED
    BY <2>1, <1>9
<1>15. n = nextSequence
  BY DEF n
<1>16. QED
  BY <1>1, <1>7, <1>11, <1>13, <1>14, <1>15, RequestStep

(* The steps of the tables. *)
LEMMA CancelKeeps ==
  ASSUME EntryInv, NEW h, CancelOrder(h)
  PROVE  EntryInv'
<1> DEFINE key == BuildOrderReservationKey(orders[h])
           release == AvailableRemainderRelease(orders[h])
           q == Ending(orders, h, "CANCELLED")
           u == ReleaseRemainder(reservations, key, release)
<1>1. CancelOrderTx(h) /\ UNCHANGED <<trades, submission, nextSequence, wallet>>
  BY DEF CancelOrder, entryVars
<1>2. OrdersInv(orders) /\ reservations \in ReservationTables /\ LedgerInv(orders, reservations, trades)
  BY EntryFacts
<1>3. /\ orders' = q /\ reservations' = u /\ h \in DOMAIN orders /\ orders[h].status = "LIVE"
      /\ CanReleaseRemainder(reservations, key, release)
  BY <1>1, <1>2, Cancelled
<1>4. EndLeaves(q, u, orders, reservations)
  BY <1>2, <1>3, EndOne
<1> HIDE DEF q, u
<1>5. LedgerInv(q, u, trades)
  BY <1>2, <1>4, LedgerEnds
<1>6. Kept(q, orders) /\ NoneMore(u, reservations)
  BY <1>4 DEF EndLeaves
<1>7. trades' = trades /\ UNCHANGED <<submission, nextSequence, wallet>>
  BY <1>1
<1>8. QED
  BY <1>3, <1>5, <1>6, <1>7, TablesStep

LEMMA SweepKeeps ==
  ASSUME EntryInv, SweepExpiredOrders
  PROVE  EntryInv'
<1>1. PICK swept \in SUBSET GetExpiredAvailableOrders(orders, now) :
             CommitTables(Expired(swept)) /\ UNCHANGED <<trades, entryVars>>
  BY DEF SweepExpiredOrders
<1> DEFINE x == Expired(swept)
           q == x.orders
           u == x.reservations
<1>2. x.ok /\ orders' = q /\ reservations' = u
  BY <1>1 DEF CommitTables
<1>3. OrdersInv(orders) /\ reservations \in ReservationTables /\ LedgerInv(orders, reservations, trades)
  BY EntryFacts
<1>4. EndLeaves(q, u, orders, reservations)
  BY <1>2, <1>3, Swept
<1> HIDE DEF q, u
<1>5. LedgerInv(q, u, trades)
  BY <1>3, <1>4, LedgerEnds
<1>6. Kept(q, orders) /\ NoneMore(u, reservations)
  BY <1>4 DEF EndLeaves
<1>7. trades' = trades /\ UNCHANGED <<submission, nextSequence, wallet>>
  BY <1>1 DEF entryVars
<1>8. QED
  BY <1>2, <1>5, <1>6, <1>7, TablesStep

LEMMA ReconcileKeeps ==
  ASSUME EntryInv, ReconcileReservation
  PROVE  EntryInv'
<1> DEFINE key == Head(reconciler.page)
<1>1. PICK available \in reconciler.available :
        LET plan == PlanReconciliation(key, available) IN
        /\ plan.ok
        /\ orders' = [h \in DOMAIN orders |-> IF h \in plan.cancelled
                        THEN [orders[h] EXCEPT !.status = "CANCELLED"] ELSE orders[h]]
        /\ reservations' = ReleaseRemainder(reservations, key,
                             GetReservation(reservations, key) - plan.reserved)
  BY DEF ReconcileReservation
<1> HIDE DEF key
<1> DEFINE plan == PlanReconciliation(key, available)
           q == EndAll(plan.cancelled)
           u == ReleaseRemainder(reservations, key, GetReservation(reservations, key) - plan.reserved)
<1>2. plan.ok /\ orders' = q /\ reservations' = u
  BY <1>1 DEF EndAll
<1>3. /\ OrdersInv(orders) /\ DistinctSequences(orders)
      /\ reservations \in ReservationTables /\ LedgerInv(orders, reservations, trades)
  BY EntryFacts
<1>4. EndLeaves(q, u, orders, reservations)
  <2> HIDE DEF plan
  <2>1. plan = PlanReconciliation(key, available)
    BY DEF plan
  <2>2. QED
    BY <1>2, <1>3, <2>1, Reconciled
<1> HIDE DEF q, u
<1>5. LedgerInv(q, u, trades)
  BY <1>3, <1>4, LedgerEnds
<1>6. Kept(q, orders) /\ NoneMore(u, reservations)
  BY <1>4 DEF EndLeaves
<1>7. trades' = trades /\ UNCHANGED <<submission, nextSequence, wallet>>
  BY DEF ReconcileReservation
<1>8. QED
  BY <1>2, <1>5, <1>6, <1>7, TablesStep

LEMMA ConfirmKeeps ==
  ASSUME EntryInv, NEW t \in TradeIds, ConfirmTrade(t)
  PROVE  EntryInv'
<1> DEFINE x == Confirmations(t)
           q == x.orders
           u == x.reservations
           N == [trades EXCEPT ![t].status = "CONFIRMED"]
<1>1. trades[t].status = "MATCHED" /\ x.ok /\ orders' = q /\ reservations' = u /\ trades' = N
  BY DEF ConfirmTrade, CommitTables
<1>2. LedgerInv(orders, reservations, trades)
  BY EntryFacts
<1>3. LedgerInv(q, u, N) /\ Kept(q, orders) /\ NoneMore(u, reservations)
  BY <1>1, <1>2, LedgerConfirms
<1> HIDE DEF q, u, N
<1>4. UNCHANGED <<submission, nextSequence, wallet>>
  BY DEF ConfirmTrade, entryVars
<1>5. QED
  BY <1>1, <1>3, <1>4, TablesStep

LEMMA FailKeeps ==
  ASSUME EntryInv, NEW t \in TradeIds, FailTrade(t)
  PROVE  EntryInv'
<1> DEFINE x == Cleanup(t, orders)
           q == x.orders
           u == x.reservations
           N == [trades EXCEPT ![t].status = "FAILED"]
<1>1. EligibleForCleanup(trades[t]) /\ x.ok /\ orders' = q /\ reservations' = u /\ trades' = N
  BY DEF FailTrade, FinalizeFailedTrade, CommitTables
<1>2. LedgerInv(orders, reservations, trades)
  BY EntryFacts
<1>3. trades[t].status = "MATCHED"
  <2>1. trades \in Seq(EntryTrade)
    BY <1>2 DEF LedgerInv
  <2>2. trades[t] \in EntryTrade
    BY <2>1 DEF TradeIds
  <2>3. QED
    BY <1>1, <2>2 DEF EligibleForCleanup, EntryTrade
<1>4. LedgerInv(q, u, N) /\ Kept(q, orders) /\ NoneMore(u, reservations)
  BY <1>1, <1>2, <1>3, LedgerFails
<1> HIDE DEF q, u, N
<1>5. UNCHANGED <<submission, nextSequence, wallet>>
  BY DEF FailTrade, entryVars
<1>6. QED
  BY <1>1, <1>4, <1>5, TablesStep

(* An accepted request may still commit what it matched, and has room for it. *)
LEMMA AcceptedRequest ==
  ASSUME EntryInv, NEW p \in Submitters, NEW s, s = submission[p], s.pc = "accepted"
  PROVE  /\ AcceptedFrom(s, orders) /\ s.sequence \in Nat /\ s.sequence < nextSequence
         /\ \A b \in s.balance : b \in Nat
         /\ s.order \in Tickets /\ ReservationKeyOf(s.order) \in ReservationKeys
         /\ ReservationAmount(s.order) \in Nat
         /\ \A g \in DOMAIN orders : orders[g].acceptedSequence # s.sequence
         /\ \A b \in s.balance :
              GetReservation(reservations, ReservationKeyOf(s.order)) + ReservationAmount(s.order) <= b
<1>1. RequestInv(s, orders, reservations, nextSequence)
  BY EntryFacts
<1>2. /\ AcceptedFrom(s, orders) /\ s.sequence < nextSequence /\ s.balance \in SUBSET Nat
      /\ \A g \in DOMAIN orders : orders[g].acceptedSequence # s.sequence
      /\ \A b \in s.balance :
           GetReservation(reservations, ReservationKeyOf(s.order)) + ReservationAmount(s.order) <= b
  BY <1>1 DEF RequestInv, Idle, CheckingRecord
<1>3. s.sequence \in Nat /\ s.order \in Tickets
  BY <1>2 DEF AcceptedFrom
<1>4. QED
  BY <1>2, <1>3, KeyOfTicket

LEMMA CommitTaken ==
  ASSUME EntryInv, NEW p \in Submitters, Commit(p), NEW s, s = submission[p],
         NEW q, q = orders', NEW u, u = reservations'
  PROVE  /\ s.pc = "accepted" /\ s.order \notin DOMAIN orders
         /\ CommitLeaves(q, u, s)
         /\ trades' = IF HasMatched(s) THEN Append(trades, TradeFrom(s)) ELSE trades
         /\ submission' = [submission EXCEPT ![p] = Idle] /\ UNCHANGED <<nextSequence, wallet>>
<1> DEFINE h == s.order
           key == ReservationKeyOf(h)
           I == InsertOrder(orders, h, Signed[h], s.timeInForce, s.sequence)
           T == IF HasMatched(s) THEN IncreaseAll(I, h, s.match) ELSE I
           R == IncreaseReservation(reservations, key, ReservationAmount(h))
           fak == s.timeInForce = "FAK"
<1>1. /\ s.pc = "accepted" /\ h \notin DOMAIN orders
      /\ (HasMatched(s) => CanIncreaseAll(I, h, s.match))
      /\ q = (IF fak THEN CancelOrderAvailableRemainder(T, h) ELSE T)
      /\ u = (IF fak THEN ReleaseRemainder(R, key, AvailableRemainderRelease(T[h])) ELSE R)
      /\ trades' = (IF HasMatched(s) THEN Append(trades, TradeFrom(s)) ELSE trades)
      /\ submission' = [submission EXCEPT ![p] = Idle] /\ UNCHANGED <<nextSequence, wallet>>
  BY DEF Commit, HasMatched, TradeFrom
<1>2. OrdersInv(orders) /\ reservations \in ReservationTables /\ AcceptedFrom(s, orders)
  BY <1>1, EntryFacts, AcceptedRequest
<1>3. fak \in BOOLEAN
  OBVIOUS
<1>4. CommitLeaves(q, u, s)
  <2> HIDE DEF fak
  <2>1. h = s.order /\ key = ReservationKeyOf(h)
    OBVIOUS
  <2> HIDE DEF h, key
  <2>2. I = InsertOrder(orders, h, Signed[h], s.timeInForce, s.sequence)
    OBVIOUS
  <2> HIDE DEF I
  <2>3. T = IF HasMatched(s) THEN IncreaseAll(I, h, s.match) ELSE I
    OBVIOUS
  <2>4. R = IncreaseReservation(reservations, key, ReservationAmount(h))
    OBVIOUS
  <2> HIDE DEF T, R
  <2>5. QED
    BY <1>1, <1>2, <1>3, <2>1, <2>2, <2>3, <2>4, Committed
<1>5. QED
  BY <1>1, <1>4

(* What a commit does to a request that goes on: it holds another key. *)
LEMMA RequestGoesOn ==
  ASSUME NEW r, RequestInv(r, orders, reservations, nextSequence), reservations \in ReservationTables,
         NEW s, NEW q, NEW u, CommitLeaves(q, u, s),
         \A key : HoldsBy(r, key) => key # ReservationKeyOf(s.order),
         r.pc = "accepted" => r.sequence # s.sequence
  PROVE  RequestInv(r, q, u, nextSequence)
<1> DEFINE key == ReservationKeyOf(r.order)
           a == GetReservation(reservations, key)
           b == GetReservation(u, key)
<1>1. u \in ReservationTables
  BY DEF CommitLeaves
<1>2. a \in Nat /\ b \in Nat
  BY <1>1, ReservedNat
<1>3. HoldsBy(r, key) => b <= a
  <2>1. HoldsBy(r, key) => b <= a + 0
    BY DEF CommitLeaves
  <2> HIDE DEF a, b
  <2>2. QED
    BY <1>2, <2>1
<1>4. CASE r = Idle
  BY <1>4 DEF RequestInv
<1>5. CASE r \in CheckingRecord /\ \A x \in r.reserved : a <= x
  <2>1. r.pc = "checking" /\ \A x \in r.reserved : x \in Nat
    BY <1>5 DEF CheckingRecord
  <2>2. r.reserved # {} => HoldsBy(r, key)
    BY <2>1 DEF HoldsBy
  <2>3. \A x \in r.reserved : b <= x
    <3> HIDE DEF a, b, key
    <3>1. QED
      BY <1>2, <1>3, <1>5, <2>1, <2>2
  <2>4. QED
    BY <1>5, <2>3 DEF RequestInv
<1>6. CASE /\ r.pc = "accepted" /\ AcceptedFrom(r, orders) /\ r.sequence < nextSequence /\ r.balance \in SUBSET Nat
           /\ \A g \in DOMAIN orders : orders[g].acceptedSequence # r.sequence
           /\ \A x \in r.balance : a + ReservationAmount(r.order) <= x
  <2>1. DOMAIN orders \subseteq DOMAIN q
    BY DEF CommitLeaves
  <2>2. AcceptedFrom(r, q)
    BY <2>1, <1>6 DEF AcceptedFrom
  <2>3. \A g \in DOMAIN q : q[g].acceptedSequence # r.sequence
    BY <1>6 DEF CommitLeaves
  <2> DEFINE amount == ReservationAmount(r.order)
  <2>4. amount \in Nat
    BY <1>6, KeyOfTicket DEF AcceptedFrom
  <2>5. HoldsBy(r, key)
    BY <1>6 DEF HoldsBy
  <2>6. \A x \in r.balance : b + amount <= x
    <3> HIDE DEF a, b, amount
    <3>1. \A x \in r.balance : x \in Nat /\ a + amount <= x
      BY <1>6 DEF amount
    <3>2. QED
      BY <3>1, <1>2, <1>3, <2>4, <2>5
  <2>7. QED
    BY <1>6, <2>2, <2>3, <2>6 DEF RequestInv
<1>7. QED
  BY <1>4, <1>5, <1>6 DEF RequestInv

LEMMA CommitKeeps ==
  ASSUME EntryInv, NEW p \in Submitters, Commit(p)
  PROVE  EntryInv'
<1> DEFINE s == submission[p]
<1>1. PICK q, u, N : q = orders' /\ u = reservations' /\ N = trades'
  OBVIOUS
<1>2. /\ s.pc = "accepted" /\ s.order \notin DOMAIN orders /\ CommitLeaves(q, u, s)
      /\ N = (IF HasMatched(s) THEN Append(trades, TradeFrom(s)) ELSE trades)
      /\ submission' = [submission EXCEPT ![p] = Idle] /\ UNCHANGED <<nextSequence, wallet>>
  BY <1>1, CommitTaken
<1>3. /\ AcceptedFrom(s, orders) /\ s.sequence \in Nat /\ s.sequence < nextSequence
      /\ \A g \in DOMAIN orders : orders[g].acceptedSequence # s.sequence
  BY <1>2, AcceptedRequest
<1>4. LedgerInv(orders, reservations, trades) /\ SequencesInv(orders, nextSequence)
      /\ DOMAIN submission = Submitters /\ reservations \in ReservationTables
  BY EntryFacts DEF EntryInv
<1>5. HoldsLock(p, ReservationKeyOf(s.order))
  BY <1>2 DEF HoldsLock
<1>6. LedgerInv(q, u, N)
  <2> HIDE DEF s
  <2>1. QED
    BY <1>2, <1>3, <1>4, LedgerCommits
<1>7. SequencesInv(q, nextSequence) /\ SignedInv(q)
  <2>1. SequencesInv(q, nextSequence)
    BY <1>2, <1>3, <1>4 DEF SequencesInv, DistinctSequences, CommitLeaves
  <2>2. SignedInv(orders)
    BY DEF EntryInv
  <2>3. SignedInv(q)
    BY <1>2, <2>2 DEF SignedInv, CommitLeaves
  <2>4. QED
    BY <2>1, <2>3
<1>8. ASSUME NEW e \in Submitters \ {p} PROVE RequestInv(submission[e], q, u, nextSequence)
  <2> DEFINE r == submission[e]
  <2>1. RequestInv(r, orders, reservations, nextSequence)
    BY EntryFacts
  <2>2. \A key : HoldsBy(r, key) => HoldsLock(e, key)
    BY DEF HoldsBy, HoldsLock
  <2>3. \A key : HoldsBy(r, key) => key # ReservationKeyOf(s.order)
    BY <2>2, <1>5 DEF EntryInv, OneHolder
  <2>4. r.pc = "accepted" => r.sequence # s.sequence
    BY <1>2 DEF EntryInv, OneSequence
  <2> HIDE DEF r, s
  <2>5. RequestInv(r, q, u, nextSequence)
    BY <1>2, <1>4, <2>1, <2>3, <2>4, RequestGoesOn
  <2>6. QED
    BY <2>5 DEF r
<1>9. submission'[p] = Idle /\ \A e \in Submitters \ {p} : submission'[e] = submission[e]
  BY <1>2, <1>4
<1>10. RequestsInv'
  <2>1. DOMAIN submission' = Submitters
    BY <1>2, <1>4
  <2>2. ASSUME NEW e \in Submitters PROVE RequestInv(submission[e], orders, reservations, nextSequence)'
    <3>1. CASE e = p
      BY <3>1, <1>9 DEF RequestInv
    <3>2. CASE e # p
      BY <3>2, <1>1, <1>2, <1>8, <1>9
    <3>3. QED
      BY <3>1, <3>2
  <2>3. QED
    BY <2>1, <2>2 DEF RequestsInv
<1>11. OneHolder' /\ OneSequence'
  <2>1. \A e \in Submitters : \A key : HoldsLock(e, key)' => HoldsLock(e, key)
    BY <1>9 DEF HoldsLock, Idle
  <2>2. \A e \in Submitters : submission'[e].pc = "accepted" => e # p
    BY <1>9 DEF Idle
  <2>3. OneHolder'
    <3>1. \A d, e \in Submitters : \A key : HoldsLock(d, key) /\ HoldsLock(e, key) => d = e
      BY DEF EntryInv, OneHolder
    <3>2. QED
      BY <2>1, <3>1 DEF OneHolder
  <2>4. OneSequence'
    BY <2>2, <1>9 DEF EntryInv, OneSequence
  <2>5. QED
    BY <2>3, <2>4
<1>12. (wallet \in [ReservationKeys -> Nat])'
  BY <1>2, EntryFacts
<1>13. LedgerInv(orders, reservations, trades)'
  BY <1>1, <1>6
<1>14. SequencesInv(orders, nextSequence)' /\ SignedInv(orders)'
  BY <1>1, <1>2, <1>7
<1>15. IsFiniteSet(DOMAIN reservations)'
  <2> DEFINE key == ReservationKeyOf(s.order)
  <2>1. \A k : GetReservation(u, k) <= GetReservation(reservations, k) \/ k = key
    <3>1. ASSUME NEW k, k # key PROVE GetReservation(u, k) <= GetReservation(reservations, k)
      <4>1. GetReservation(u, k) <= GetReservation(reservations, k) + 0
        BY <1>2, <3>1 DEF CommitLeaves
      <4>2. GetReservation(reservations, k) \in Nat
        BY <1>4, ReservedNat
      <4>3. QED
        BY <4>1, <4>2
    <3>2. QED
      BY <3>1
  <2>2. u \in ReservationTables /\ IsFiniteSet(DOMAIN reservations)
    BY <1>2, EntryFacts DEF CommitLeaves
  <2> HIDE DEF key
  <2>3. IsFiniteSet(DOMAIN u)
    BY <1>4, <2>1, <2>2, StaysFinite
  <2>4. QED
    BY <1>1, <2>3
<1>16. QED
  BY <1>10, <1>11, <1>12, <1>13, <1>14, <1>15 DEF EntryInv

LEMMA EntryNext ==
  ASSUME EntryInv, [Next]_vars
  PROVE  EntryInv'
<1>1. ASSUME NEW p \in Submitters, NEW h \in Tickets, NEW tif \in TimeInForce[h], StartSubmit(p, h, tif)
      PROVE  EntryInv'
  <2>1. tif \in {"GTC", "FAK"}
    BY OrderEntryAssumption
  <2>2. QED
    BY <1>1, <2>1, StartSubmitKeeps
<1>2. ASSUME NEW p \in Submitters,
             ReadBalance(p) \/ LockAndReadReservation(p) \/ Accept(p) \/ Commit(p) \/ RollBack(p)
      PROVE  EntryInv'
  BY <1>2, ReadBalanceKeeps, LockKeeps, AcceptKeeps, CommitKeeps, RollBackKeeps
<1>3. ASSUME NEW h \in Cancellable, CancelOrder(h) PROVE EntryInv'
  BY <1>3, CancelKeeps
<1>4. CASE SweepExpiredOrders
  BY <1>4, SweepKeeps
<1>5. CASE ReconcileReservation
  BY <1>5, ReconcileKeeps
<1>6. ASSUME NEW t \in TradeIds, ConfirmTrade(t) \/ FailTrade(t) PROVE EntryInv'
  BY <1>6, ConfirmKeeps, FailKeeps
<1>7. ASSUME UNCHANGED <<ledgerVars, submission, nextSequence>>, (wallet \in [ReservationKeys -> Nat])'
      PROVE  EntryInv'
  <2>1. UNCHANGED <<orders, reservations, trades, submission, nextSequence>>
    BY <1>7 DEF ledgerVars
  <2>2. /\ LedgerInv(orders, reservations, trades) /\ SequencesInv(orders, nextSequence)
        /\ SignedInv(orders) /\ RequestsInv /\ OneHolder /\ OneSequence
    BY DEF EntryInv
  <2>3. /\ LedgerInv(orders, reservations, trades)' /\ SequencesInv(orders, nextSequence)'
        /\ SignedInv(orders)' /\ IsFiniteSet(DOMAIN reservations)'
    BY <2>1, <2>2, EntryFacts
  <2>4. RequestsInv' /\ OneHolder' /\ OneSequence'
    BY <2>1, <2>2 DEF RequestsInv, OneHolder, OneSequence, HoldsLock
  <2>5. QED
    BY <1>7, <2>3, <2>4 DEF EntryInv
<1>8. CASE MoveAssets
  <2>1. PICK w \in Withdrawals : wallet' = [wallet EXCEPT ![w[1]] = w[2]]
    BY <1>8 DEF MoveAssets
  <2>2. w[1] \in ReservationKeys /\ w[2] \in Nat
    BY OrderEntryAssumption
  <2>3. (wallet \in [ReservationKeys -> Nat])'
    BY <2>1, <2>2, EntryFacts
  <2>4. UNCHANGED <<ledgerVars, submission, nextSequence>>
    BY <1>8 DEF MoveAssets
  <2>5. QED
    BY <1>7, <2>3, <2>4
<1>9. CASE \/ StartReconciliation \/ ReadAvailableAmount \/ ReconciliationFails
           \/ MarketMoves \/ Tick \/ UNCHANGED vars
  <2>1. UNCHANGED <<ledgerVars, submission, nextSequence>> /\ wallet' = wallet
    BY <1>9
    DEF StartReconciliation, ReadAvailableAmount, ReconciliationFails, MarketMoves, Tick, vars, entryVars
  <2>2. (wallet \in [ReservationKeys -> Nat])'
    BY <2>1, EntryFacts
  <2>3. QED
    BY <1>7, <2>1, <2>2
<1>10. QED
  BY <1>1, <1>2, <1>3, <1>4, <1>5, <1>6, <1>8, <1>9 DEF Next

(* The tables, the requests under way and the wallets keep EntryInv, from    *)
(* which the promises of order entry follow.                                 *)
THEOREM EntryInvariant == Spec => []EntryInv
<1>1. Init => EntryInv
  BY EntryInit
<1>2. EntryInv /\ [Next]_vars => EntryInv'
  BY EntryNext
<1>3. QED
  BY <1>1, <1>2, PTL DEF Spec

-----------------------------------------------------------------------------
(* What follows from it. *)

LEMMA EntryTyped ==
  ASSUME EntryInv
  PROVE  TypeOK
<1>1. OrdersInv(orders) /\ reservations \in ReservationTables /\ wallet \in [ReservationKeys -> Nat]
  BY EntryFacts
<1>2. DOMAIN orders \subseteq Tickets
  BY <1>1 DEF OrdersInv
<1>3. ASSUME NEW h \in DOMAIN orders
      PROVE  /\ orders[h].status \in OrderStatus
             /\ orders[h].remaining \in 0 .. orders[h].outcomeAmount
             /\ orders[h].pending \in 0 .. orders[h].remaining
             /\ orders[h].status = "FILLED" <=> orders[h].remaining = 0
  <2>1. orders[h] \in OrderRow /\ RowInv(orders[h])
    BY <1>1 DEF OrdersInv
  <2>2. /\ orders[h].remaining \in Nat /\ orders[h].pending \in Nat /\ orders[h].outcomeAmount \in Nat
        /\ orders[h].status \in OrderStatus
    BY <2>1 DEF OrderRow
  <2>3. QED
    BY <2>1, <2>2 DEF RowInv
<1>4. /\ DOMAIN reservations \subseteq ReservationKeys
      /\ \A k \in DOMAIN reservations : reservations[k] \in Nat \ {0}
  BY <1>1 DEF ReservationTables
<1>5. ASSUME NEW t \in TradeIds PROVE trades[t].status \in TradeStatus
  <2>1. trades \in Seq(EntryTrade)
    BY EntryFacts DEF LedgerInv
  <2>2. trades[t] \in EntryTrade
    BY <2>1 DEF TradeIds
  <2>3. QED
    BY <2>2 DEF EntryTrade, TradeStatus
<1>6. QED
  BY <1>1, <1>2, <1>3, <1>4, <1>5 DEF TypeOK

(* The tables of order entry keep the constraints of the schema, whatever    *)
(* the tickets, the requests and the order of the steps.                     *)
THEOREM EntryTypes == Spec => []TypeOK
<1>1. EntryInv => TypeOK
  BY EntryTyped
<1>2. QED
  BY <1>1, EntryInvariant, PTL

LEMMA EntryBalances ==
  ASSUME EntryInv
  PROVE  LedgerBalances
<1>1. LedgerInv(orders, reservations, trades)
  BY EntryFacts
<1>2. \A key : NeededFor(key) = NeededIn(orders, key)
  BY DEF NeededFor, NeededIn, OrdersWithKey, WithKey, SumOver
<1>3. \A key : FailedFills(key) = FailedIn(orders, trades, key)
  BY DEF FailedFills, FailedIn, FailedOf, PartsOf, OrdersOf, TradeIds, OrdersWithKey, WithKey, SumOver
<1>4. ReservationsCoverOrders
  <2>1. SUFFICES ASSUME NEW key \in ReservationKeys
                 PROVE  GetReservation(reservations, key) + (IF key[2] = "USDC" THEN FailedFills(key) ELSE 0)
                          >= NeededFor(key)
    BY DEF ReservationsCoverOrders
  <2> DEFINE a == GetReservation(reservations, key)
             b == NeededFor(key)
             c == FailedFills(key)
  <2>2. a - b + (IF key[2] = "USDC" THEN c ELSE 0) >= 0
    BY <1>1, <1>2, <1>3 DEF LedgerInv, Covered, Spare
  <2>3. a \in Nat /\ b \in Nat
    BY <1>1, <1>2, ReservedNat, NeededInNat DEF LedgerInv
  <2>4. c \in Nat
    <3>1. IsFiniteSet(DOMAIN trades) /\ OrdersInv(orders)
      BY <1>1, TradesFacts DEF LedgerInv
    <3>2. QED
      BY <3>1, <1>3, FailedNat
  <2> HIDE DEF a, b, c
  <2>5. a + (IF key[2] = "USDC" THEN c ELSE 0) >= b
    BY <2>2, <2>3, <2>4
  <2>6. QED
    BY <2>5 DEF a, b, c
<1>5. PendingInOpenTrades
  <2>1. \A h : SumOver({t \in TradeIds : trades[t].status = "MATCHED"}, LAMBDA t : AmountIn(trades[t], h))
                 = PendingIn(trades, h)
    BY DEF PendingIn, OpenIn, TradeIds, SumOver
  <2>2. QED
    BY <1>1, <2>1 DEF LedgerInv, PendingAgrees, PendingInOpenTrades
<1>6. QED
  BY <1>4, <1>5 DEF LedgerBalances

(* A reservation covers what its orders need whatever cancellation, expiry,  *)
(* matching, settlement and cleanup come in which order, but for one unit of *)
(* USDC for each order of a failed trade; and what is pending of an order is *)
(* what its open trades will fill.                                           *)
THEOREM EntryLedger == Spec => []LedgerBalances
<1>1. EntryInv => LedgerBalances
  BY EntryBalances
<1>2. QED
  BY <1>1, EntryInvariant, PTL

LEMMA CommitWithinBalance ==
  ASSUME EntryInv, NEW p \in Submitters, Commit(p)
  PROVE  AdmittedWithinBalance
<1>1. SUFFICES ASSUME NEW e \in Submitters, submission[e].pc = "accepted", submission'[e].pc = "idle",
                      NEW b \in submission[e].balance
               PROVE  GetReservation(reservations', ReservationKeyOf(submission[e].order)) <= b
  BY DEF AdmittedWithinBalance
<1> DEFINE s == submission[e]
           key == ReservationKeyOf(s.order)
           amount == ReservationAmount(s.order)
<1>2. e = p
  <2>1. submission' = [submission EXCEPT ![p] = Idle]
    BY DEF Commit
  <2>2. QED
    BY <1>1, <2>1, EntryFacts
<1>3. PICK q, u : q = orders' /\ u = reservations'
  OBVIOUS
<1>4. CommitLeaves(q, u, s)
  BY <1>2, <1>3, CommitTaken
<1>5. b \in Nat /\ amount \in Nat /\ GetReservation(reservations, key) + amount <= b
  BY <1>1, AcceptedRequest
<1>6. GetReservation(u, key) <= GetReservation(reservations, key) + amount /\ u \in ReservationTables
  BY <1>4 DEF CommitLeaves
<1>7. GetReservation(u, key) \in Nat /\ GetReservation(reservations, key) \in Nat
  BY <1>6, EntryFacts, ReservedNat
<1>8. GetReservation(u, key) <= b
  <2> HIDE DEF key, amount
  <2>1. QED
    BY <1>5, <1>6, <1>7
<1>9. QED
  BY <1>3, <1>8

(* No order is stored beyond the balance its admission read, however many    *)
(* requests of the maker are under way, and whatever is released or traded   *)
(* between the read and the commit.                                          *)
THEOREM EntryAdmission == Spec => AdmissionSerialized
<1>1. ASSUME EntryInv, [Next]_vars PROVE [AdmittedWithinBalance]_vars
  <2>1. ASSUME UNCHANGED submission PROVE AdmittedWithinBalance
    BY <2>1 DEF AdmittedWithinBalance
  <2>2. ASSUME UNCHANGED orders PROVE AdmittedWithinBalance
    BY <2>2 DEF AdmittedWithinBalance
  <2>3. ASSUME NEW p \in Submitters, Commit(p) PROVE AdmittedWithinBalance
    BY <1>1, <2>3, CommitWithinBalance
  <2>4. ASSUME NEW p \in Submitters, NEW h \in Tickets, NEW tif \in TimeInForce[h], StartSubmit(p, h, tif)
        PROVE  AdmittedWithinBalance
    BY <2>2, <2>4 DEF StartSubmit, ledgerVars
  <2>5. ASSUME NEW p \in Submitters, ReadBalance(p) \/ LockAndReadReservation(p) \/ Accept(p) \/ RollBack(p)
        PROVE  AdmittedWithinBalance
    BY <2>2, <2>5 DEF ReadBalance, LockAndReadReservation, Accept, RollBack, ledgerVars
  <2>6. ASSUME NEW h \in Cancellable, CancelOrder(h) PROVE AdmittedWithinBalance
    BY <2>1, <2>6 DEF CancelOrder, entryVars
  <2>7. CASE SweepExpiredOrders
    BY <2>1, <2>7 DEF SweepExpiredOrders, entryVars
  <2>8. CASE StartReconciliation \/ ReadAvailableAmount \/ ReconcileReservation \/ ReconciliationFails
    BY <2>1, <2>8 DEF StartReconciliation, ReadAvailableAmount, ReconcileReservation, ReconciliationFails
  <2>9. ASSUME NEW t \in TradeIds, ConfirmTrade(t) \/ FailTrade(t) PROVE AdmittedWithinBalance
    BY <2>1, <2>9 DEF ConfirmTrade, FailTrade, entryVars
  <2>10. CASE MoveAssets \/ Tick \/ MarketMoves
    BY <2>1, <2>10 DEF MoveAssets, MarketMoves, Tick
  <2>11. CASE UNCHANGED vars
    BY <2>1, <2>11 DEF vars, entryVars
  <2>12. QED
    BY <1>1, <2>3, <2>4, <2>5, <2>6, <2>7, <2>8, <2>9, <2>10, <2>11 DEF Next
<1>2. QED
  BY <1>1, EntryInvariant, PTL DEF Spec, AdmissionSerialized

-----------------------------------------------------------------------------
(* Reconciliation and priority: a plan cancels the newest orders up to the    *)
(* first with which the reservation is within the balance.                   *)

Releases(S) == Total([h \in DOMAIN orders |-> AvailableRemainderRelease(orders[h])], S)
FirstOf(sorted, k) == {sorted[i] : i \in 1 .. k}

PlanTo(x, sorted, j, all, available) ==
  /\ x.cancelled = FirstOf(sorted, j)
  /\ x.reserved = all - Releases(FirstOf(sorted, j))
  /\ \A i \in 1 .. j : all - Releases(FirstOf(sorted, i - 1)) > available
PlanPrefix(x, sorted, k, all, available) ==
  \E j \in 0 .. k : PlanTo(x, sorted, j, all, available) /\ (j < k => x.reserved <= available)

(* What is the order of the candidates, and what they release. *)
InOrder(sorted, n, S) ==
  /\ n \in Nat /\ DOMAIN sorted = 1 .. n /\ \A i \in 1 .. n : sorted[i] \in S
  /\ \A i, j \in 1 .. n : sorted[i] = sorted[j] => i = j
  /\ \A h \in S : \E i \in 1 .. n : sorted[i] = h
  /\ S \subseteq DOMAIN orders /\ IsFiniteSet(S)
  /\ \A h \in S : AvailableRemainderRelease(orders[h]) \in Nat

LEMMA FirstAdds ==
  ASSUME NEW sorted, NEW n, NEW S, InOrder(sorted, n, S), NEW k \in 0 .. n - 1
  PROVE  /\ FirstOf(sorted, k + 1) = FirstOf(sorted, k) \cup {sorted[k + 1]}
         /\ Releases(FirstOf(sorted, k + 1))
              = Releases(FirstOf(sorted, k)) + AvailableRemainderRelease(orders[sorted[k + 1]])
         /\ Releases(FirstOf(sorted, k)) \in Nat
<1> DEFINE T == FirstOf(sorted, k)
           h == sorted[k + 1]
           f == [g \in DOMAIN orders |-> AvailableRemainderRelease(orders[g])]
<1>1. n \in Nat /\ k \in Nat /\ k + 1 \in 1 .. n /\ 1 .. k + 1 = (1 .. k) \cup {k + 1}
      /\ \A i \in 1 .. k : i \in 1 .. n /\ i # k + 1
  BY DEF InOrder
<1>2. FirstOf(sorted, k + 1) = T \cup {h}
  BY <1>1 DEF FirstOf
<1>3. h \notin T
  BY <1>1 DEF InOrder, FirstOf
<1>4. IsFiniteSet(T)
  <2>1. T \subseteq S
    BY <1>1 DEF InOrder, FirstOf
  <2>2. QED
    BY <2>1, FS_Subset DEF InOrder
<1>5. \A g \in T \cup {h} : f[g] \in Nat
  BY <1>1 DEF InOrder, FirstOf
<1>6. f[h] = AvailableRemainderRelease(orders[h])
  BY <1>1 DEF InOrder
<1>7. Releases(T) = Total(f, T) /\ Releases(T \cup {h}) = Total(f, T \cup {h})
  BY DEF Releases
<1> HIDE DEF T, h, f
<1>8. Total(f, T \cup {h}) = Total(f, T) + f[h] /\ Total(f, T) \in Nat
  BY <1>3, <1>4, <1>5, TotalAdd, TotalNat
<1>9. QED
  BY <1>2, <1>6, <1>7, <1>8 DEF T, h

LEMMA PlanPrefixed ==
  ASSUME EntryInv, NEW key, NEW available \in Nat,
         NEW plan, plan = PlanReconciliation(key, available),
         NEW sorted, sorted = NewestFirst(Candidates(key)), NEW n, n = Len(sorted),
         NEW all, all = GetReservation(reservations, key)
  PROVE  PlanPrefix(plan, sorted, n, all, available) /\ InOrder(sorted, n, Candidates(key)) /\ all \in Nat
<1>1. OrdersInv(orders) /\ DistinctSequences(orders) /\ reservations \in ReservationTables
  BY EntryFacts
<1>2. PICK c : PlanRun(c, key, available)
  BY <1>1, PlanSteps
<1>3. InOrder(sorted, n, Candidates(key))
  <2>1. /\ n \in Nat /\ DOMAIN sorted = 1 .. n /\ \A i \in 1 .. n : sorted[i] \in Candidates(key)
        /\ \A i, j \in 1 .. n : sorted[i] = sorted[j] => i = j
        /\ \A h \in Candidates(key) : \E i \in 1 .. n : sorted[i] = h
    <3> DEFINE S == Candidates(key)
    <3>1. S \in SUBSET DOMAIN orders /\ IsFiniteSet(S)
      BY <1>1, CandidatesInOrders
    <3>2. sorted = NewestFirst(S)
      OBVIOUS
    <3> HIDE DEF S
    <3>3. sorted \in SetToSeqs(S)
      BY <1>1, <3>1, <3>2, NewestFirstSorts
    <3>4. /\ sorted \in Seq(S) /\ DOMAIN sorted = 1 .. n /\ n \in Nat
          /\ \A i, j \in DOMAIN sorted : sorted[i] = sorted[j] => i = j
          /\ \A h \in S : \E i \in DOMAIN sorted : sorted[i] = h
      BY <3>1, <3>3, SeqsCover
    <3>5. QED
      BY <3>4 DEF S
  <2>2. /\ Candidates(key) \subseteq DOMAIN orders /\ IsFiniteSet(Candidates(key))
        /\ \A h \in Candidates(key) : AvailableRemainderRelease(orders[h]) \in Nat
    BY <1>1, CandidatesInOrders
  <2>3. QED
    BY <2>1, <2>2 DEF InOrder
<1>4. /\ c \in [0 .. n -> PlanStates] /\ c[n] = plan
      /\ c[0] = [ok |-> TRUE, reserved |-> all, cancelled |-> {}]
      /\ \A k \in 0 .. n - 1 : c[k + 1] = PlanStep(c[k], sorted[k + 1], available)
  BY <1>2 DEF PlanRun
<1>5. all \in Nat /\ n \in Nat
  BY <1>1, <1>3, ReservedNat DEF InOrder
<1>6. PlanPrefix(c[0], sorted, 0, all, available)
  <2>1. FirstOf(sorted, 0) = {}
    BY DEF FirstOf
  <2>2. Releases({}) = 0
    BY TotalZero DEF Releases
  <2>3. PlanTo(c[0], sorted, 0, all, available)
    <3>1. c[0].cancelled = {} /\ c[0].reserved = all /\ all - 0 = all /\ 1 .. 0 = {}
      BY <1>4, <1>5
    <3>2. QED
      BY <3>1, <2>1, <2>2 DEF PlanTo
  <2>4. QED
    BY <2>3 DEF PlanPrefix
<1>7. ASSUME NEW k \in 0 .. n - 1, PlanPrefix(c[k], sorted, k, all, available)
      PROVE  PlanPrefix(c[k + 1], sorted, k + 1, all, available)
  <2> DEFINE x == c[k]
             y == c[k + 1]
             h == sorted[k + 1]
             release == AvailableRemainderRelease(orders[h])
  <2>1. PICK j \in 0 .. k : PlanTo(x, sorted, j, all, available) /\ (j < k => x.reserved <= available)
    BY <1>7 DEF PlanPrefix
  <2>2. k \in Nat /\ k \in 0 .. n /\ k + 1 \in 1 .. n /\ j \in 0 .. k + 1 /\ j < k + 1
    BY <1>5
  <2>3. y = PlanStep(x, h, available) /\ x \in PlanStates
    BY <1>4, <2>2
  <2>4. x.reserved \in Int
    BY <2>3 DEF PlanStates
  <2>5. CASE x.reserved <= available
    <3>1. y = x
      BY <2>3, <2>5 DEF PlanStep
    <3>2. PlanTo(y, sorted, j, all, available) /\ y.reserved <= available
      BY <2>1, <2>5, <3>1
    <3>3. QED
      BY <2>2, <3>2 DEF PlanPrefix
  <2>6. CASE ~(x.reserved <= available)
    <3>1. j = k
      BY <2>1, <2>2, <2>6
    <3>2. y.reserved = x.reserved - release /\ y.cancelled = x.cancelled \cup {h}
      BY <2>3, <2>6 DEF PlanStep
    <3>3. /\ FirstOf(sorted, k + 1) = FirstOf(sorted, k) \cup {h}
          /\ Releases(FirstOf(sorted, k + 1)) = Releases(FirstOf(sorted, k)) + release
          /\ Releases(FirstOf(sorted, k)) \in Nat
      BY <1>3, FirstAdds
    <3>4. release \in Nat
      BY <1>3, <2>2 DEF InOrder
    <3>5. /\ x.cancelled = FirstOf(sorted, k) /\ x.reserved = all - Releases(FirstOf(sorted, k))
          /\ \A i \in 1 .. k : all - Releases(FirstOf(sorted, i - 1)) > available
      BY <2>1, <3>1 DEF PlanTo
    <3> HIDE DEF x, y, h, release
    <3>6. y.reserved = all - Releases(FirstOf(sorted, k + 1))
      BY <1>5, <3>2, <3>3, <3>4, <3>5
    <3>7. all - Releases(FirstOf(sorted, k)) > available
      BY <2>4, <2>6, <3>5
    <3>8. \A i \in 1 .. k + 1 : all - Releases(FirstOf(sorted, i - 1)) > available
      <4>1. \A i \in 1 .. k + 1 : i \in 1 .. k \/ (i = k + 1 /\ i - 1 = k)
        BY <2>2
      <4>2. QED
        BY <4>1, <3>5, <3>7
    <3>9. PlanTo(y, sorted, k + 1, all, available)
      BY <3>2, <3>3, <3>5, <3>6, <3>8 DEF PlanTo
    <3>10. k + 1 \in 0 .. k + 1 /\ ~(k + 1 < k + 1)
      BY <2>2
    <3>11. PlanPrefix(y, sorted, k + 1, all, available)
      BY <3>9, <3>10 DEF PlanPrefix
    <3>12. QED
      BY <3>11 DEF y
  <2>7. QED
    BY <2>5, <2>6
<1>8. PlanPrefix(c[n], sorted, n, all, available)
  <2> DEFINE G == {k \in 0 .. n : PlanPrefix(c[k], sorted, k, all, available)}
  <2>1. 0 \in G
    BY <1>5, <1>6
  <2>2. ASSUME NEW k \in 0 .. n - 1, k \in G PROVE k + 1 \in G
    <3>1. k + 1 \in 0 .. n
      BY <1>5
    <3>2. QED
      BY <2>2, <3>1, <1>7
  <2> HIDE DEF G
  <2>3. n \in G
    BY <2>1, <2>2, <1>5, UpTo
  <2>4. QED
    BY <2>3 DEF G
<1>9. QED
  BY <1>3, <1>4, <1>5, <1>8

(* What the worker read of the chain is one number. *)
ReconcilerStates == [cursor : SUBSET ReservationKeys, page : Seq(ReservationKeys), full : BOOLEAN,
                     available : SUBSET Nat]
ReconcilerInv ==
  /\ reconciler \in ReconcilerStates
  /\ \A a, b \in reconciler.available : a = b

LEMMA ReconciledTo ==
  ASSUME OrdersInv(orders), DistinctSequences(orders), reservations \in ReservationTables, NEW key, NEW available,
         NEW plan, plan = PlanReconciliation(key, available), plan.ok,
         NEW s, s = ReleaseRemainder(reservations, key, GetReservation(reservations, key) - plan.reserved)
  PROVE  GetReservation(s, key) = plan.reserved /\ plan.reserved \in Nat
<1> DEFINE all == GetReservation(reservations, key)
           release == all - plan.reserved
<1>1. PlanAt(plan, Candidates(key), key) /\ plan.reserved \in Int
  BY Planned DEF PlanStates
<1>2. all \in Nat /\ release \in Nat /\ release <= all /\ plan.reserved \in Nat
  <2>1. all \in Nat
    BY ReservedNat
  <2>2. plan.reserved <= all /\ plan.reserved >= 0
    BY <1>1 DEF PlanAt
  <2> HIDE DEF all
  <2>3. QED
    BY <1>1, <2>1, <2>2
<1>3. CanReleaseRemainder(reservations, key, release)
  <2>1. all # 0 => key \in DOMAIN reservations /\ reservations[key] = all
    BY DEF GetReservation
  <2> HIDE DEF release, all
  <2>2. QED
    BY <2>1, <1>2 DEF CanReleaseRemainder, CanDecreaseReservation
<1>4. GetReservation(s, key) = all - release
  <2>1. s = ReleaseRemainder(reservations, key, release)
    OBVIOUS
  <2> HIDE DEF release, all
  <2>2. GetReservation(s, key) = GetReservation(reservations, key) - release
    BY <2>1, <1>2, <1>3, ReleaseTakes
  <2>3. QED
    BY <2>2 DEF all
<1>5. QED
  BY <1>1, <1>2, <1>4

(* A plan against the priority of the orders. *)
PriorityKept(plan, all, available, key) ==
  /\ \A h \in plan.cancelled : h \in DOMAIN orders /\ BuildOrderReservationKey(orders[h]) = key
  /\ \A h \in plan.cancelled, g \in Candidates(key) \ plan.cancelled :
        orders[h].acceptedSequence > orders[g].acceptedSequence
  /\ \A h \in plan.cancelled :
        plan.reserved
          + SumOver({g \in plan.cancelled : orders[g].acceptedSequence <= orders[h].acceptedSequence},
                    LAMBDA g : AvailableRemainderRelease(orders[g])) > available
  /\ Candidates(key) \ plan.cancelled = {} \/ plan.reserved <= available

LEMMA PlanKeepsPriority ==
  ASSUME EntryInv, NEW key, NEW available \in Nat, NEW plan, plan = PlanReconciliation(key, available),
         NEW all, all = GetReservation(reservations, key)
  PROVE  PriorityKept(plan, all, available, key)
<1> DEFINE S == Candidates(key)
<1>1. PICK sorted, n : sorted = NewestFirst(S) /\ n = Len(sorted)
  OBVIOUS
<1>2. PlanPrefix(plan, sorted, n, all, available) /\ InOrder(sorted, n, S) /\ all \in Nat
  BY <1>1, PlanPrefixed
<1>3. PICK j \in 0 .. n : PlanTo(plan, sorted, j, all, available) /\ (j < n => plan.reserved <= available)
  BY <1>2 DEF PlanPrefix
<1>4. /\ n \in Nat /\ j \in Nat /\ j <= n /\ \A i \in 1 .. j : i \in 1 .. n
      /\ plan.cancelled = FirstOf(sorted, j) /\ plan.reserved = all - Releases(FirstOf(sorted, j))
      /\ \A i \in 1 .. j : all - Releases(FirstOf(sorted, i - 1)) > available
  BY <1>2, <1>3 DEF InOrder, PlanTo
<1>5. /\ \A i \in 1 .. n : sorted[i] \in S
      /\ \A i, k \in 1 .. n : sorted[i] = sorted[k] => i = k
      /\ \A h \in S : \E i \in 1 .. n : sorted[i] = h
      /\ S \subseteq DOMAIN orders /\ IsFiniteSet(S) /\ \A h \in S : AvailableRemainderRelease(orders[h]) \in Nat
      /\ DOMAIN sorted = 1 .. n
  BY <1>2 DEF InOrder
<1>6. \A i, k \in 1 .. n : i < k => orders[sorted[i]].acceptedSequence > orders[sorted[k]].acceptedSequence
  <2>1. OrdersInv(orders) /\ DistinctSequences(orders)
    BY EntryFacts
  <2>2. S \in SUBSET DOMAIN orders
    BY <1>5
  <2> HIDE DEF S
  <2>3. QED
    BY <1>1, <1>5, <2>1, <2>2, NewestFirstSorts
<1>7. \A h \in S : orders[h].acceptedSequence \in Nat /\ BuildOrderReservationKey(orders[h]) = key
  <2>1. OrdersInv(orders)
    BY EntryFacts
  <2>2. \A h \in S : BuildOrderReservationKey(orders[h]) = key
    BY <2>1, CandidatesInOrders
  <2>3. QED
    BY <1>5, <2>1, <2>2 DEF OrdersInv, OrderRow
<1> HIDE DEF S
<1>8. \A h \in plan.cancelled : \E i \in 1 .. j : h = sorted[i] /\ h \in S
  BY <1>4, <1>5 DEF FirstOf
<1>9. \A g \in S \ plan.cancelled : \E k \in 1 .. n : g = sorted[k] /\ k > j
  <2>1. SUFFICES ASSUME NEW g \in S, g \notin plan.cancelled PROVE \E k \in 1 .. n : g = sorted[k] /\ k > j
    OBVIOUS
  <2>2. PICK k \in 1 .. n : sorted[k] = g
    BY <1>5
  <2>3. k \notin 1 .. j
    BY <1>4, <2>1, <2>2 DEF FirstOf
  <2>4. QED
    BY <1>4, <2>2, <2>3
<1>10. ASSUME NEW h \in plan.cancelled, NEW g \in S \ plan.cancelled
       PROVE  orders[h].acceptedSequence > orders[g].acceptedSequence
  <2>1. PICK i \in 1 .. j : h = sorted[i]
    BY <1>8
  <2>2. PICK k \in 1 .. n : g = sorted[k] /\ k > j
    BY <1>9
  <2>3. i \in 1 .. n /\ i < k
    BY <1>4, <2>1, <2>2
  <2>4. QED
    BY <1>6, <2>1, <2>2, <2>3
<1>11. ASSUME NEW h \in plan.cancelled
       PROVE  plan.reserved
                + SumOver({g \in plan.cancelled : orders[g].acceptedSequence <= orders[h].acceptedSequence},
                          LAMBDA g : AvailableRemainderRelease(orders[g])) > available
  <2> DEFINE asOld == {g \in plan.cancelled : orders[g].acceptedSequence <= orders[h].acceptedSequence}
             sum == SumOver(asOld, LAMBDA g : AvailableRemainderRelease(orders[g]))
             f == [g \in DOMAIN orders |-> AvailableRemainderRelease(orders[g])]
  <2>1. PICK i \in 1 .. j : h = sorted[i]
    BY <1>8
  <2> DEFINE A == FirstOf(sorted, i - 1)
  <2>2. i \in 1 .. n /\ i \in Nat /\ i - 1 \in Nat /\ \A k \in 1 .. i - 1 : k \in 1 .. j /\ k < i
    BY <1>4, <2>1
  <2>3. \A k \in 1 .. j : orders[sorted[k]].acceptedSequence <= orders[h].acceptedSequence <=> k >= i
    <3>1. SUFFICES ASSUME NEW k \in 1 .. j
                   PROVE  orders[sorted[k]].acceptedSequence <= orders[h].acceptedSequence <=> k >= i
      OBVIOUS
    <3>2. /\ k \in 1 .. n /\ k \in Nat
          /\ orders[sorted[k]].acceptedSequence \in Nat /\ orders[h].acceptedSequence \in Nat
      BY <1>4, <1>5, <1>7, <2>1, <2>2
    <3>3. /\ k < i => orders[sorted[k]].acceptedSequence > orders[h].acceptedSequence
          /\ i < k => orders[h].acceptedSequence > orders[sorted[k]].acceptedSequence
      BY <1>6, <2>1, <2>2, <3>2
    <3>4. QED
      BY <2>1, <2>2, <3>2, <3>3
  <2>4. plan.cancelled = A \cup asOld /\ A \cap asOld = {}
    <3>1. A \subseteq plan.cancelled
      BY <1>4, <2>2 DEF FirstOf
    <3>2. A \cap asOld = {}
      <4>1. \A k \in 1 .. i - 1 : ~(orders[sorted[k]].acceptedSequence <= orders[h].acceptedSequence)
        BY <2>2, <2>3
      <4>2. QED
        BY <4>1 DEF FirstOf
    <3>3. ASSUME NEW g \in plan.cancelled, g \notin asOld PROVE g \in A
      <4>1. PICK k \in 1 .. j : g = sorted[k]
        BY <1>8
      <4>2. ~(orders[sorted[k]].acceptedSequence <= orders[h].acceptedSequence)
        BY <3>3, <4>1
      <4>3. k \in 1 .. i - 1
        BY <2>2, <2>3, <4>1, <4>2
      <4>4. QED
        BY <4>1, <4>3 DEF FirstOf
    <3>4. asOld \subseteq plan.cancelled
      OBVIOUS
    <3> HIDE DEF A, asOld
    <3>5. QED
      BY <3>1, <3>2, <3>3, <3>4
  <2>5. plan.cancelled \subseteq S
    BY <1>8
  <2>6. IsFiniteSet(A) /\ IsFiniteSet(asOld) /\ A \subseteq S /\ asOld \subseteq S
    <3> HIDE DEF A, asOld
    <3>1. QED
      BY <1>5, <2>4, <2>5, FS_Subset
  <2>7. \A g \in S : f[g] \in Nat /\ f[g] = AvailableRemainderRelease(orders[g])
    BY <1>5
  <2>8. sum = Total(f, asOld)
    <3>1. sum = Total([g \in asOld |-> AvailableRemainderRelease(orders[g])], asOld)
      BY DEF SumOver
    <3>2. \A g \in asOld : [e \in asOld |-> AvailableRemainderRelease(orders[e])][g] = f[g]
      BY <2>6, <2>7
    <3> HIDE DEF asOld, f
    <3>3. QED
      BY <3>1, <3>2, TotalEqual
  <2>9. Releases(A) = Total(f, A) /\ Releases(FirstOf(sorted, j)) = Total(f, plan.cancelled)
    BY <1>4 DEF Releases
  <2>10. all - Releases(A) > available /\ plan.reserved = all - Releases(FirstOf(sorted, j))
    BY <1>4, <2>1
  <2> HIDE DEF A, asOld, f, sum
  <2>11. Total(f, plan.cancelled) = Total(f, A) + Total(f, asOld)
    <3>1. \A g \in A \cup asOld : f[g] \in Nat
      BY <2>6, <2>7
    <3>2. QED
      BY <3>1, <2>4, <2>6, TotalUnion
  <2>12. Total(f, A) \in Nat /\ Total(f, asOld) \in Nat
    BY <2>6, <2>7, TotalNat
  <2>13. plan.reserved + sum > available
    BY <1>2, <2>8, <2>9, <2>10, <2>11, <2>12
  <2>14. QED
    BY <2>13 DEF sum, asOld
<1>12. S \ plan.cancelled = {} \/ plan.reserved <= available
  <2>1. CASE j < n
    BY <1>3, <2>1
  <2>2. CASE j = n
    BY <1>9, <1>4, <2>2
  <2>3. QED
    BY <1>4, <2>1, <2>2
<1>13. \A h \in plan.cancelled : h \in DOMAIN orders /\ BuildOrderReservationKey(orders[h]) = key
  BY <1>5, <1>7, <1>8
<1>14. QED
  BY <1>10, <1>11, <1>12, <1>13 DEF PriorityKept, S

LEMMA ReconcileKeepsPriority ==
  ASSUME EntryInv, ReconcilerInv, ReconcileReservation, NEW available \in reconciler.available
  PROVE  ReconciledBy(Head(reconciler.page), available)
<1> DEFINE key == Head(reconciler.page)
           plan == PlanReconciliation(key, available)
           all == GetReservation(reservations, key)
<1>1. PICK q, u : q = EndAll(plan.cancelled) /\ u = ReleaseRemainder(reservations, key, all - plan.reserved)
  OBVIOUS
<1>2. plan.ok /\ orders' = q /\ reservations' = u
  <2>1. PICK a \in reconciler.available :
        LET p == PlanReconciliation(key, a) IN
        /\ p.ok
        /\ orders' = [h \in DOMAIN orders |-> IF h \in p.cancelled
                        THEN [orders[h] EXCEPT !.status = "CANCELLED"] ELSE orders[h]]
        /\ reservations' = ReleaseRemainder(reservations, key, GetReservation(reservations, key) - p.reserved)
    BY DEF ReconcileReservation
  <2>2. a = available
    BY DEF ReconcilerInv
  <2> HIDE DEF key
  <2>3. QED
    BY <1>1, <2>1, <2>2 DEF EndAll
<1>3. /\ OrdersInv(orders) /\ DistinctSequences(orders) /\ reservations \in ReservationTables
      /\ available \in Nat
  BY EntryFacts DEF ReconcilerInv, ReconcilerStates
<1> HIDE DEF key
<1>4. PlanAt(plan, Candidates(key), key)
  BY <1>3, Planned
<1>5. PriorityKept(plan, all, available, key)
  BY <1>3, PlanKeepsPriority
<1>6. GetReservation(u, key) = plan.reserved
  BY <1>1, <1>2, <1>3, ReconciledTo
<1> HIDE DEF plan
<1>7. plan.cancelled \subseteq Candidates(key) /\ PendingSame(q, orders) /\ DOMAIN q = DOMAIN orders
  BY <1>1, <1>4 DEF PlanAt, Kept
<1>8. ASSUME NEW h \in DOMAIN orders
      PROVE  /\ h \in plan.cancelled => q[h].status = "CANCELLED"
             /\ h \notin plan.cancelled => q[h] = orders[h]
             /\ BuildOrderReservationKey(q[h]) = BuildOrderReservationKey(orders[h])
  <2>1. orders[h] \in OrderRow
    BY <1>3 DEF OrdersInv
  <2>2. q[h] = IF h \in plan.cancelled THEN [orders[h] EXCEPT !.status = "CANCELLED"] ELSE orders[h]
    BY <1>1 DEF EndAll
  <2>3. Kept(q, orders)
    BY <1>1, <1>4 DEF PlanAt
  <2>4. BuildOrderReservationKey(q[h]) = BuildOrderReservationKey(orders[h])
    BY <2>3 DEF Kept
  <2>5. [orders[h] EXCEPT !.status = "CANCELLED"].status = "CANCELLED"
    BY <2>1 DEF OrderRow
  <2>6. QED
    BY <2>2, <2>4, <2>5
<1> DEFINE cancelled == {h \in DOMAIN orders : orders[h].status = "LIVE" /\ q[h].status = "CANCELLED"}
           kept == {h \in GetLiveOrdersForReservation(q, key) : AvailableRemainderRelease(q[h]) > 0}
<1>9. cancelled = plan.cancelled
  <2>1. \A h \in Candidates(key) : h \in DOMAIN orders /\ orders[h].status = "LIVE"
    BY DEF Candidates, GetLiveOrdersForReservation, LiveAvailable
  <2>2. QED
    BY <2>1, <1>7, <1>8
<1>10. kept = Candidates(key) \ plan.cancelled
  <2>1. ASSUME NEW h \in kept PROVE h \in Candidates(key) \ plan.cancelled
    <3>1. h \in DOMAIN orders /\ q[h].status = "LIVE"
      BY <1>7, <2>1 DEF GetLiveOrdersForReservation, LiveAvailable
    <3>2. h \notin plan.cancelled /\ q[h] = orders[h]
      BY <3>1, <1>8
    <3>3. QED
      BY <2>1, <3>1, <3>2 DEF Candidates, GetLiveOrdersForReservation
  <2>2. ASSUME NEW h \in Candidates(key), h \notin plan.cancelled PROVE h \in kept
    <3>1. h \in DOMAIN orders
      BY DEF Candidates, GetLiveOrdersForReservation
    <3>2. q[h] = orders[h] /\ h \in DOMAIN q
      BY <3>1, <2>2, <1>7, <1>8
    <3>3. QED
      BY <3>2 DEF Candidates, GetLiveOrdersForReservation
  <2>3. QED
    BY <2>1, <2>2
<1>11. \A h \in DOMAIN orders : q[h].pending = orders[h].pending
  BY <1>7 DEF PendingSame
<1> HIDE DEF cancelled, kept
<1>12. \A h \in kept : q[h].acceptedSequence = orders[h].acceptedSequence /\ h \in Candidates(key) \ plan.cancelled
  <2>1. \A h \in kept : h \in Candidates(key) \ plan.cancelled /\ h \in DOMAIN orders
    BY <1>10 DEF Candidates, GetLiveOrdersForReservation
  <2>2. QED
    BY <2>1, <1>8
<1>13. /\ \A h \in cancelled : BuildOrderReservationKey(orders[h]) = key
       /\ \A h \in cancelled, g \in kept : orders[h].acceptedSequence > orders[g].acceptedSequence
       /\ \A h \in cancelled :
            GetReservation(u, key)
              + SumOver({g \in cancelled : orders[g].acceptedSequence <= orders[h].acceptedSequence},
                        LAMBDA g : AvailableRemainderRelease(orders[g])) > available
       /\ kept = {} \/ GetReservation(u, key) <= available
  BY <1>5, <1>6, <1>9, <1>10 DEF PriorityKept
<1>14. ReconciledBy(key, available)
  BY <1>2, <1>11, <1>13 DEF ReconciledBy, cancelled, kept
<1>15. QED
  BY <1>14 DEF key

(* The page of a batch is of reservations, sorted by their keys. *)
LEMMA PageOfKeys ==
  ASSUME reservations \in ReservationTables, IsFiniteSet(DOMAIN reservations), NEW after
  PROVE  GetReservationsPage(reservations, Scanned, KeyRank, after, PageLimit) \in Seq(ReservationKeys)
<1> DEFINE later == {k \in DOMAIN reservations \cap Scanned :
                       after = {} \/ \A a \in after : KeyRank[k] > KeyRank[a]}
           R == {z \in later \X later : KeyRank[z[1]] < KeyRank[z[2]]}
           P(s) == \A i, j \in DOMAIN s : i < j => KeyRank[s[i]] < KeyRank[s[j]]
           sorted == CHOOSE s \in SetToSeqs(later) : P(s)
<1>1. IsFiniteSet(later) /\ later \subseteq ReservationKeys
  <2>1. DOMAIN reservations \subseteq ReservationKeys
    BY DEF ReservationTables
  <2>2. QED
    BY <2>1, FS_Subset
<1>2. Orders(R, later)
  <2>1. \A a, b \in later : <<a, b>> \in R <=> KeyRank[a] < KeyRank[b]
    OBVIOUS
  <2>2. \A a \in later : KeyRank[a] \in Nat
    BY <1>1, OrderEntryAssumption
  <2>3. \A a, b \in later : a # b => KeyRank[a] # KeyRank[b]
    BY <1>1, OrderEntryAssumption
  <2> HIDE DEF R, later
  <2>4. \A a, b \in later : a # b => <<a, b>> \in R \/ <<b, a>> \in R
    BY <2>1, <2>2, <2>3
  <2>5. ASSUME NEW a \in later, NEW b \in later, NEW c \in later, <<a, b>> \in R, <<b, c>> \in R
        PROVE  <<a, c>> \in R
    BY <2>1, <2>2, <2>5
  <2>6. QED
    BY <2>4, <2>5 DEF Orders
<1>3. PICK s \in SetToSeqs(later) : Sorted(s, R)
  BY <1>1, <1>2, SortedExists
<1>4. P(s)
  BY <1>3 DEF Sorted
<1>5. sorted \in SetToSeqs(later)
  BY <1>3, <1>4
<1>6. GetReservationsPage(reservations, Scanned, KeyRank, after, PageLimit)
        = SubSeq(sorted, 1, Smaller(PageLimit, Len(sorted)))
  BY DEF GetReservationsPage, SortedBy
<1> HIDE DEF sorted, later
<1>7. sorted \in Seq(later) /\ Len(sorted) \in Nat
  BY <1>1, <1>5, SeqsCover
<1>8. sorted \in Seq(ReservationKeys)
  BY <1>1, <1>7
<1> DEFINE m == Smaller(PageLimit, Len(sorted))
<1>9. m \in Nat /\ m <= Len(sorted)
  BY <1>7, OrderEntryAssumption DEF Smaller
<1> HIDE DEF m
<1>10. SubSeq(sorted, 1, m) \in Seq(ReservationKeys)
  BY <1>8, <1>9
<1>11. QED
  BY <1>6, <1>10 DEF m

LEMMA ReconcilerKeeps ==
  ASSUME EntryInv, ReconcilerInv, [Next]_vars
  PROVE  ReconcilerInv'
<1>1. /\ reconciler \in ReconcilerStates /\ \A a, b \in reconciler.available : a = b
      /\ reconciler.page \in Seq(ReservationKeys) /\ reconciler.cursor \in SUBSET ReservationKeys
      /\ reconciler.full \in BOOLEAN /\ reconciler.available \in SUBSET Nat
  BY DEF ReconcilerInv, ReconcilerStates
<1>2. CASE UNCHANGED reconciler
  BY <1>2 DEF ReconcilerInv
<1>3. CASE StartReconciliation
  <2>1. PICK page : page = GetReservationsPage(reservations, Scanned, KeyRank, reconciler.cursor, PageLimit)
    OBVIOUS
  <2>2. reconciler' = [cursor |-> IF page = <<>> THEN {} ELSE reconciler.cursor,
                       page |-> page, full |-> Len(page) = PageLimit, available |-> {}]
    BY <1>3, <2>1 DEF StartReconciliation
  <2>3. page \in Seq(ReservationKeys)
    BY <2>1, EntryFacts, PageOfKeys
  <2>4. reconciler' \in ReconcilerStates /\ reconciler'.available = {}
    BY <1>1, <2>2, <2>3 DEF ReconcilerStates
  <2>5. QED
    BY <2>4 DEF ReconcilerInv
<1>4. CASE ReadAvailableAmount
  <2>1. PICK b : b = wallet[Head(reconciler.page)]
    OBVIOUS
  <2>2. reconciler.page # <<>> /\ reconciler' = [reconciler EXCEPT !.available = {b}]
    BY <1>4, <2>1 DEF ReadAvailableAmount
  <2>3. Head(reconciler.page) \in ReservationKeys
    BY <1>1, <2>2
  <2>4. b \in Nat
    BY <2>1, <2>3, EntryFacts
  <2>5. reconciler' \in ReconcilerStates /\ reconciler'.available = {b}
    BY <1>1, <2>2, <2>4 DEF ReconcilerStates
  <2>6. QED
    BY <2>5 DEF ReconcilerInv
<1>5. CASE ReconcileReservation
  <2>1. PICK key : key = Head(reconciler.page)
    OBVIOUS
  <2>2. PICK last : last = (Len(reconciler.page) = 1)
    OBVIOUS
  <2>3. /\ reconciler.page # <<>>
        /\ reconciler' = [cursor |-> IF last /\ reconciler.full THEN {key}
                                     ELSE IF last THEN {} ELSE reconciler.cursor,
                          page |-> Tail(reconciler.page),
                          full |-> reconciler.full /\ ~last, available |-> {}]
    BY <1>5, <2>1, <2>2 DEF ReconcileReservation
  <2>4. key \in ReservationKeys /\ Tail(reconciler.page) \in Seq(ReservationKeys)
    BY <1>1, <2>1, <2>3
  <2>5. reconciler'.cursor \in SUBSET ReservationKeys
    BY <1>1, <2>3, <2>4
  <2>6. (reconciler.full /\ ~last) \in BOOLEAN
    OBVIOUS
  <2>7. reconciler' \in ReconcilerStates /\ reconciler'.available = {}
    BY <2>3, <2>4, <2>5, <2>6 DEF ReconcilerStates
  <2>8. QED
    BY <2>7 DEF ReconcilerInv
<1>6. CASE ReconciliationFails
  <2>1. reconciler' = [cursor |-> reconciler.cursor, page |-> <<>>, full |-> FALSE, available |-> {}]
    BY <1>6 DEF ReconciliationFails, IdleReconciler
  <2>2. reconciler' \in ReconcilerStates /\ reconciler'.available = {}
    BY <1>1, <2>1 DEF ReconcilerStates
  <2>3. QED
    BY <2>2 DEF ReconcilerInv
<1>7. QED
  BY <1>2, <1>3, <1>4, <1>5, <1>6
  DEF Next, StartSubmit, ReadBalance, LockAndReadReservation, Accept, Commit, RollBack, CancelOrder,
      SweepExpiredOrders, ConfirmTrade, FailTrade, MoveAssets, MarketMoves, Tick, vars, entryVars

(* The reconciliation carries keys of the table, and of the key it works on  *)
(* at most one balance.                                                      *)
THEOREM ReconcilerInvariant == Spec => []ReconcilerInv
<1>1. Init => ReconcilerInv
  BY DEF Init, IdleReconciler, ReconcilerInv, ReconcilerStates
<1>2. EntryInv /\ ReconcilerInv /\ [Next]_vars => ReconcilerInv'
  BY ReconcilerKeeps
<1>3. QED
  BY <1>1, <1>2, EntryInvariant, PTL DEF Spec

(* Reconciliation cancels no older order before a newer one and none it need *)
(* not, however many orders share a reservation and whatever changed since   *)
(* the balance was read.                                                     *)
THEOREM EntryReconciliation == Spec => ReconciliationKeepsPriority
<1> DEFINE A == ReconcileReservation =>
                  \A available \in reconciler.available : ReconciledBy(Head(reconciler.page), available)
<1>1. ASSUME EntryInv, ReconcilerInv PROVE [A]_vars
  BY <1>1, ReconcileKeepsPriority
<1> HIDE DEF A
<1>2. ReconciliationKeepsPriority <=> [][A]_vars
  BY PTL DEF ReconciliationKeepsPriority, A
<1>3. QED
  BY <1>1, <1>2, EntryInvariant, ReconcilerInvariant, PTL DEF Spec

-----------------------------------------------------------------------------
(* Matching: the table a match is computed from leaves out no order that      *)
(* crosses, so what the loop does among its rows is best in the whole book.   *)

(* A row of h has the side that was signed, so it does not cross h itself. *)
LEMMA CrossingRows ==
  ASSUME OrdersInv(orders), SignedInv(orders), NEW h \in Tickets, NEW tif \in {"GTC", "FAK"},
         NEW sequence \in Nat, NEW own, own = InsertOrder(NoOrders, h, Signed[h], tif, sequence)[h],
         NEW candidates, candidates = GetMakerCandidatesForTaker(orders, h, own),
         NEW rows, rows = [g \in candidates |-> orders[g]]
  PROVE  MatchCandidates(own, orders) = MatchCandidates(own, rows)
<1>1. own.side = Signed[h].side /\ own.book = Signed[h].book /\ own \in OrderRow
  <2>1. own.side = Signed[h].side /\ own.book = Signed[h].book
    BY DEF InsertOrder, NoOrders
  <2>2. QED
    BY <2>1, OwnRow
<1>2. candidates \subseteq DOMAIN orders /\ DOMAIN rows = candidates /\ \A g \in candidates : rows[g] = orders[g]
  BY DEF GetMakerCandidatesForTaker
<1>3. ASSUME NEW g \in DOMAIN orders, CanMatchCandidate(own, orders[g]) PROVE g \in candidates
  <2> DEFINE row == orders[g]
  <2>1. row \in OrderRow /\ row.remaining \in Nat /\ row.pending \in Nat /\ row.side \in {"BUY", "SELL"}
    BY DEF OrdersInv, OrderRow, OrderSide
  <2>2. row.status = "LIVE" /\ Available(row) > 0 /\ own.book = row.book /\ own.side # row.side
    BY <1>3 DEF CanMatchCandidate
  <2>3. LiveAvailable(row) /\ row.side = Opposite(own.side)
    <3>1. own.side \in {"BUY", "SELL"}
      BY <1>1 DEF OrderRow, OrderSide
    <3>2. row.remaining > row.pending
      BY <2>1, <2>2 DEF Available
    <3>3. QED
      BY <2>1, <2>2, <3>1, <3>2 DEF LiveAvailable, Opposite
  <2>4. g # h
    <3>1. SUFFICES ASSUME g = h PROVE FALSE
      OBVIOUS
    <3>2. BuildOrderReservationKey(row) = BuildOrderReservationKey(Signed[h])
      BY <3>1 DEF SignedInv, ReservationKeyOf
    <3>3. AssetOf(row) = AssetOf(Signed[h])
      BY <3>2 DEF BuildOrderReservationKey
    <3>4. row.book \in Books /\ Signed[h].book \in Books /\ Signed[h].side \in {"BUY", "SELL"} /\ "USDC" \notin Books
      BY <2>1, TicketsAssumption DEF OrderRow, OrderSide
    <3>5. (row.side = "BUY") <=> (Signed[h].side = "BUY")
      BY <3>3, <3>4 DEF AssetOf
    <3>6. QED
      BY <1>1, <2>1, <2>2, <3>4, <3>5
  <2>5. QED
    BY <2>2, <2>3, <2>4 DEF GetMakerCandidatesForTaker
<1>4. \A g : g \in MatchCandidates(own, orders) <=> g \in MatchCandidates(own, rows)
  BY <1>2, <1>3 DEF MatchCandidates
<1>5. QED
  BY <1>4

LEMMA AcceptedIsBest ==
  ASSUME OrdersInv(orders), DistinctSequences(orders), SignedInv(orders),
         NEW h \in Tickets, NEW tif \in {"GTC", "FAK"},
         NEW sequence \in Nat, NEW own, own = InsertOrder(NoOrders, h, Signed[h], tif, sequence)[h],
         NEW candidates, candidates = GetMakerCandidatesForTaker(orders, h, own),
         NEW rows, rows = [g \in candidates |-> orders[g]]
  PROVE  BestMatch(own, orders, MatchTakerOrder(own, rows))
<1> DEFINE D == MatchCandidates(own, rows)
<1>1. own \in OrderRow /\ RowInv(own)
  BY OwnRow
<1>2. candidates \subseteq DOMAIN orders /\ DOMAIN rows = candidates /\ \A g \in candidates : rows[g] = orders[g]
  BY DEF GetMakerCandidatesForTaker
<1>3. D \in SUBSET DOMAIN rows /\ \A g \in D : CanMatchCandidate(own, rows[g])
  BY DEF MatchCandidates
<1>4. IsFiniteSet(D)
  <2>1. IsFiniteSet(DOMAIN orders) /\ D \subseteq DOMAIN orders
    BY <1>2, <1>3, TicketsAssumption, FS_Subset DEF OrdersInv
  <2>2. QED
    BY <2>1, FS_Subset
<1>5. \A g \in D : rows[g] \in OrderRow /\ RowInv(rows[g]) /\ Available(rows[g]) > 0
  <2>1. \A g \in D : orders[g] \in OrderRow /\ RowInv(orders[g]) /\ rows[g] = orders[g]
    BY <1>2, <1>3 DEF OrdersInv
  <2>2. QED
    BY <2>1, <1>3 DEF CanMatchCandidate
<1>6. RowsMatch(own, rows, D)
  BY <1>1, <1>3, <1>4, <1>5 DEF RowsMatch
<1>7. \A g \in D : PricedRow(rows[g])
  BY <1>5 DEF PricedRow, OrderRow
<1>8. \A e, g \in D : rows[e].acceptedSequence = rows[g].acceptedSequence => e = g
  BY <1>2, <1>3 DEF DistinctSequences
<1>9. MatchOrder(own, rows) \in SetToSeqs(D) /\ InPriority(MatchOrder(own, rows), own, rows)
  BY <1>4, <1>7, <1>8, MatchOrderSorts
<1>10. MatchCandidates(own, orders) = D
  BY CrossingRows
<1>11. \A g \in D : orders[g] = rows[g]
  BY <1>2, <1>3
<1>12. QED
  BY <1>6, <1>7, <1>9, <1>10, <1>11, MatchIsBest

BestMatchOf(p) ==
  LET taker == InsertOrder(NoOrders, submission[p].order, Signed[submission[p].order],
                           submission[p].timeInForce, nextSequence)[submission[p].order]
  IN BestMatch(taker, orders, submission'[p].match)

LEMMA AcceptIsBest ==
  ASSUME EntryInv, NEW p \in Submitters, Accept(p)
  PROVE  BestMatchOf(p) /\ \A q \in Submitters : q # p => submission'[q] = submission[q]
<1> DEFINE s == submission[p]
           h == s.order
           tif == s.timeInForce
           n == nextSequence
           own == InsertOrder(NoOrders, h, Signed[h], tif, n)[h]
           candidates == GetMakerCandidatesForTaker(orders, h, own)
           rows == [g \in candidates |-> orders[g]]
           match == MatchTakerOrder(own, rows)
           v == [pc |-> "accepted", order |-> h, timeInForce |-> tif,
                 balance |-> s.balance, sequence |-> n, match |-> match]
<1>1. s.pc = "checking" /\ submission' = [submission EXCEPT ![p] = v] /\ DOMAIN submission = Submitters
  BY EntryFacts DEF Accept
<1>2. h \in Tickets /\ tif \in {"GTC", "FAK"}
  BY <1>1, CheckingRequest
<1>3. n \in Nat /\ OrdersInv(orders) /\ DistinctSequences(orders) /\ SignedInv(orders)
  BY EntryFacts DEF EntryInv
<1>4. BestMatch(own, orders, match)
  <2> HIDE DEF s, h, tif, n
  <2>1. own = InsertOrder(NoOrders, h, Signed[h], tif, n)[h]
    OBVIOUS
  <2> HIDE DEF own
  <2>2. candidates = GetMakerCandidatesForTaker(orders, h, own)
    OBVIOUS
  <2> HIDE DEF candidates
  <2>3. rows = [g \in candidates |-> orders[g]]
    OBVIOUS
  <2> HIDE DEF rows
  <2>4. QED
    BY <2>1, <2>2, <2>3, <1>2, <1>3, AcceptedIsBest
<1>5. v.match = match
  OBVIOUS
<1> HIDE DEF v, match
<1>6. submission'[p].match = match /\ \A q \in Submitters : q # p => submission'[q] = submission[q]
  BY <1>1, <1>5
<1>7. QED
  BY <1>4, <1>6 DEF BestMatchOf

(* Whatever was committed since a request was checked, it is matched with    *)
(* the best prices and the oldest orders of each price there are, each for   *)
(* all it has of what those ahead of it left, within the limit it signed.    *)
THEOREM EntryMatching == Spec => MatchesHonourBook
<1> DEFINE A == \A p \in Submitters :
                  submission[p].pc = "checking" /\ submission'[p].pc = "accepted" =>
                    LET h == submission[p].order
                        tif == submission[p].timeInForce
                        taker == InsertOrder(NoOrders, h, Signed[h], tif, nextSequence)[h]
                    IN BestMatch(taker, orders, submission'[p].match)
           B == \A p \in Submitters :
                  submission[p].pc = "checking" /\ submission'[p].pc = "accepted" => BestMatchOf(p)
<1>1. A <=> B
  BY DEF BestMatchOf
<1> HIDE DEF A
<1>2. ASSUME EntryInv, [Next]_vars PROVE [B]_vars
  <2>1. ASSUME NEW p \in Submitters, Accept(p) PROVE B
    <3>1. /\ BestMatchOf(p)
          /\ \A q \in Submitters : q # p => submission'[q] = submission[q]
      BY <1>2, <2>1, AcceptIsBest
    <3>2. QED
      BY <3>1
  <2>2. ASSUME NEW p \in Submitters, NEW v, submission' = [submission EXCEPT ![p] = v], v.pc # "accepted"
        PROVE  B
    <3>1. DOMAIN submission = Submitters
      BY <1>2, EntryFacts
    <3>2. \A q \in Submitters : submission'[q] = IF q = p THEN v ELSE submission[q]
      BY <2>2, <3>1
    <3>3. \A q \in Submitters : ~ (submission[q].pc = "checking" /\ submission'[q].pc = "accepted")
      BY <2>2, <3>2
    <3>4. QED
      BY <3>3
  <2>3. ASSUME UNCHANGED submission PROVE B
    <3>1. \A q \in Submitters : submission'[q].pc = submission[q].pc
      BY <2>3
    <3>2. QED
      BY <3>1
  <2> HIDE DEF B
  <2>4. ASSUME NEW p \in Submitters, NEW h \in Tickets, NEW tif \in TimeInForce[h], StartSubmit(p, h, tif)
        PROVE  B
    <3> DEFINE v == [pc |-> "checking", order |-> h, timeInForce |-> tif, balance |-> {}, reserved |-> {}]
    <3>1. v.pc # "accepted" /\ submission' = [submission EXCEPT ![p] = v]
      BY <2>4 DEF StartSubmit
    <3> HIDE DEF v
    <3>2. QED
      BY <3>1, <2>2
  <2>5. ASSUME NEW p \in Submitters, ReadBalance(p) \/ LockAndReadReservation(p) PROVE B
    <3> DEFINE s == submission[p]
               v == [s EXCEPT !.balance = {wallet[ReservationKeyOf(s.order)]}]
               w == [s EXCEPT !.reserved = {GetReservation(reservations, ReservationKeyOf(s.order))}]
    <3>1. s.pc = "checking" /\ s \in CheckingRecord
      BY <2>5, <1>2, CheckingRequest DEF ReadBalance, LockAndReadReservation
    <3>2. v.pc # "accepted" /\ w.pc # "accepted"
      BY <3>1 DEF CheckingRecord
    <3>3. submission' = [submission EXCEPT ![p] = v] \/ submission' = [submission EXCEPT ![p] = w]
      BY <2>5 DEF ReadBalance, LockAndReadReservation
    <3> HIDE DEF v, w
    <3>4. QED
      BY <2>2, <3>2, <3>3
  <2>6. ASSUME NEW p \in Submitters, Commit(p) \/ RollBack(p) PROVE B
    <3>1. Idle.pc # "accepted" /\ submission' = [submission EXCEPT ![p] = Idle]
      BY <2>6 DEF Commit, RollBack, Idle
    <3>2. QED
      BY <2>2, <3>1
  <2>7. ASSUME NEW h \in Cancellable, CancelOrder(h) PROVE B
    BY <2>3, <2>7 DEF CancelOrder, entryVars
  <2>8. CASE SweepExpiredOrders
    BY <2>3, <2>8 DEF SweepExpiredOrders, entryVars
  <2>9. CASE StartReconciliation \/ ReadAvailableAmount \/ ReconcileReservation \/ ReconciliationFails
    BY <2>3, <2>9 DEF StartReconciliation, ReadAvailableAmount, ReconcileReservation, ReconciliationFails
  <2>10. ASSUME NEW t \in TradeIds, ConfirmTrade(t) \/ FailTrade(t) PROVE B
    BY <2>3, <2>10 DEF ConfirmTrade, FailTrade, entryVars
  <2>11. CASE MoveAssets \/ Tick \/ MarketMoves
    BY <2>3, <2>11 DEF MoveAssets, MarketMoves, Tick
  <2>12. CASE UNCHANGED vars
    BY <2>3, <2>12 DEF vars, entryVars
  <2>13. QED
    BY <1>2, <2>1, <2>4, <2>5, <2>6, <2>7, <2>8, <2>9, <2>10, <2>11, <2>12 DEF Next
<1> HIDE DEF B
<1>3. ASSUME EntryInv, [Next]_vars PROVE [A]_vars
  BY <1>1, <1>2, <1>3
<1>4. MatchesHonourBook <=> [][A]_vars
  BY PTL DEF MatchesHonourBook, A
<1>5. QED
  BY <1>3, <1>4, EntryInvariant, PTL DEF Spec

-----------------------------------------------------------------------------
(* The ticket of the page accepts what is typed exactly if the order would   *)
(* pass the server's checks of it against the configuration.                 *)

LEMMA InputIsValid ==
  ASSUME NEW h \in Tickets
  PROVE  LET book == Signed[h].book
         IN /\ h \in ValidTickets => Config[book].clobEnabled
            /\ NoOrderInputPreflightError(h) => MarketState(book) = "Active"
            /\ Config[book].clobEnabled /\ MarketState(book) = "Active" =>
                 (NoOrderInputPreflightError(h) <=> h \in ValidTickets)
<1> DEFINE config == Config[Signed[h].book]
           price == Signed[h].price
<1>1. GetMarketTickUnits(price, config) = GetTickUnits(price, config)
  BY DEF GetMarketTickUnits, GetTickUnits
<1> DEFINE exact == UsdcAmountExact(price, Signed[h].outcomeAmount)
           same == DeriveUsdcAmount(price, Signed[h].outcomeAmount) = Signed[h].usdcAmount
           inside == Signed[h].outcomeAmount \in config.minOrder .. config.maxOrder
           tick == price % GetTickUnits(price, config) = 0
           active == MarketState(Signed[h].book) = "Active"
<1>2. NoOrderInputPreflightError(h) <=> price > 0 /\ exact /\ same /\ active /\ tick /\ inside
  BY <1>1 DEF NoOrderInputPreflightError, InputFits, HasPreview
<1>3. h \in ValidTickets <=> exact /\ same /\ config.clobEnabled /\ price > 0 /\ tick /\ inside
  BY DEF ValidTickets, ValidTick, OrderSizeWithinConfig
<1> DEFINE enabled == config.clobEnabled
<1>4. /\ NoOrderInputPreflightError(h) <=> price > 0 /\ exact /\ same /\ active /\ tick /\ inside
      /\ h \in ValidTickets <=> exact /\ same /\ enabled /\ price > 0 /\ tick /\ inside
  BY <1>2, <1>3
<1> HIDE DEF exact, same, inside, tick, price, active, enabled
<1>5. /\ h \in ValidTickets => enabled
      /\ NoOrderInputPreflightError(h) => active
      /\ enabled /\ active => (NoOrderInputPreflightError(h) <=> h \in ValidTickets)
  BY <1>4
<1>6. QED
  BY <1>5 DEF active, enabled

(* And it asks for the balance that admission reserves. *)
LEMMA TicketAmount ==
  ASSUME NEW h \in Tickets
  PROVE  NoOrderPreflightError(h) <=> wallet[ReservationKeyOf(h)] >= ReservationAmount(h)
<1> DEFINE signed == Signed[h]
<1>1. signed.outcomeAmount \in Nat \ {0} /\ signed.usdcAmount \in Nat \ {0}
  BY TicketsAssumption
<1> HIDE DEF signed
<1>2. BuyReservation(signed, signed.outcomeAmount) = signed.usdcAmount
  BY <1>1, Worth
<1>3. QED
  BY <1>2 DEF NoOrderPreflightError, ReservationAmount, signed

(* What the server would admit the ticket lets the maker sign, and what he   *)
(* signs the server admits if nothing is reserved, orders are taken for the  *)
(* market and it is active: the two copies of the rules agree for every      *)
(* configuration, order, balance and state of the market, but for the three  *)
(* things the ticket does not look at.                                       *)
THEOREM TicketAgrees == Spec => []TicketAgreesWithAdmission
<1>1. EntryInv => TicketAgreesWithAdmission
  <2> SUFFICES ASSUME EntryInv, NEW h \in Tickets, New(h)
               PROVE  LET book == Signed[h].book
                          admitted == /\ PassesChecks(h)
                                      /\ wallet[ReservationKeyOf(h)] - Reserved(h) >= ReservationAmount(h)
                          unseen == \/ Reserved(h) # 0
                                    \/ book \in LoanBooks /\ ~Config[book].clobEnabled
                                    \/ book \notin LoanBooks /\ ~IsOutcomeMarketActive(book)
                      IN (admitted => CanSign(h)) /\ (CanSign(h) /\ ~unseen => admitted)
    BY DEF TicketAgreesWithAdmission
  <2> DEFINE balance == wallet[ReservationKeyOf(h)]
             amount == ReservationAmount(h)
             reserved == Reserved(h)
             book == Signed[h].book
             enabled == Config[book].clobEnabled
             active == IsOutcomeMarketActive(book)
             shown == MarketState(book) = "Active"
             ofLoan == book \in LoanBooks
  <2>1. balance \in Nat /\ amount \in Nat /\ reserved \in Nat
    BY EntryFacts, KeyOfTicket, ReservedNat DEF Reserved
  <2>2. PassesChecks(h) <=> h \in ValidTickets /\ active
    BY DEF PassesChecks, New, OrderByHash
  <2>3. CanSign(h) <=> NoOrderInputPreflightError(h) /\ balance >= amount
    BY TicketAmount DEF CanSign
  <2>4. (ofLoan => (shown <=> active)) /\ (~ofLoan => (shown <=> enabled))
    BY DEF MarketState, IsOutcomeMarketActive
  <2>5. /\ h \in ValidTickets => enabled
        /\ NoOrderInputPreflightError(h) => shown
        /\ enabled /\ shown => (NoOrderInputPreflightError(h) <=> h \in ValidTickets)
    BY InputIsValid
  <2> HIDE DEF balance, amount, reserved, enabled, active, shown, ofLoan
  <2>6. /\ PassesChecks(h) /\ balance - reserved >= amount => CanSign(h)
        /\ CanSign(h) /\ ~(reserved # 0 \/ (ofLoan /\ ~enabled) \/ (~ofLoan /\ ~active))
             => PassesChecks(h) /\ balance - reserved >= amount
    <3>1. reserved >= 0 /\ (balance - reserved >= amount => balance >= amount)
      BY <2>1
    <3>2. reserved = 0 => (balance >= amount <=> balance - reserved >= amount)
      BY <2>1
    <3> DEFINE enough == balance - reserved >= amount
               rich == balance >= amount
               free == reserved = 0
    <3>3. (enough => rich) /\ (free => (rich <=> enough))
      BY <3>1, <3>2
    <3> HIDE DEF enough, rich, free
    <3>4. /\ PassesChecks(h) /\ enough => CanSign(h)
          /\ CanSign(h) /\ ~(~free \/ (ofLoan /\ ~enabled) \/ (~ofLoan /\ ~active))
               => PassesChecks(h) /\ enough
      BY <2>2, <2>3, <2>4, <2>5, <3>3 DEF rich
    <3>5. QED
      BY <3>4 DEF enough, free
  <2>7. QED
    BY <2>6 DEF balance, amount, reserved, enabled, active, ofLoan, book
<1>2. QED
  BY <1>1, EntryInvariant, PTL
=============================================================================
