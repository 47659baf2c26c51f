------------------------- MODULE OrderLedger_proofs -------------------------
(***************************************************************************)
(* What order entry and settlement need to know of the tables they share,  *)
(* for any orders, reservations and trades: what the folds of the          *)
(* community modules go through, what each statement leaves of a row, what *)
(* a trade's part of an order is, and what a cleanup gives back of it.     *)
(*                                                                         *)
(* Spare is what a reservation has beyond what its orders need.  A fill    *)
(* confirmed and an order that ends give up none of it; a trade given up   *)
(* costs a unit for each order it had a part of, by rounding.  Cleanups    *)
(* work with copies of rows read before; CopyOf says what a copy keeps in  *)
(* common with its row as the row ages.                                    *)
(***************************************************************************)
EXTENDS OrderLedger, Totals_proofs, NaturalsInduction, SequenceTheorems

-----------------------------------------------------------------------------
(* Induction over the numbers up to n, and the folds of the community        *)
(* modules: FoldLeft over a sequence goes through its steps one by one.      *)

LEMMA NatMin ==
  ASSUME NEW T \in SUBSET Nat, T # {}
  PROVE  \E x \in T : \A y \in T : x <= y
<1>1. IsWellFoundedOn(OpToRel(<,Nat), Nat)
  BY NatLessThanWellFounded
<1>2. PICK x \in T : \A y \in T : ~ (<<y, x>> \in OpToRel(<,Nat))
  BY <1>1, WFMin
<1>3. ASSUME NEW y \in T PROVE x <= y
  <2>1. ~ (<<y, x>> \in OpToRel(<,Nat))
    BY <1>2
  <2>2. x \in Nat /\ y \in Nat
    OBVIOUS
  <2>3. ~ (y < x)
    BY <2>1, <2>2 DEF OpToRel
  <2>4. QED
    BY <2>2, <2>3
<1>4. QED
  BY <1>3

LEMMA UpTo ==
  ASSUME NEW n \in Nat, NEW G, 0 \in G,
         \A k \in 0 .. n - 1 : k \in G => k + 1 \in G
  PROVE  n \in G
<1> DEFINE bad == {k \in 0 .. n : k \notin G}
<1>1. SUFFICES ASSUME bad # {} PROVE FALSE
  OBVIOUS
<1>2. bad \in SUBSET Nat
  OBVIOUS
<1>3. PICK k \in bad : \A j \in bad : k <= j
  BY <1>1, <1>2, NatMin
<1>4. k \in 1 .. n /\ k - 1 \in 0 .. n - 1 /\ k - 1 \notin bad
  BY <1>3
<1>5. k - 1 \in G
  BY <1>4
<1>6. (k - 1) + 1 \in G
  BY <1>4, <1>5
<1>7. QED
  BY <1>4, <1>6

LEMMA IntervalFinite ==
  ASSUME NEW n \in Nat
  PROVE  IsFiniteSet(1 .. n)
BY FS_Interval

LEMMA ConcatAppend ==
  ASSUME NEW S, NEW s \in Seq(S), NEW t \in Seq(S), NEW e \in S
  PROVE  s \o Append(t, e) = Append(s \o t, e)
OBVIOUS

(* An element of a sequence and a pair after it is from one of the two.      *)
LEMMA EitherPart ==
  ASSUME NEW S, NEW l \in Seq(S), NEW a, NEW b, NEW i \in DOMAIN (l \o <<a, b>>)
  PROVE  (l \o <<a, b>>)[i] \in {a, b} \/ (i \in DOMAIN l /\ (l \o <<a, b>>)[i] = l[i])
<1> DEFINE n == Len(l)
           p == <<a, b>>
<1>1. n \in Nat /\ DOMAIN l = 1 .. n /\ p \in Seq({a, b}) /\ Len(p) = 2 /\ p[1] = a /\ p[2] = b
  OBVIOUS
<1> HIDE DEF p
<1>2. /\ i \in 1 .. n + 2
      /\ (l \o p)[i] = IF i <= n THEN l[i] ELSE p[i - n]
  BY <1>1 DEF p
<1>3. CASE i <= n
  BY <1>1, <1>2, <1>3 DEF p
<1>4. CASE ~ (i <= n)
  <2>1. i - n = 1 \/ i - n = 2
    BY <1>1, <1>2, <1>4
  <2>2. QED
    BY <1>1, <1>2, <1>4, <2>1 DEF p
<1>5. QED
  BY <1>3, <1>4

LEMMA MaxIsLast ==
  ASSUME NEW k \in Nat, NEW s \in SUBSET (1 .. k + 1), k + 1 \in s
  PROVE  Max(s) = k + 1
<1>1. \A y \in s : k + 1 >= y
  OBVIOUS
<1>2. ASSUME NEW x \in s, \A y \in s : x >= y PROVE x = k + 1
  <2>1. x >= k + 1 /\ x \in 1 .. k + 1
    BY <1>2
  <2>2. QED
    BY <2>1
<1>3. QED
  BY <1>1, <1>2 DEF Max

LEMMA MaxInside ==
  ASSUME NEW n \in Nat, NEW s \in SUBSET (1 .. n), s # {}
  PROVE  Max(s) \in s /\ \A y \in s : Max(s) >= y
<1>1. \A y \in s : y \in Nat /\ y <= n
  OBVIOUS
<1>2. PICK x \in {n - y : y \in s} : \A z \in {n - y : y \in s} : x <= z
  <2>1. \A y \in s : n - y \in Nat
    BY <1>1
  <2>2. {n - y : y \in s} \in SUBSET Nat
    BY <2>1
  <2>3. {n - y : y \in s} # {}
    <3>1. PICK w \in s : TRUE
      OBVIOUS
    <3>2. n - w \in {n - y : y \in s}
      OBVIOUS
    <3>3. QED
      BY <3>2
  <2>4. QED
    BY <2>2, <2>3, NatMin
<1>3. PICK m \in s : x = n - m
  OBVIOUS
<1>4. ASSUME NEW y \in s PROVE m >= y
  <2>1. n - m <= n - y
    BY <1>2, <1>3
  <2>2. QED
    BY <2>1, <1>1
<1>5. QED
  BY <1>4 DEF Max

(* The function that FoldLeft chooses exists when the steps stay in a set. *)
IsFold(g, n, base, step) ==
  \A s \in SUBSET (1 .. n) : g[s] = IF s = {} THEN base ELSE step[<<g[s \ {Max(s)}], Max(s)>>]

LEMMA FoldExists ==
  ASSUME NEW n \in Nat, NEW X, NEW base \in X, NEW step \in [X \X (1 .. n) -> X]
  PROVE  \E g \in [SUBSET (1 .. n) -> X] : IsFold(g, n, base, step)
<1> DEFINE Folds(k) == {g \in [SUBSET (1 .. k) -> X] :
                         \A s \in SUBSET (1 .. k) :
                           g[s] = IF s = {} THEN base ELSE step[<<g[s \ {Max(s)}], Max(s)>>]}
           G == {k \in 0 .. n : Folds(k) # {}}
<1>1. 0 \in G
  <2> DEFINE g == [s \in SUBSET (1 .. 0) |-> base]
  <2>1. \A s \in SUBSET (1 .. 0) : s = {}
    OBVIOUS
  <2>2. g \in Folds(0)
    BY <2>1
  <2>3. Folds(0) # {}
    BY <2>2
  <2> HIDE DEF Folds
  <2>4. QED
    BY <2>3
<1>2. ASSUME NEW k \in 0 .. n - 1, k \in G PROVE k + 1 \in G
  <2>1. PICK f \in Folds(k) : TRUE
    BY <1>2
  <2>2. f \in [SUBSET (1 .. k) -> X]
    OBVIOUS
  <2>k. k \in Nat /\ k + 1 \in 1 .. n /\ k + 1 \in 0 .. n
    OBVIOUS
  <2> DEFINE last(s) == step[<<f[s \ {k + 1}], k + 1>>]
             g == [s \in SUBSET (1 .. k + 1) |-> IF k + 1 \in s THEN last(s) ELSE f[s]]
  <2>3. \A s \in SUBSET (1 .. k + 1) : s \ {k + 1} \in SUBSET (1 .. k)
    BY <2>k
  <2>4. \A s \in SUBSET (1 .. k + 1) : k + 1 \notin s => s \in SUBSET (1 .. k)
    BY <2>k
  <2>5. \A s \in SUBSET (1 .. k + 1) : last(s) \in X
    BY <2>2, <2>3, <2>k
  <2>6. g \in [SUBSET (1 .. k + 1) -> X]
    BY <2>2, <2>4, <2>5
  <2>7. ASSUME NEW s \in SUBSET (1 .. k + 1)
        PROVE  g[s] = IF s = {} THEN base ELSE step[<<g[s \ {Max(s)}], Max(s)>>]
    <3>1. CASE k + 1 \in s
      <4>1. Max(s) = k + 1
        BY <3>1, <2>k, MaxIsLast
      <4>2. s \ {k + 1} \in SUBSET (1 .. k + 1) /\ k + 1 \notin s \ {k + 1}
        OBVIOUS
      <4>3. g[s \ {k + 1}] = f[s \ {k + 1}]
        BY <4>2
      <4>4. g[s] = step[<<f[s \ {k + 1}], k + 1>>]
        BY <3>1
      <4>5. QED
        BY <4>1, <4>3, <4>4, <3>1
    <3>2. CASE k + 1 \notin s /\ s # {}
      <4>1. s \in SUBSET (1 .. k)
        BY <3>2, <2>4
      <4>2. Max(s) \in s
        BY <3>2, <4>1, <2>k, MaxInside
      <4>3. s \ {Max(s)} \in SUBSET (1 .. k) /\ s \ {Max(s)} \in SUBSET (1 .. k + 1)
        BY <4>1
      <4>4. k + 1 \notin s \ {Max(s)}
        BY <3>2
      <4>5. g[s \ {Max(s)}] = f[s \ {Max(s)}] /\ g[s] = f[s]
        BY <4>3, <4>4, <3>2
      <4>6. f[s] = step[<<f[s \ {Max(s)}], Max(s)>>]
        BY <4>1, <3>2
      <4>7. QED
        BY <4>5, <4>6, <3>2
    <3>3. CASE s = {}
      <4>1. g[s] = f[s] /\ s \in SUBSET (1 .. k)
        BY <3>3
      <4>2. f[s] = base
        BY <4>1, <3>3
      <4>3. QED
        BY <4>1, <4>2, <3>3
    <3>4. QED
      BY <3>1, <3>2, <3>3
  <2>8. g \in Folds(k + 1)
    BY <2>6, <2>7
  <2>9. QED
    BY <2>8, <2>k
<1>3. n \in G
  <2> HIDE DEF G
  <2>1. QED
    BY <1>1, <1>2, UpTo
<1>4. PICK g \in Folds(n) : TRUE
  BY <1>3
<1>5. IsFold(g, n, base, step)
  BY <1>4 DEF IsFold
<1>6. QED
  BY <1>5

(* What a fold goes through, from base, while its steps stay in X. *)
GoesBy(g, n, X, base, step) ==
  /\ g[{}] = base
  /\ \A s \in SUBSET (1 .. n) :
       s # {} /\ g[s \ {Max(s)}] \in X => g[s] = step[<<g[s \ {Max(s)}], Max(s)>>]
RunEndsAt(end, n, X, base, step) ==
  \E c \in [0 .. n -> X] : /\ c[0] = base /\ c[n] = end
                          /\ \A k \in 0 .. n - 1 : c[k + 1] = step[<<c[k], k + 1>>]

LEMMA FoldChain ==
  ASSUME NEW n \in Nat, NEW X, NEW base \in X, NEW step \in [X \X (1 .. n) -> X],
         NEW g, GoesBy(g, n, X, base, step)
  PROVE  RunEndsAt(g[1 .. n], n, X, base, step)
<1> USE DEF GoesBy
<1>1. ASSUME NEW k \in 0 .. n - 1, g[1 .. k] \in X
      PROVE  g[1 .. k + 1] = step[<<g[1 .. k], k + 1>>] /\ g[1 .. k + 1] \in X
  <2>1. 1 .. k + 1 \in SUBSET (1 .. n) /\ k + 1 \in 1 .. k + 1 /\ k + 1 \in 1 .. n /\ k \in Nat
    OBVIOUS
  <2>2. Max(1 .. k + 1) = k + 1
    BY <2>1, MaxIsLast
  <2>3. (1 .. k + 1) \ {k + 1} = 1 .. k
    OBVIOUS
  <2>4. g[1 .. k + 1] = step[<<g[1 .. k], k + 1>>]
    BY <1>1, <2>1, <2>2, <2>3
  <2>5. QED
    BY <1>1, <2>1, <2>4
<1>2. 1 .. 0 = {}
  OBVIOUS
<1>3. ASSUME NEW m \in 0 .. n PROVE g[1 .. m] \in X
  <2> DEFINE G == {k \in 0 .. m : g[1 .. k] \in X}
  <2>1. 0 \in G
    BY <1>2
  <2>2. ASSUME NEW k \in 0 .. m - 1, k \in G PROVE k + 1 \in G
    <3>1. k \in 0 .. n - 1 /\ k + 1 \in 0 .. m /\ g[1 .. k] \in X
      BY <2>2
    <3>2. QED
      BY <3>1, <1>1
  <2> HIDE DEF G
  <2>3. m \in G
    BY <2>1, <2>2, UpTo
  <2>4. QED
    BY <2>3 DEF G
<1> DEFINE c == [k \in 0 .. n |-> g[1 .. k]]
<1>4. 0 \in 0 .. n /\ n \in 0 .. n /\ \A k \in 0 .. n - 1 : k \in 0 .. n /\ k + 1 \in 0 .. n
  OBVIOUS
<1>5. c \in [0 .. n -> X] /\ c[0] = base /\ c[n] = g[1 .. n]
  BY <1>2, <1>3, <1>4
<1>6. \A k \in 0 .. n - 1 : c[k + 1] = step[<<c[k], k + 1>>]
  BY <1>1, <1>3, <1>4
<1>7. QED
  BY <1>5, <1>6 DEF RunEndsAt

-----------------------------------------------------------------------------
(* The tables: what each statement leaves of a row.                          *)

RowInv(row) ==
  /\ row.pending <= row.remaining /\ row.remaining <= row.outcomeAmount
  /\ row.status = "FILLED" <=> row.remaining = 0

OrdersInv(o) ==
  /\ DOMAIN o \subseteq Tickets
  /\ o \in [DOMAIN o -> OrderRow]
  /\ \A h \in DOMAIN o : RowInv(o[h])

ReservationTables == UNION {[S -> Nat \ {0}] : S \in SUBSET ReservationKeys}

LEMMA BuyReservationInt ==
  ASSUME NEW row, row.usdcAmount \in Nat \ {0}, row.outcomeAmount \in Nat \ {0}, NEW filled \in Int
  PROVE  BuyReservation(row, filled) \in Int
<1> DEFINE u == row.usdcAmount * filled
<1>1. u \in Int /\ row.outcomeAmount \in Nat /\ row.outcomeAmount > 0
  OBVIOUS
<1> HIDE DEF u
<1>2. u \div row.outcomeAmount \in Int
  BY <1>1
<1>3. QED
  BY <1>2 DEF BuyReservation, u

LEMMA DecreaseKeepsTable ==
  ASSUME NEW r \in ReservationTables, NEW key, NEW amount \in Int,
         CanDecreaseReservation(r, key, amount)
  PROVE  DecreaseReservation(r, key, amount) \in ReservationTables
<1>1. PICK S \in SUBSET ReservationKeys : r \in [S -> Nat \ {0}]
  BY DEF ReservationTables
<1>2. key \in S /\ r[key] >= amount /\ amount > 0 /\ r[key] \in Nat
  BY <1>1 DEF CanDecreaseReservation
<1>3. CASE r[key] = amount
  <2>1. DecreaseReservation(r, key, amount) \in [S \ {key} -> Nat \ {0}]
    BY <1>1, <1>3 DEF DecreaseReservation
  <2>2. QED
    BY <2>1, <1>1 DEF ReservationTables
<1>4. CASE r[key] # amount
  <2>1. DecreaseReservation(r, key, amount) = [r EXCEPT ![key] = @ - amount]
    BY <1>4 DEF DecreaseReservation
  <2>2. r[key] - amount \in Nat \ {0}
    BY <1>2, <1>4
  <2>3. [r EXCEPT ![key] = @ - amount] \in [S -> Nat \ {0}]
    BY <1>1, <1>2, <2>2
  <2>4. QED
    BY <2>1, <2>3, <1>1 DEF ReservationTables
<1>5. QED
  BY <1>3, <1>4

(* A release takes from pending only. *)
LEMMA ReleaseKeepsRow ==
  ASSUME NEW o, OrdersInv(o), NEW h \in DOMAIN o, NEW amount \in Nat, CanReleasePending(o, h, amount)
  PROVE  LET after == ReleaseOrderPending(o, h, amount) IN
         /\ OrdersInv(after) /\ DOMAIN after = DOMAIN o
         /\ \A g \in DOMAIN o : Confirmed(after[g]) = Confirmed(o[g])
<1> DEFINE after == ReleaseOrderPending(o, h, amount)
<1>1. /\ after \in [DOMAIN o -> OrderRow]
      /\ RowInv(after[h]) /\ Confirmed(after[h]) = Confirmed(o[h])
      /\ \A g \in DOMAIN o \ {h} : after[g] = o[g]
  <2>1. o[h] \in OrderRow /\ RowInv(o[h])
    BY DEF OrdersInv
  <2>2. after = [o EXCEPT ![h] = [o[h] EXCEPT !.pending = @ - amount]]
    BY DEF ReleaseOrderPending, OrdersInv
  <2>3. amount > 0 /\ o[h].pending >= amount
    BY DEF CanReleasePending
  <2>4. o[h].pending - amount \in Nat
    BY <2>1, <2>3 DEF OrderRow
  <2>5. [o[h] EXCEPT !.pending = @ - amount] \in OrderRow
    BY <2>1, <2>4 DEF OrderRow
  <2>6. after[h] = [o[h] EXCEPT !.pending = @ - amount]
    BY <2>2 DEF OrdersInv
  <2>7. RowInv(after[h]) /\ Confirmed(after[h]) = Confirmed(o[h])
    BY <2>6, <2>1, <2>4, <2>3 DEF RowInv, Confirmed, OrderRow
  <2>8. QED
    BY <2>2, <2>5, <2>7 DEF OrdersInv
<1>2. DOMAIN after = DOMAIN o
  BY <1>1
<1>3. QED
  BY <1>1, <1>2 DEF OrdersInv

(* A confirmation takes from remaining, and from pending what there is. *)
LEMMA ConfirmKeepsRow ==
  ASSUME NEW o, OrdersInv(o), NEW h \in DOMAIN o, NEW amount \in Nat, CanConfirmFill(o, h, amount)
  PROVE  LET after == ConfirmOrderFill(o, h, amount) IN
         /\ OrdersInv(after) /\ DOMAIN after = DOMAIN o
         /\ Confirmed(after[h]) = Confirmed(o[h]) + amount
         /\ amount <= o[h].pending => after[h].pending = o[h].pending - amount
         /\ \A g \in DOMAIN o \ {h} : after[g] = o[g]
<1> DEFINE after == ConfirmOrderFill(o, h, amount)
           row == [o[h] EXCEPT !.remaining = @ - amount, !.pending = Larger(@ - amount, 0),
                               !.status = IF o[h].remaining = amount THEN "FILLED" ELSE @]
<1>1. o[h] \in OrderRow /\ RowInv(o[h])
  BY DEF OrdersInv
<1>2. amount > 0 /\ o[h].remaining >= amount /\ o[h].status # "FILLED"
  BY DEF CanConfirmFill
<1>3. o[h].remaining - amount \in Nat /\ Larger(o[h].pending - amount, 0) \in Nat
  BY <1>1, <1>2 DEF OrderRow, Larger
<1>4. row \in OrderRow
  BY <1>1, <1>3 DEF OrderRow, OrderStatus
<1>5. /\ row.remaining = o[h].remaining - amount
      /\ row.pending = Larger(o[h].pending - amount, 0)
      /\ row.status = IF o[h].remaining = amount THEN "FILLED" ELSE o[h].status
      /\ row.outcomeAmount = o[h].outcomeAmount
  BY <1>1 DEF OrderRow
<1>6. RowInv(row)
  <2>1. /\ o[h].remaining \in Nat /\ o[h].pending \in Nat /\ o[h].outcomeAmount \in Nat
        /\ o[h].pending <= o[h].remaining /\ o[h].remaining <= o[h].outcomeAmount
    BY <1>1 DEF OrderRow, RowInv
  <2>2. row.pending <= row.remaining
    BY <2>1, <1>5, <1>2 DEF Larger
  <2>3. row.remaining <= row.outcomeAmount
    BY <2>1, <1>5, <1>2
  <2>4. row.status = "FILLED" <=> row.remaining = 0
    BY <2>1, <1>5, <1>2
  <2>5. QED
    BY <2>2, <2>3, <2>4 DEF RowInv
<1>7. /\ Confirmed(row) = Confirmed(o[h]) + amount
      /\ amount <= o[h].pending => row.pending = o[h].pending - amount
  <2>1. Confirmed(row) = Confirmed(o[h]) + amount
    BY <1>5, <1>1 DEF Confirmed, OrderRow
  <2>2. amount <= o[h].pending => Larger(o[h].pending - amount, 0) = o[h].pending - amount
    BY <1>1 DEF OrderRow, Larger
  <2>3. QED
    BY <2>1, <2>2, <1>5
<1>8. after = [o EXCEPT ![h] = row]
  BY DEF ConfirmOrderFill, OrdersInv
<1> HIDE DEF row
<1>9. after \in [DOMAIN o -> OrderRow] /\ after[h] = row /\ \A g \in DOMAIN o \ {h} : after[g] = o[g]
  BY <1>8, <1>4 DEF OrdersInv
<1> HIDE DEF after
<1>10. DOMAIN after = DOMAIN o
  BY <1>9
<1>11. \A g \in DOMAIN o : RowInv(after[g])
  BY <1>9, <1>6 DEF OrdersInv
<1>12. /\ OrdersInv(after) /\ DOMAIN after = DOMAIN o
       /\ Confirmed(after[h]) = Confirmed(o[h]) + amount
       /\ amount <= o[h].pending => after[h].pending = o[h].pending - amount
  BY <1>9, <1>10, <1>11, <1>7 DEF OrdersInv
<1>13. QED
  BY <1>9, <1>12 DEF after

LEMMA CancelKeepsRow ==
  ASSUME NEW o, OrdersInv(o), NEW h \in DOMAIN o, CanCancelRemainder(o, h)
  PROVE  LET after == CancelOrderAvailableRemainder(o, h) IN
         /\ OrdersInv(after) /\ DOMAIN after = DOMAIN o
         /\ \A g \in DOMAIN o :
              Confirmed(after[g]) = Confirmed(o[g]) /\ after[g].pending = o[g].pending
<1> DEFINE after == CancelOrderAvailableRemainder(o, h)
           row == [o[h] EXCEPT !.status = "CANCELLED"]
<1>1. o[h] \in OrderRow /\ RowInv(o[h]) /\ o[h].remaining > 0
  BY DEF OrdersInv, CanCancelRemainder
<1>2. row \in OrderRow
  BY <1>1 DEF OrderRow, OrderStatus
<1>3. RowInv(row) /\ Confirmed(row) = Confirmed(o[h]) /\ row.pending = o[h].pending
  BY <1>1 DEF RowInv, Confirmed, OrderRow
<1>4. after = [o EXCEPT ![h] = row]
  BY DEF CancelOrderAvailableRemainder, OrdersInv
<1> HIDE DEF row
<1>5. after \in [DOMAIN o -> OrderRow] /\ after[h] = row /\ \A g \in DOMAIN o \ {h} : after[g] = o[g]
  BY <1>4, <1>2 DEF OrdersInv
<1> HIDE DEF after
<1>6. DOMAIN after = DOMAIN o
  BY <1>5
<1>7. \A g \in DOMAIN o : /\ RowInv(after[g]) /\ Confirmed(after[g]) = Confirmed(o[g])
                         /\ after[g].pending = o[g].pending
  BY <1>5, <1>3 DEF OrdersInv
<1>8. OrdersInv(after)
  BY <1>5, <1>6, <1>7 DEF OrdersInv
<1>9. QED
  BY <1>6, <1>7, <1>8 DEF after

-----------------------------------------------------------------------------
(* The transactions: confirmation and cleanup.                               *)

(* The tables a cleanup that began with orders o can leave. *)
TablesAfter(o) ==
  [ok : BOOLEAN,
   orders : {p \in [DOMAIN o -> OrderRow] :
               OrdersInv(p) /\ \A g \in DOMAIN o : Confirmed(p[g]) = Confirmed(o[g])},
   reservations : ReservationTables]

FillRow(D) == [maker : D, amount : Nat \ {0}, usdc : Nat \ {0}]

LEMMA ReleasePendingKeeps ==
  ASSUME NEW o, NEW table \in TablesAfter(o), NEW h \in DOMAIN o, NEW amount \in Nat,
         NEW seen, seen[h] \in OrderRow
  PROVE  ReleasePending(table, seen, h, amount) \in TablesAfter(o)
<1> DEFINE key == BuildOrderReservationKey(seen[h])
           release == FailedPendingRelease(seen[h], amount)
           live == seen[h].status = "LIVE"
           ok == /\ table.ok
                 /\ live \/ CanDecreaseReservation(table.reservations, key, release)
                 /\ CanReleasePending(table.orders, h, amount)
           p == ReleaseOrderPending(table.orders, h, amount)
           r == IF live THEN table.reservations
                ELSE DecreaseReservation(table.reservations, key, release)
<1>1. /\ table.orders \in [DOMAIN o -> OrderRow] /\ OrdersInv(table.orders)
      /\ \A g \in DOMAIN o : Confirmed(table.orders[g]) = Confirmed(o[g])
      /\ table.reservations \in ReservationTables
  BY DEF TablesAfter
<1>2. release \in Int
  <2>1. seen[h] \in OrderRow
    OBVIOUS
  <2>2. Confirmed(seen[h]) \in Int /\ Confirmed(seen[h]) + amount \in Int
    BY <2>1 DEF OrderRow, Confirmed
  <2>3. BuyReservation(seen[h], Confirmed(seen[h])) \in Int
    BY <2>1, <2>2, BuyReservationInt DEF OrderRow
  <2>4. BuyReservation(seen[h], Confirmed(seen[h]) + amount) \in Int
    BY <2>1, <2>2, BuyReservationInt DEF OrderRow
  <2>5. QED
    BY <2>3, <2>4 DEF FailedPendingRelease
<1>3. ReleasePending(table, seen, h, amount) =
        IF ~ok THEN [table EXCEPT !.ok = FALSE] ELSE [ok |-> TRUE, orders |-> p, reservations |-> r]
  BY DEF ReleasePending
<1>4. CASE ~ok
  BY <1>3, <1>4 DEF TablesAfter
<1>5. CASE ok
  <2>1. DOMAIN table.orders = DOMAIN o
    BY <1>1
  <2>2. OrdersInv(p) /\ DOMAIN p = DOMAIN o /\ \A g \in DOMAIN o : Confirmed(p[g]) = Confirmed(o[g])
    BY <1>1, <2>1, <1>5, ReleaseKeepsRow
  <2>3. p \in [DOMAIN o -> OrderRow]
    BY <2>2 DEF OrdersInv
  <2>4. r \in ReservationTables
    BY <1>1, <1>2, <1>5, DecreaseKeepsTable
  <2> HIDE DEF p, r
  <2>5. [ok |-> TRUE, orders |-> p, reservations |-> r] \in TablesAfter(o)
    BY <2>2, <2>3, <2>4 DEF TablesAfter
  <2>6. QED
    BY <1>3, <1>5, <2>5
<1>6. QED
  BY <1>4, <1>5

(* The tables a cleanup goes through, from the release of the taker's part.  *)
CleanupRun(c, t, seen) ==
  LET fills == trades[t].fills IN
  /\ c \in [0 .. Len(fills) -> TablesAfter(orders)]
  /\ c[0] = ReleasePending(Tables, seen, trades[t].taker, trades[t].amount)
  /\ \A k \in 0 .. Len(fills) - 1 :
       c[k + 1] = ReleasePending(c[k], seen, fills[k + 1].maker, fills[k + 1].amount)
  /\ c[Len(fills)] = Cleanup(t, seen)

LEMMA CleanupSteps ==
  ASSUME OrdersInv(orders), reservations \in ReservationTables, NEW t \in TradeIds,
         trades[t].taker \in DOMAIN orders, trades[t].fills \in Seq(FillRow(DOMAIN orders)),
         trades[t].amount \in Nat, NEW seen, \A h \in OrdersOf(t) : seen[h] \in OrderRow
  PROVE  \E c : CleanupRun(c, t, seen)
<1> DEFINE fills == trades[t].fills
           n == Len(fills)
           X == TablesAfter(orders)
           base == ReleasePending(Tables, seen, trades[t].taker, trades[t].amount)
           op(x, i) == ReleasePending(x, seen, fills[i].maker, fills[i].amount)
<1>1. n \in Nat /\ DOMAIN fills = 1 .. n /\ \A i \in 1 .. n : fills[i] \in FillRow(DOMAIN orders)
  OBVIOUS
<1>2. /\ trades[t].taker \in OrdersOf(t)
      /\ \A i \in 1 .. n : fills[i].maker \in OrdersOf(t)
  BY <1>1 DEF OrdersOf
<1>3. base \in X
  <2>1. Tables \in X
    BY DEF Tables, TablesAfter, OrdersInv
  <2>2. QED
    BY <2>1, <1>2, ReleasePendingKeeps
<1>4. ASSUME NEW x \in X, NEW i \in 1 .. n PROVE op(x, i) \in X
  <2>1. fills[i].maker \in DOMAIN orders /\ fills[i].amount \in Nat
    BY <1>1 DEF FillRow
  <2>2. QED
    BY <2>1, <1>2, ReleasePendingKeeps
<1> DEFINE Rec(g) == g = [s \in SUBSET (1 .. n) |->
                            IF s = {} THEN base ELSE op(g[s \ {Max(s)}], Max(s))]
<1> HIDE DEF X, base
<1>5. \E g \in [SUBSET (1 .. n) -> X] : Rec(g)
  <2> DEFINE step == [z \in X \X (1 .. n) |-> op(z[1], z[2])]
  <2>1. step \in [X \X (1 .. n) -> X]
    BY <1>4
  <2>2. \A x \in X, i \in 1 .. n : step[<<x, i>>] = op(x, i)
    OBVIOUS
  <2> HIDE DEF step, op, n
  <2>3. PICK g \in [SUBSET (1 .. n) -> X] : IsFold(g, n, base, step)
    BY <2>1, <1>3, <1>1, FoldExists
  <2>4. ASSUME NEW s \in SUBSET (1 .. n), s # {}
        PROVE  step[<<g[s \ {Max(s)}], Max(s)>>] = op(g[s \ {Max(s)}], Max(s))
    <3>1. Max(s) \in 1 .. n /\ g[s \ {Max(s)}] \in X
      BY <1>1, <2>4, MaxInside
    <3>2. QED
      BY <3>1, <2>2
  <2>5. \A s \in SUBSET (1 .. n) : g[s] = IF s = {} THEN base ELSE op(g[s \ {Max(s)}], Max(s))
    BY <2>3, <2>4 DEF IsFold
  <2>6. QED
    BY <2>5
<1>6. Cleanup(t, seen) = (CHOOSE g : Rec(g))[1 .. n]
  BY <1>1 DEF Cleanup, FoldLeft, MapThenFoldSet, base
<1> DEFINE g == CHOOSE f : Rec(f)
<1>7. Rec(g)
  BY <1>5
<1> HIDE DEF g
<1>8. ASSUME NEW k \in 0 .. n - 1 PROVE g[1 .. k + 1] = op(g[1 .. k], k + 1)
  <2>1. 1 .. k + 1 \in SUBSET (1 .. n) /\ k + 1 \in 1 .. k + 1 /\ k + 1 \in 1 .. n
    BY <1>1
  <2>2. Max(1 .. k + 1) = k + 1
    BY <2>1, MaxIsLast
  <2>3. (1 .. k + 1) \ {k + 1} = 1 .. k
    OBVIOUS
  <2>4. QED
    BY <1>7, <2>1, <2>2, <2>3
<1>9. g[1 .. 0] = base
  BY <1>7
<1>10. ASSUME NEW m \in 0 .. n PROVE g[1 .. m] \in X
  <2> DEFINE G == {k \in 0 .. m : g[1 .. k] \in X}
  <2>1. 0 \in G
    BY <1>3, <1>9, <1>1
  <2>2. ASSUME NEW k \in 0 .. m - 1, k \in G PROVE k + 1 \in G
    <3>1. k \in 0 .. n - 1 /\ k + 1 \in 1 .. n /\ k + 1 \in 0 .. m /\ g[1 .. k] \in X
      BY <1>1, <2>2
    <3>2. QED
      BY <3>1, <1>4, <1>8
  <2> HIDE DEF G
  <2>3. m \in G
    BY <2>1, <2>2, <1>1, UpTo
  <2>4. QED
    BY <2>3 DEF G
<1> DEFINE c == [k \in 0 .. n |-> g[1 .. k]]
<1>11. c \in [0 .. n -> X] /\ c[0] = base /\ c[n] = Cleanup(t, seen)
  <2>1. 0 \in 0 .. n /\ n \in 0 .. n
    BY <1>1
  <2>2. QED
    BY <2>1, <1>6, <1>9, <1>10 DEF g
<1>12. \A k \in 0 .. n - 1 : c[k + 1] = op(c[k], k + 1)
  <2>1. \A k \in 0 .. n - 1 : k \in 0 .. n /\ k + 1 \in 0 .. n
    BY <1>1
  <2> HIDE DEF op
  <2>2. QED
    BY <2>1, <1>8
<1> HIDE DEF c
<1>13. CleanupRun(c, t, seen)
  BY <1>11, <1>12 DEF CleanupRun, X, base
<1>14. QED
  BY <1>13

LEMMA CleanupKeeps ==
  ASSUME OrdersInv(orders), reservations \in ReservationTables, NEW t \in TradeIds,
         trades[t].taker \in DOMAIN orders, trades[t].fills \in Seq(FillRow(DOMAIN orders)),
         trades[t].amount \in Nat, NEW seen, \A h \in OrdersOf(t) : seen[h] \in OrderRow
  PROVE  Cleanup(t, seen) \in TablesAfter(orders)
<1> DEFINE n == Len(trades[t].fills)
<1>1. PICK c : CleanupRun(c, t, seen)
  BY CleanupSteps
<1>2. n \in 0 .. n
  OBVIOUS
<1>3. QED
  BY <1>1, <1>2 DEF CleanupRun

-----------------------------------------------------------------------------
(* A trade's part of an order: what its fills add to the contract's amounts, *)
(* and what its cleanup takes from what is pending.                          *)

PartUpTo(trade, h, k) ==
  Total([i \in DOMAIN trade.fills |-> trade.fills[i].amount], FillsOfOrder(trade, h) \cap (1 .. k))

(* It grows fill by fill, to its amount in the trade. *)
Grows(trade, h) ==
  LET fills == trade.fills IN
  /\ \A k \in 0 .. Len(fills) : PartUpTo(trade, h, k) \in Nat
  /\ PartUpTo(trade, h, 0) = 0
  /\ \A k \in 0 .. Len(fills) - 1 :
       PartUpTo(trade, h, k + 1) =
         PartUpTo(trade, h, k) + (IF h \in {trade.taker, fills[k + 1].maker}
                                  THEN fills[k + 1].amount ELSE 0)
  /\ AmountIn(trade, h) = PartUpTo(trade, h, Len(fills))
  /\ AmountIn(trade, h) \in Nat

LEMMA PartGrows ==
  ASSUME NEW D, NEW trade, trade.fills \in Seq(FillRow(D)), NEW h
  PROVE  Grows(trade, h)
<1> DEFINE fills == trade.fills
           n == Len(fills)
           f == [i \in DOMAIN fills |-> fills[i].amount]
           F == FillsOfOrder(trade, h)
           up(k) == PartUpTo(trade, h, k)
<1>1. /\ n \in Nat /\ DOMAIN fills = 1 .. n
      /\ \A i \in 1 .. n : fills[i].amount \in Nat
  <2>1. n \in Nat /\ DOMAIN fills = 1 .. n /\ \A i \in 1 .. n : fills[i] \in FillRow(D)
    OBVIOUS
  <2>2. QED
    BY <2>1 DEF FillRow
<1>2. \A k \in 0 .. n : up(k) = Total(f, F \cap (1 .. k)) /\ IsFiniteSet(F \cap (1 .. k))
  <2>1. ASSUME NEW k \in 0 .. n PROVE IsFiniteSet(F \cap (1 .. k))
    <3>1. IsFiniteSet(1 .. k)
      BY FS_Interval
    <3>2. QED
      BY <3>1, FS_Subset
  <2>2. QED
    BY <2>1 DEF PartUpTo
<1>3. F \subseteq 1 .. n /\ \A i \in 1 .. n : f[i] \in Nat /\ f[i] = fills[i].amount
  BY <1>1 DEF FillsOfOrder
<1> HIDE DEF f
<1>4. ASSUME NEW k \in 0 .. n PROVE up(k) \in Nat
  <2>1. \A i \in F \cap (1 .. k) : f[i] \in Nat
    BY <1>3
  <2>2. QED
    BY <2>1, <1>2, TotalNat
<1>5. up(0) = 0
  <2>1. F \cap (1 .. 0) = {}
    OBVIOUS
  <2>2. 0 \in 0 .. n
    BY <1>1
  <2>3. up(0) = Total(f, F \cap (1 .. 0))
    BY <2>2, <1>2
  <2>4. QED
    BY <2>1, <2>3, TotalZero
<1>6. ASSUME NEW k \in 0 .. n - 1
      PROVE  up(k + 1) = up(k) + (IF h \in {trade.taker, fills[k + 1].maker}
                                  THEN fills[k + 1].amount ELSE 0)
  <2> DEFINE S == F \cap (1 .. k)
  <2>1. k \in 0 .. n /\ k + 1 \in 0 .. n /\ k + 1 \in 1 .. n /\ k + 1 \notin 1 .. k
        /\ 1 .. k + 1 = (1 .. k) \cup {k + 1}
    BY <1>1
  <2>2. CASE h \in {trade.taker, fills[k + 1].maker}
    <3>1. k + 1 \in F
      BY <2>1, <2>2, <1>1 DEF FillsOfOrder
    <3>2. F \cap (1 .. k + 1) = S \cup {k + 1} /\ k + 1 \notin S
      BY <2>1, <3>1
    <3>3. \A i \in S \cup {k + 1} : f[i] \in Nat
      BY <1>3, <2>1
    <3>4. IsFiniteSet(S)
      BY <1>2, <2>1
    <3> HIDE DEF S, F
    <3>5. Total(f, S \cup {k + 1}) = Total(f, S) + f[k + 1]
      <4> DEFINE a == k + 1
      <4>1. a \notin S /\ \A i \in S \cup {a} : f[i] \in Nat
        BY <3>2, <3>3
      <4> HIDE DEF a
      <4>2. Total(f, S \cup {a}) = Total(f, S) + f[a]
        BY <4>1, <3>4, TotalAdd
      <4>3. QED
        BY <4>2 DEF a
    <3>6. up(k + 1) = Total(f, S \cup {k + 1}) /\ up(k) = Total(f, S)
      BY <1>2, <2>1, <3>2 DEF S
    <3>7. QED
      BY <2>1, <2>2, <3>5, <3>6, <1>3
  <2>3. CASE h \notin {trade.taker, fills[k + 1].maker}
    <3>1. k + 1 \notin F
      BY <2>1, <2>3, <1>1 DEF FillsOfOrder
    <3>2. F \cap (1 .. k + 1) = F \cap (1 .. k)
      BY <2>1, <3>1
    <3>3. up(k + 1) = up(k)
      BY <3>2, <2>1, <1>2
    <3>4. up(k) \in Nat
      BY <1>4, <2>1
    <3> HIDE DEF up
    <3>5. QED
      BY <3>3, <3>4, <2>3
  <2>4. QED
    BY <2>2, <2>3
<1>7. AmountIn(trade, h) = up(n)
  <2>1. F \cap (1 .. n) = F
    BY <1>3
  <2>2. AmountIn(trade, h) = Total([i \in F |-> fills[i].amount], F)
    BY DEF AmountIn, SumOver
  <2>3. \A i \in F : [j \in F |-> fills[j].amount][i] = f[i]
    BY <1>3
  <2>4. Total([i \in F |-> fills[i].amount], F) = Total(f, F)
    BY <2>3, TotalEqual
  <2>5. up(n) = Total(f, F)
    <3>1. n \in 0 .. n
      BY <1>1
    <3>2. up(n) = Total(f, F \cap (1 .. n))
      BY <3>1, <1>2
    <3>3. QED
      BY <2>1, <3>2
  <2>6. QED
    BY <2>2, <2>4, <2>5
<1>8. n \in 0 .. n
  BY <1>1
<1> HIDE DEF up, n
<1>9. QED
  BY <1>4, <1>5, <1>6, <1>7, <1>8 DEF up, n, Grows

LEMMA ReleasePendingTakes ==
  ASSUME NEW o, NEW table \in TablesAfter(o), NEW h \in DOMAIN o, NEW amount \in Nat, NEW seen,
         ReleasePending(table, seen, h, amount).ok
  PROVE  /\ table.ok
         /\ \A g \in DOMAIN o :
              ReleasePending(table, seen, h, amount).orders[g].pending =
                table.orders[g].pending - (IF g = h THEN amount ELSE 0)
<1> DEFINE p == ReleaseOrderPending(table.orders, h, amount)
<1>1. /\ table.orders \in [DOMAIN o -> OrderRow]
      /\ table = [ok |-> table.ok, orders |-> table.orders, reservations |-> table.reservations]
  BY DEF TablesAfter
<1>2. table.ok /\ ReleasePending(table, seen, h, amount).orders = p
  BY <1>1 DEF ReleasePending
<1>3. ASSUME NEW g \in DOMAIN o
      PROVE  p[g].pending = table.orders[g].pending - (IF g = h THEN amount ELSE 0)
  <2>1. table.orders[g] \in OrderRow
    BY <1>1
  <2>2. p[g] = IF g = h THEN [table.orders[g] EXCEPT !.pending = @ - amount] ELSE table.orders[g]
    BY <1>1 DEF ReleaseOrderPending
  <2>3. QED
    BY <2>1, <2>2 DEF OrderRow
<1>4. QED
  BY <1>2, <1>3

LEMMA CleanupReleases ==
  ASSUME OrdersInv(orders), reservations \in ReservationTables, NEW t \in TradeIds,
         trades[t].taker \in DOMAIN orders, trades[t].fills \in Seq(FillRow(DOMAIN orders)),
         trades[t].amount \in Nat, MadeByMatch(trades[t]),
         NEW seen, \A h \in OrdersOf(t) : seen[h] \in OrderRow, Cleanup(t, seen).ok
  PROVE  \A h \in DOMAIN orders :
           Cleanup(t, seen).orders[h].pending = orders[h].pending - AmountIn(trades[t], h)
<1> SUFFICES ASSUME NEW h \in DOMAIN orders
             PROVE  Cleanup(t, seen).orders[h].pending = orders[h].pending - AmountIn(trades[t], h)
  OBVIOUS
<1> DEFINE trade == trades[t]
           fills == trade.fills
           n == Len(fills)
           X == TablesAfter(orders)
           up(k) == PartUpTo(trade, h, k)
           gone(k) == IF h = trade.taker THEN trade.amount ELSE up(k)
<1>1. PICK c : CleanupRun(c, t, seen)
  BY CleanupSteps
<1>2. /\ \A k \in 0 .. n : c[k] \in X
      /\ c[0] = ReleasePending(Tables, seen, trade.taker, trade.amount)
      /\ \A k \in 0 .. n - 1 :
           c[k + 1] = ReleasePending(c[k], seen, fills[k + 1].maker, fills[k + 1].amount)
      /\ c[n] = Cleanup(t, seen)
  BY <1>1 DEF CleanupRun
<1>3. n \in Nat /\ DOMAIN fills = 1 .. n /\ orders[h].pending \in Nat
  <2>1. orders[h] \in OrderRow
    BY DEF OrdersInv
  <2>2. QED
    BY <2>1 DEF OrderRow
<1>4. /\ \A k \in 0 .. n : up(k) \in Nat
      /\ up(0) = 0 /\ AmountIn(trade, h) = up(n)
      /\ \A k \in 0 .. n - 1 :
           up(k + 1) = up(k) + (IF h \in {trade.taker, fills[k + 1].maker} THEN fills[k + 1].amount ELSE 0)
  <2>1. Grows(trade, h)
    BY PartGrows
  <2>2. QED
    BY <2>1 DEF Grows
<1>5. Tables \in X /\ Tables.orders = orders
  BY DEF Tables, TablesAfter, OrdersInv
<1>6. h = trade.taker => AmountIn(trade, h) = trade.amount
  <2>1. ASSUME h = trade.taker PROVE AmountIn(trade, h) = trade.amount
    <3>1. FillsOfOrder(trade, h) = DOMAIN trade.fills
      BY <2>1 DEF FillsOfOrder
    <3>2. QED
      BY <3>1 DEF AmountIn, MadeByMatch
  <2>2. QED
    BY <2>1
<1> HIDE DEF up, X
<1>7. c[0].ok => c[0].orders[h].pending = orders[h].pending - gone(0)
  <2>1. ASSUME c[0].ok PROVE c[0].orders[h].pending = orders[h].pending - gone(0)
    <3>1. \A g \in DOMAIN orders : c[0].orders[g].pending
            = Tables.orders[g].pending - (IF g = trade.taker THEN trade.amount ELSE 0)
      BY <2>1, <1>2, <1>5, ReleasePendingTakes DEF X
    <3>2. QED
      BY <3>1, <1>3, <1>4, <1>5
  <2>2. QED
    BY <2>1
<1>8. ASSUME NEW k \in 0 .. n - 1, c[k + 1].ok
      PROVE  /\ c[k].ok
             /\ c[k + 1].orders[h].pending =
                  c[k].orders[h].pending - (IF h = fills[k + 1].maker THEN fills[k + 1].amount ELSE 0)
  <2>1. k \in 0 .. n /\ k + 1 \in 1 .. n
    BY <1>3
  <2>2. fills[k + 1] \in FillRow(DOMAIN orders) /\ c[k] \in X
    BY <2>1, <1>2, <1>3
  <2>3. fills[k + 1].maker \in DOMAIN orders /\ fills[k + 1].amount \in Nat
    BY <2>2 DEF FillRow
  <2> DEFINE x == c[k]
             m == fills[k + 1].maker
             a == fills[k + 1].amount
  <2>4. x \in TablesAfter(orders) /\ m \in DOMAIN orders /\ a \in Nat
    BY <2>2, <2>3 DEF X
  <2>5. c[k + 1] = ReleasePending(x, seen, m, a)
    BY <1>2
  <2> HIDE DEF x, m, a
  <2>6. ReleasePending(x, seen, m, a).ok
    BY <2>5, <1>8
  <2>7. /\ x.ok
        /\ \A g \in DOMAIN orders : ReleasePending(x, seen, m, a).orders[g].pending
             = x.orders[g].pending - (IF g = m THEN a ELSE 0)
    BY <2>4, <2>6, ReleasePendingTakes
  <2>8. QED
    BY <2>5, <2>7 DEF x, m, a
<1>9. c[n].ok => c[n].orders[h].pending = orders[h].pending - gone(n)
  <2> DEFINE G == {k \in 0 .. n : c[k].ok => c[k].orders[h].pending = orders[h].pending - gone(k)}
  <2>1. 0 \in G
    BY <1>3, <1>7
  <2>2. ASSUME NEW k \in 0 .. n - 1, k \in G PROVE k + 1 \in G
    <3>1. k \in 0 .. n /\ k + 1 \in 0 .. n /\ k + 1 \in 1 .. n
      BY <1>3
    <3>2. fills[k + 1] \in FillRow(DOMAIN orders) /\ fills[k + 1].maker # trade.taker
      BY <3>1, <1>3 DEF MadeByMatch
    <3>3. fills[k + 1].amount \in Nat
      BY <3>2 DEF FillRow
    <3>4. up(k) \in Nat /\ up(k + 1) \in Nat
      BY <3>1, <1>4
    <3>5. ASSUME c[k + 1].ok
          PROVE  c[k + 1].orders[h].pending = orders[h].pending - gone(k + 1)
      <4>1. /\ c[k].orders[h].pending = orders[h].pending - gone(k)
            /\ c[k + 1].orders[h].pending =
                 c[k].orders[h].pending - (IF h = fills[k + 1].maker THEN fills[k + 1].amount ELSE 0)
        BY <3>5, <1>8, <2>2
      <4>2. CASE h = trade.taker
        BY <4>1, <4>2, <3>2, <1>3
      <4>3. CASE h # trade.taker
        <5> DEFINE less == IF h = fills[k + 1].maker THEN fills[k + 1].amount ELSE 0
        <5>1. up(k + 1) = up(k) + (IF h \in {trade.taker, fills[k + 1].maker}
                                   THEN fills[k + 1].amount ELSE 0)
          BY <1>4
        <5>2. up(k + 1) = up(k) + less /\ less \in Nat
          BY <4>3, <5>1, <3>3
        <5>3. gone(k) = up(k) /\ gone(k + 1) = up(k + 1)
          BY <4>3
        <5>4. c[k + 1].orders[h].pending = c[k].orders[h].pending - less
          BY <4>1
        <5>5. c[k].orders[h].pending = orders[h].pending - up(k)
          BY <4>1, <5>3
        <5> HIDE DEF less
        <5>6. QED
          BY <5>2, <5>3, <5>4, <5>5, <3>4, <1>3
      <4>4. QED
        BY <4>2, <4>3
    <3>6. QED
      BY <3>1, <3>5
  <2> HIDE DEF G
  <2>3. n \in G
    BY <2>1, <2>2, <1>3, UpTo
  <2>4. QED
    BY <2>3 DEF G
<1>10. gone(n) = AmountIn(trade, h)
  BY <1>4, <1>6
<1>11. QED
  BY <1>2, <1>9, <1>10

LEMMA SeqOfRows ==
  ASSUME NEW S, NEW T, NEW s \in Seq(S), NEW f, f = [i \in DOMAIN s |-> f[i]],
         \A i \in DOMAIN s : f[i] \in T
  PROVE  f \in Seq(T) /\ DOMAIN f = DOMAIN s /\ Len(f) = Len(s)
<1>1. Len(s) \in Nat /\ DOMAIN s = 1 .. Len(s)
  OBVIOUS
<1>2. f \in [1 .. Len(s) -> T]
  BY <1>1
<1>3. f \in Seq(T)
  BY <1>1, <1>2, SeqDef
<1>4. QED
  BY <1>1, <1>2, <1>3

(* The least of a set of numbers is one of them. *)
LEMMA MinInside ==
  ASSUME NEW T \in SUBSET Nat, T # {}
  PROVE  Min(T) \in T
<1>1. \E x \in T : \A y \in T : x <= y
  BY NatMin
<1>2. QED
  BY <1>1 DEF Min

-----------------------------------------------------------------------------
(* What a part of an order is worth at its price, rounded down.              *)

LEMMA QuotientOfSum ==
  ASSUME NEW x \in Nat, NEW y \in Nat, NEW d \in Nat \ {0}
  PROVE  /\ x \div d \in Nat /\ y \div d \in Nat /\ (x + y) \div d \in Nat
         /\ x \div d + y \div d <= (x + y) \div d
         /\ (x + y) \div d <= x \div d + y \div d + 1
OBVIOUS

LEMMA Worth ==
  ASSUME NEW row, row.usdcAmount \in Nat \ {0}, row.outcomeAmount \in Nat \ {0},
         NEW a \in Nat, NEW b \in Nat
  PROVE  /\ BuyReservation(row, a) \in Nat
         /\ BuyReservation(row, 0) = 0
         /\ BuyReservation(row, row.outcomeAmount) = row.usdcAmount
         /\ a <= b => BuyReservation(row, a) <= BuyReservation(row, b)
         /\ BuyReservation(row, a) + BuyReservation(row, b) <= BuyReservation(row, a + b)
         /\ BuyReservation(row, a + b) <= BuyReservation(row, a) + BuyReservation(row, b) + 1
<1> DEFINE u == row.usdcAmount
           d == row.outcomeAmount
           x == u * a
           y == u * b
<1>1. u \in Nat /\ d \in Nat \ {0} /\ x \in Nat /\ y \in Nat /\ u * (a + b) = x + y
  OBVIOUS
<1>2. u * 0 = 0 /\ 0 \div d = 0 /\ (u * d) \div d = u
  BY <1>1
<1>3. a <= b => x <= y
  BY <1>1
<1> HIDE DEF u, d, x, y
<1>4. x <= y => x \div d <= y \div d
  BY <1>1
<1>5. /\ x \div d \in Nat
      /\ x \div d + y \div d <= (x + y) \div d
      /\ (x + y) \div d <= x \div d + y \div d + 1
  BY <1>1, QuotientOfSum
<1>6. /\ BuyReservation(row, a) = x \div d /\ BuyReservation(row, b) = y \div d
      /\ BuyReservation(row, a + b) = (x + y) \div d
      /\ BuyReservation(row, 0) = (u * 0) \div d /\ BuyReservation(row, d) = (u * d) \div d
  BY <1>1 DEF BuyReservation, u, d, x, y
<1>7. QED
  BY <1>2, <1>3, <1>4, <1>5, <1>6 DEF u, d

-----------------------------------------------------------------------------
(* What the orders of a key need, and what is reserved beyond it.            *)

WithKey(o, key) == {h \in DOMAIN o : BuildOrderReservationKey(o[h]) = key}
NeededIn(o, key) == Total([h \in WithKey(o, key) |-> Needed(o[h])], WithKey(o, key))
Spare(o, r, key) == GetReservation(r, key) - NeededIn(o, key)

LEMMA NeededNat ==
  ASSUME NEW row \in OrderRow, RowInv(row)
  PROVE  /\ Needed(row) \in Nat /\ Confirmed(row) \in Nat
         /\ Confirmed(row) + row.remaining = row.outcomeAmount
<1>1. /\ row.usdcAmount \in Nat \ {0} /\ row.outcomeAmount \in Nat \ {0}
      /\ row.remaining \in Nat /\ row.pending \in Nat
      /\ row.pending <= row.remaining /\ row.remaining <= row.outcomeAmount
  BY DEF OrderRow, RowInv
<1> DEFINE c == Confirmed(row)
<1>2. c \in Nat /\ c + row.remaining = row.outcomeAmount /\ c <= row.outcomeAmount
  BY <1>1 DEF Confirmed
<1> HIDE DEF c
<1>3. BuyReservation(row, c) \in Nat /\ BuyReservation(row, c) <= row.usdcAmount
  BY <1>1, <1>2, Worth
<1>4. c + row.pending \in Nat /\ c <= c + row.pending
  BY <1>1, <1>2
<1>5. /\ BuyReservation(row, c + row.pending) \in Nat
      /\ BuyReservation(row, c) <= BuyReservation(row, c + row.pending)
  BY <1>1, <1>2, <1>4, Worth
<1>6. Needed(row) \in Nat
  BY <1>1, <1>3, <1>5 DEF Needed, c
<1>7. QED
  BY <1>2, <1>6 DEF c

LEMMA WithKeyFinite ==
  ASSUME NEW o, OrdersInv(o), NEW key
  PROVE  IsFiniteSet(WithKey(o, key)) /\ \A h \in WithKey(o, key) : Needed(o[h]) \in Nat
<1>1. WithKey(o, key) \in SUBSET Tickets
  BY DEF OrdersInv, WithKey
<1>2. ASSUME NEW h \in WithKey(o, key) PROVE Needed(o[h]) \in Nat
  <2>1. o[h] \in OrderRow /\ RowInv(o[h])
    BY DEF OrdersInv, WithKey
  <2>2. QED
    BY <2>1, NeededNat
<1>3. QED
  BY <1>1, <1>2, TicketsAssumption, FS_Subset

LEMMA NeededInNat ==
  ASSUME NEW o, OrdersInv(o), NEW key
  PROVE  NeededIn(o, key) \in Nat
<1>1. \A h \in WithKey(o, key) : [g \in WithKey(o, key) |-> Needed(o[g])][h] \in Nat
  BY WithKeyFinite
<1>2. QED
  BY <1>1, WithKeyFinite, TotalNat DEF NeededIn

(* A row that changes alone, and not its key.                                *)
LEMMA NeededRow ==
  ASSUME NEW o, OrdersInv(o), NEW q, OrdersInv(q), DOMAIN q = DOMAIN o, NEW h \in DOMAIN o,
         BuildOrderReservationKey(q[h]) = BuildOrderReservationKey(o[h]),
         \A g \in DOMAIN o \ {h} : q[g] = o[g], NEW key
  PROVE  NeededIn(q, key) =
           NeededIn(o, key) + (IF key = BuildOrderReservationKey(o[h])
                               THEN Needed(q[h]) - Needed(o[h]) ELSE 0)
<1> DEFINE S == WithKey(o, key)
           f == [g \in S |-> Needed(o[g])]
           e == [g \in S |-> Needed(q[g])]
<1>1. WithKey(q, key) = S
  BY DEF WithKey
<1>2. IsFiniteSet(S) /\ \A g \in S : f[g] \in Nat /\ e[g] \in Nat
  <2>1. \A g \in S : Needed(o[g]) \in Nat
    BY WithKeyFinite
  <2>2. \A g \in S : Needed(q[g]) \in Nat
    BY <1>1, WithKeyFinite
  <2>3. QED
    BY <2>1, <2>2, WithKeyFinite
<1>3. NeededIn(q, key) = Total(e, S) /\ NeededIn(o, key) = Total(f, S)
  BY <1>1 DEF NeededIn
<1>4. \A g \in S \ {h} : e[g] = f[g]
  BY DEF WithKey
<1>5. h \in S <=> key = BuildOrderReservationKey(o[h])
  BY DEF WithKey
<1>6. CASE h \in S
  <2>1. f[h] = Needed(o[h]) /\ e[h] = Needed(q[h])
    BY <1>6
  <2> HIDE DEF S, e, f
  <2>2. Total(e, S) = Total(f, S) - f[h] + e[h]
    BY <1>2, <1>4, <1>6, TotalUpdate
  <2>3. Total(f, S) \in Nat
    BY <1>2, TotalNat
  <2>4. QED
    BY <1>2, <1>3, <1>5, <1>6, <2>1, <2>2, <2>3
<1>7. CASE h \notin S
  <2>1. \A g \in S : e[g] = f[g]
    BY <1>4, <1>7
  <2> HIDE DEF S, e, f
  <2>2. Total(e, S) = Total(f, S)
    BY <2>1, TotalEqual
  <2>3. Total(f, S) \in Nat
    BY <1>2, TotalNat
  <2>4. QED
    BY <1>3, <1>5, <1>7, <2>2, <2>3
<1>8. QED
  BY <1>6, <1>7

(* Rows that keep their keys and their needs, and a row that is new.         *)
LEMMA NeededSame ==
  ASSUME NEW o, NEW q, DOMAIN q = DOMAIN o,
         \A g \in DOMAIN o : /\ BuildOrderReservationKey(q[g]) = BuildOrderReservationKey(o[g])
                             /\ Needed(q[g]) = Needed(o[g]),
         NEW key
  PROVE  NeededIn(q, key) = NeededIn(o, key)
<1> DEFINE S == WithKey(o, key)
<1>1. WithKey(q, key) = S
  BY DEF WithKey
<1>2. \A g \in S : [x \in S |-> Needed(q[x])][g] = [x \in S |-> Needed(o[x])][g]
  BY DEF WithKey
<1>3. QED
  BY <1>1, <1>2, TotalEqual DEF NeededIn

LEMMA NeededNew ==
  ASSUME NEW o, OrdersInv(o), NEW q, OrdersInv(q), NEW h, h \notin DOMAIN o,
         DOMAIN q = DOMAIN o \cup {h}, \A g \in DOMAIN o : q[g] = o[g], NEW key
  PROVE  NeededIn(q, key) =
           NeededIn(o, key) + (IF key = BuildOrderReservationKey(q[h]) THEN Needed(q[h]) ELSE 0)
<1> DEFINE S == WithKey(o, key)
           U == WithKey(q, key)
           f == [g \in S |-> Needed(o[g])]
           e == [g \in U |-> Needed(q[g])]
<1>1. /\ U = IF key = BuildOrderReservationKey(q[h]) THEN S \cup {h} ELSE S
      /\ h \notin S
  BY DEF WithKey
<1>2. /\ IsFiniteSet(S) /\ \A g \in S : f[g] \in Nat
      /\ \A g \in U : e[g] \in Nat
  BY WithKeyFinite
<1>3. \A g \in S : e[g] = f[g]
  BY <1>1 DEF WithKey
<1>4. NeededIn(q, key) = Total(e, U) /\ NeededIn(o, key) = Total(f, S)
  BY DEF NeededIn
<1>5. h \in U => e[h] = Needed(q[h])
  OBVIOUS
<1>6. h \in U <=> key = BuildOrderReservationKey(q[h])
  BY <1>1
<1> HIDE DEF S, U, e, f
<1>7. Total(e, S) = Total(f, S)
  BY <1>3, TotalEqual
<1>8. Total(f, S) \in Nat
  BY <1>2, TotalNat
<1>9. CASE h \in U
  <2>1. U = S \cup {h}
    BY <1>1, <1>6, <1>9
  <2>2. Total(e, S \cup {h}) = Total(e, S) + e[h]
    BY <1>1, <1>2, <2>1, TotalAdd
  <2>3. QED
    BY <2>1, <2>2, <1>4, <1>5, <1>6, <1>7, <1>9
<1>10. CASE h \notin U
  BY <1>1, <1>4, <1>6, <1>7, <1>8, <1>10
<1>11. QED
  BY <1>9, <1>10

-----------------------------------------------------------------------------
(* What the statements leave of what is reserved beyond the needs.           *)

LEMMA ReservedNat ==
  ASSUME NEW r \in ReservationTables, NEW key
  PROVE  GetReservation(r, key) \in Nat
BY DEF ReservationTables, GetReservation

LEMMA DecreaseTakes ==
  ASSUME NEW r \in ReservationTables, NEW key, NEW amount \in Int,
         CanDecreaseReservation(r, key, amount)
  PROVE  \A k : GetReservation(DecreaseReservation(r, key, amount), k)
                  = GetReservation(r, k) - (IF k = key THEN amount ELSE 0)
<1> SUFFICES ASSUME NEW k
             PROVE  GetReservation(DecreaseReservation(r, key, amount), k)
                      = GetReservation(r, k) - (IF k = key THEN amount ELSE 0)
  OBVIOUS
<1>1. PICK S \in SUBSET ReservationKeys : r \in [S -> Nat \ {0}]
  BY DEF ReservationTables
<1>2. key \in S /\ r[key] >= amount /\ amount > 0 /\ r[key] \in Nat
  BY <1>1 DEF CanDecreaseReservation
<1>3. GetReservation(r, k) \in Nat
  BY ReservedNat
<1>4. CASE r[key] = amount
  <2>1. DecreaseReservation(r, key, amount) = [j \in S \ {key} |-> r[j]]
    BY <1>1, <1>4 DEF DecreaseReservation
  <2>2. QED
    BY <2>1, <1>1, <1>2, <1>3, <1>4 DEF GetReservation
<1>5. CASE r[key] # amount
  <2>1. DecreaseReservation(r, key, amount) = [r EXCEPT ![key] = r[key] - amount]
    BY <1>5 DEF DecreaseReservation
  <2>2. QED
    BY <2>1, <1>1, <1>2, <1>3 DEF GetReservation
<1>6. QED
  BY <1>4, <1>5

LEMMA ReleaseTakes ==
  ASSUME NEW r \in ReservationTables, NEW key, NEW amount \in Nat,
         CanReleaseRemainder(r, key, amount)
  PROVE  /\ ReleaseRemainder(r, key, amount) \in ReservationTables
         /\ \A k : GetReservation(ReleaseRemainder(r, key, amount), k)
                     = GetReservation(r, k) - (IF k = key THEN amount ELSE 0)
<1>1. CASE amount > 0
  BY <1>1, DecreaseTakes, DecreaseKeepsTable DEF ReleaseRemainder, CanReleaseRemainder
<1>2. CASE ~ (amount > 0)
  <2>1. amount = 0 /\ ReleaseRemainder(r, key, amount) = r
    BY <1>2 DEF ReleaseRemainder
  <2>2. \A k : GetReservation(r, k) \in Nat
    BY ReservedNat
  <2>3. QED
    BY <2>1, <2>2
<1>3. QED
  BY <1>1, <1>2

LEMMA IncreaseAdds ==
  ASSUME NEW r \in ReservationTables, NEW key \in ReservationKeys, NEW amount \in Nat \ {0}
  PROVE  /\ IncreaseReservation(r, key, amount) \in ReservationTables
         /\ key \in DOMAIN IncreaseReservation(r, key, amount)
         /\ \A k : GetReservation(IncreaseReservation(r, key, amount), k)
                     = GetReservation(r, k) + (IF k = key THEN amount ELSE 0)
<1>1. PICK S \in SUBSET ReservationKeys : r \in [S -> Nat \ {0}]
  BY DEF ReservationTables
<1> DEFINE U == S \cup {key}
           t == IncreaseReservation(r, key, amount)
<1>2. t = [k \in U |-> GetReservation(r, k) + (IF k = key THEN amount ELSE 0)]
  BY <1>1 DEF IncreaseReservation
<1>3. \A k : GetReservation(r, k) \in Nat
  BY ReservedNat
<1>4. \A k \in S : GetReservation(r, k) = r[k] /\ r[k] \in Nat \ {0}
  BY <1>1 DEF GetReservation
<1>5. \A k \in U : t[k] \in Nat \ {0}
  <2>1. ASSUME NEW k \in U PROVE t[k] \in Nat \ {0}
    <3>1. CASE k = key
      BY <3>1, <1>2, <1>3
    <3>2. CASE k # key
      BY <3>2, <1>2, <1>4
    <3>3. QED
      BY <3>1, <3>2
  <2>2. QED
    BY <2>1
<1>6. t \in [U -> Nat \ {0}] /\ U \in SUBSET ReservationKeys
  BY <1>1, <1>2, <1>5
<1>7. ASSUME NEW k
      PROVE  GetReservation(t, k) = GetReservation(r, k) + (IF k = key THEN amount ELSE 0)
  <2>1. CASE k \in U
    BY <2>1, <1>2 DEF GetReservation
  <2>2. CASE k \notin U
    <3>1. k # key /\ k \notin DOMAIN r /\ k \notin DOMAIN t
      BY <2>2, <1>1, <1>2
    <3>2. QED
      BY <3>1 DEF GetReservation
  <2>3. QED
    BY <2>1, <2>2
<1>8. t \in ReservationTables /\ key \in DOMAIN t
  BY <1>6 DEF ReservationTables
<1> HIDE DEF t
<1>9. QED
  BY <1>7, <1>8 DEF t

(* A live order that ends gives back what is available of it.                *)
LEMMA EndedNeeds ==
  ASSUME NEW row \in OrderRow, RowInv(row), row.status = "LIVE",
         NEW status \in {"CANCELLED", "EXPIRED"}
  PROVE  LET ended == [row EXCEPT !.status = status] IN
         /\ ended \in OrderRow /\ RowInv(ended)
         /\ BuildOrderReservationKey(ended) = BuildOrderReservationKey(row)
         /\ AvailableRemainderRelease(row) \in Nat
         /\ Needed(ended) = Needed(row) - AvailableRemainderRelease(row)
<1> DEFINE ended == [row EXCEPT !.status = status]
           c == Confirmed(row)
<1>1. /\ row.usdcAmount \in Nat \ {0} /\ row.outcomeAmount \in Nat \ {0}
      /\ row.remaining \in Nat /\ row.pending \in Nat
      /\ row.pending <= row.remaining /\ row.remaining <= row.outcomeAmount
  BY DEF OrderRow, RowInv
<1>2. ended \in OrderRow
  BY DEF OrderRow, OrderStatus
<1>3. /\ ended.maker = row.maker /\ ended.side = row.side /\ ended.book = row.book
      /\ ended.outcomeAmount = row.outcomeAmount /\ ended.usdcAmount = row.usdcAmount
      /\ ended.remaining = row.remaining /\ ended.pending = row.pending /\ ended.status = status
  BY DEF OrderRow
<1> HIDE DEF ended
<1>4. RowInv(ended)
  <2>1. row.remaining # 0
    BY DEF RowInv
  <2>2. QED
    BY <1>1, <1>3, <2>1 DEF RowInv
<1>5. BuildOrderReservationKey(ended) = BuildOrderReservationKey(row)
  BY <1>3 DEF BuildOrderReservationKey, AssetOf
<1>6. /\ Confirmed(ended) = c /\ c \in Nat /\ c + row.remaining = row.outcomeAmount
      /\ Available(row) = row.remaining - row.pending
  BY <1>1, <1>3 DEF Confirmed, Available
<1>7. \A z : BuyReservation(ended, z) = BuyReservation(row, z)
  BY <1>3 DEF BuyReservation
<1> HIDE DEF c
<1>8. /\ c + row.pending \in Nat /\ c + row.pending <= row.outcomeAmount
      /\ c + row.pending = row.outcomeAmount <=> Available(row) = 0
      /\ Available(row) \in Nat
  BY <1>1, <1>6
<1>9. /\ BuyReservation(row, c) \in Nat /\ BuyReservation(row, c + row.pending) \in Nat
      /\ BuyReservation(row, c + row.pending) <= row.usdcAmount
      /\ BuyReservation(row, row.outcomeAmount) = row.usdcAmount
  BY <1>1, <1>6, <1>8, Worth
<1>10. CASE row.side = "SELL"
  <2>1. Needed(row) = row.remaining /\ Needed(ended) = row.pending
    BY <1>3, <1>10 DEF Needed
  <2>2. AvailableRemainderRelease(row) = Available(row)
    BY <1>8, <1>10 DEF AvailableRemainderRelease
  <2>3. QED
    BY <2>1, <2>2, <1>1, <1>2, <1>4, <1>5, <1>6, <1>8 DEF ended
<1>11. CASE row.side # "SELL"
  <2>1. /\ Needed(row) = row.usdcAmount - BuyReservation(row, c)
        /\ Needed(ended) = BuyReservation(row, c + row.pending) - BuyReservation(row, c)
    BY <1>3, <1>6, <1>7, <1>11 DEF Needed, c
  <2>2. AvailableRemainderRelease(row) = row.usdcAmount - BuyReservation(row, c + row.pending)
    <3>1. CASE Available(row) = 0
      BY <3>1, <1>1, <1>8, <1>9 DEF AvailableRemainderRelease
    <3>2. CASE Available(row) # 0
      BY <3>2, <1>8, <1>11 DEF AvailableRemainderRelease, c
    <3>3. QED
      BY <3>1, <3>2
  <2>3. QED
    BY <2>1, <2>2, <1>1, <1>2, <1>4, <1>5, <1>9 DEF ended
<1>12. QED
  BY <1>10, <1>11

(* A fill that is confirmed takes from the reservation what the order no     *)
(* longer needs.                                                             *)
LEMMA ConfirmedNeeds ==
  ASSUME NEW o, OrdersInv(o), NEW h \in DOMAIN o, NEW amount \in Nat, CanConfirmFill(o, h, amount),
         o[h].status # "LIVE" => amount <= o[h].pending
  PROVE  LET after == ConfirmOrderFill(o, h, amount) IN
         /\ ConfirmedFillRelease(o[h], amount) \in Nat
         /\ BuildOrderReservationKey(after[h]) = BuildOrderReservationKey(o[h])
         /\ Needed(after[h]) = Needed(o[h]) - ConfirmedFillRelease(o[h], amount)
<1> DEFINE row == o[h]
           end == ConfirmOrderFill(o, h, amount)[h]
           c == Confirmed(row)
<1>1. /\ row.usdcAmount \in Nat \ {0} /\ row.outcomeAmount \in Nat \ {0}
      /\ row.remaining \in Nat /\ row.pending \in Nat
      /\ row.pending <= row.remaining /\ row.remaining <= row.outcomeAmount
      /\ row.status = "FILLED" <=> row.remaining = 0
      /\ row \in OrderRow
  <2>1. row \in OrderRow /\ RowInv(row)
    BY DEF OrdersInv
  <2>2. QED
    BY <2>1 DEF OrderRow, RowInv
<1>2. amount > 0 /\ row.status # "FILLED" /\ row.remaining >= amount
  BY DEF CanConfirmFill
<1>3. end = [row EXCEPT !.remaining = @ - amount, !.pending = Larger(@ - amount, 0),
                        !.status = IF row.remaining = amount THEN "FILLED" ELSE @]
  BY DEF ConfirmOrderFill, OrdersInv
<1>4. /\ end.maker = row.maker /\ end.side = row.side /\ end.book = row.book
      /\ end.outcomeAmount = row.outcomeAmount /\ end.usdcAmount = row.usdcAmount
      /\ end.remaining = row.remaining - amount /\ end.pending = Larger(row.pending - amount, 0)
      /\ end.status = IF row.remaining = amount THEN "FILLED" ELSE row.status
  BY <1>1, <1>3 DEF OrderRow
<1>5. BuildOrderReservationKey(end) = BuildOrderReservationKey(row)
  BY <1>4 DEF BuildOrderReservationKey, AssetOf
<1>6. \A z : BuyReservation(end, z) = BuyReservation(row, z)
  BY <1>4 DEF BuyReservation
<1>7. /\ c \in Nat /\ c + row.remaining = row.outcomeAmount /\ Confirmed(end) = c + amount
  BY <1>1, <1>4 DEF Confirmed
<1> HIDE DEF c, end, row
<1>8. /\ c + amount \in Nat /\ c + row.pending \in Nat /\ c <= c + amount
      /\ BuyReservation(row, c) \in Nat /\ BuyReservation(row, c + amount) \in Nat
      /\ BuyReservation(row, c + row.pending) \in Nat
      /\ BuyReservation(row, c) <= BuyReservation(row, c + amount)
      /\ BuyReservation(row, row.outcomeAmount) = row.usdcAmount
  <2>1. c + amount \in Nat /\ c + row.pending \in Nat /\ c <= c + amount
    BY <1>1, <1>7
  <2>2. QED
    BY <2>1, <1>1, <1>7, Worth
<1>9. amount <= row.pending => end.pending = row.pending - amount
  BY <1>1, <1>4 DEF Larger
<1>10. /\ row.remaining = amount => /\ end.status = "FILLED" /\ end.pending = 0
                                    /\ c + amount = row.outcomeAmount
       /\ row.remaining # amount => end.status = row.status
  <2>1. row.remaining = amount => Larger(row.pending - amount, 0) = 0
    BY <1>1 DEF Larger
  <2>2. QED
    BY <2>1, <1>1, <1>4, <1>7
<1>11. CASE row.side = "SELL"
  <2>1. ConfirmedFillRelease(row, amount) = amount
    BY <1>11 DEF ConfirmedFillRelease
  <2>2. /\ Needed(row) = IF row.status = "LIVE" THEN row.remaining ELSE row.pending
        /\ Needed(end) = IF end.status = "LIVE" THEN end.remaining ELSE end.pending
    BY <1>4, <1>11 DEF Needed
  <2>3. CASE row.status = "LIVE"
    BY <2>1, <2>2, <2>3, <1>1, <1>4, <1>5, <1>10 DEF row, end
  <2>4. CASE row.status # "LIVE"
    <3>1. end.status # "LIVE" /\ end.pending = row.pending - amount
      BY <2>4, <1>9, <1>10 DEF row
    <3>2. QED
      BY <2>1, <2>2, <2>4, <3>1, <1>1, <1>5 DEF row, end
  <2>5. QED
    BY <2>3, <2>4
<1>12. CASE row.side # "SELL"
  <2>1. /\ ConfirmedFillRelease(row, amount) = BuyReservation(row, c + amount) - BuyReservation(row, c)
        /\ ConfirmedFillRelease(row, amount) \in Nat
    BY <1>8, <1>12 DEF ConfirmedFillRelease, c
  <2>2. /\ Needed(row) = (IF row.status = "LIVE" THEN row.usdcAmount
                          ELSE BuyReservation(row, c + row.pending)) - BuyReservation(row, c)
        /\ Needed(end) = (IF end.status = "LIVE" THEN row.usdcAmount
                          ELSE BuyReservation(row, (c + amount) + end.pending))
                         - BuyReservation(row, c + amount)
    BY <1>4, <1>6, <1>7, <1>12 DEF Needed, c
  <2>3. CASE row.remaining = amount
    <3>1. /\ (c + amount) + end.pending = row.outcomeAmount
          /\ Needed(end) = 0
      BY <2>2, <2>3, <1>1, <1>8, <1>10
    <3>2. Needed(row) = row.usdcAmount - BuyReservation(row, c)
      <4>1. CASE row.status = "LIVE"
        BY <4>1, <2>2
      <4>2. CASE row.status # "LIVE"
        <5>1. row.pending = amount
          BY <4>2, <2>3, <1>1 DEF row
        <5>2. QED
          BY <4>2, <5>1, <2>2, <1>8, <1>10, <2>3
      <4>3. QED
        BY <4>1, <4>2
    <3>3. QED
      BY <2>1, <2>3, <3>1, <3>2, <1>1, <1>5, <1>8, <1>10 DEF row, end
  <2>4. CASE row.remaining # amount /\ row.status = "LIVE"
    BY <2>1, <2>2, <2>4, <1>1, <1>5, <1>8, <1>10 DEF row, end
  <2>5. CASE row.remaining # amount /\ row.status # "LIVE"
    <3>1. end.status # "LIVE" /\ (c + amount) + end.pending = c + row.pending
      BY <2>5, <1>1, <1>7, <1>9, <1>10 DEF row
    <3>2. QED
      BY <2>1, <2>2, <2>5, <3>1, <1>1, <1>5, <1>8 DEF row, end
  <2>6. QED
    BY <2>3, <2>4, <2>5
<1>13. QED
  BY <1>11, <1>12

(* A copy of a row that may have been read some time ago.                    *)
CopyOf(copy, row) ==
  /\ copy \in OrderRow /\ RowInv(copy)
  /\ copy.maker = row.maker /\ copy.side = row.side /\ copy.book = row.book
  /\ copy.outcomeAmount = row.outcomeAmount /\ copy.usdcAmount = row.usdcAmount
  /\ copy.status # "LIVE" => row.status # "LIVE"
Aged(q, o) == \A g \in DOMAIN o : CopyOf(o[g], q[g])

LEMMA CopyAges ==
  ASSUME NEW a, NEW b, NEW c, CopyOf(a, b), CopyOf(b, c)
  PROVE  CopyOf(a, c)
BY DEF CopyOf

LEMMA AgedTrans ==
  ASSUME NEW o, NEW p, NEW q, DOMAIN p = DOMAIN o, Aged(p, o), Aged(q, p)
  PROVE  Aged(q, o)
BY CopyAges DEF Aged

LEMMA RowIsCopy ==
  ASSUME NEW o, OrdersInv(o)
  PROVE  \A g \in DOMAIN o : CopyOf(o[g], o[g])
BY DEF CopyOf, OrdersInv

LEMMA CopyValues ==
  ASSUME NEW copy, NEW row, CopyOf(copy, row)
  PROVE  /\ Confirmed(copy) \in Nat
         /\ \A z : BuyReservation(copy, z) = BuyReservation(row, z)
         /\ copy.side = row.side
         /\ BuildOrderReservationKey(copy) = BuildOrderReservationKey(row)
<1>1. copy \in OrderRow /\ RowInv(copy)
  BY DEF CopyOf
<1>2. Confirmed(copy) \in Nat
  BY <1>1 DEF Confirmed, OrderRow, RowInv
<1>3. QED
  BY <1>2 DEF CopyOf, BuyReservation, BuildOrderReservationKey, AssetOf

(* A part of a failed trade that is given back: of an order that was live    *)
(* nothing; of another one what it was worth when the order was read, which  *)
(* is at most a unit more than the order no longer needs.                    *)
LEMMA ReleasedNeeds ==
  ASSUME NEW o, OrdersInv(o), NEW h \in DOMAIN o, NEW amount \in Nat, CanReleasePending(o, h, amount),
         NEW copy, CopyOf(copy, o[h])
  PROVE  LET after == ReleaseOrderPending(o, h, amount)
             release == FailedPendingRelease(copy, amount)
         IN
         /\ release \in Nat
         /\ BuildOrderReservationKey(after[h]) = BuildOrderReservationKey(o[h])
         /\ CopyOf(o[h], after[h])
         /\ Needed(after[h]) <= Needed(o[h])
         /\ copy.status # "LIVE" =>
              release <= Needed(o[h]) - Needed(after[h]) + (IF o[h].side = "SELL" THEN 0 ELSE 1)
<1> DEFINE row == o[h]
           end == ReleaseOrderPending(o, h, amount)[h]
           c == Confirmed(row)
           d == Confirmed(copy)
           rest == row.pending - amount
<1>1. /\ row.usdcAmount \in Nat \ {0} /\ row.outcomeAmount \in Nat \ {0}
      /\ row.remaining \in Nat /\ row.pending \in Nat
      /\ row.pending <= row.remaining /\ row.remaining <= row.outcomeAmount
      /\ row \in OrderRow
  <2>1. row \in OrderRow /\ RowInv(row)
    BY DEF OrdersInv
  <2>2. QED
    BY <2>1 DEF OrderRow, RowInv
<1>2. rest \in Nat /\ row.pending = rest + amount
  BY <1>1 DEF CanReleasePending
<1>3. end = [row EXCEPT !.pending = @ - amount]
  BY DEF ReleaseOrderPending, OrdersInv
<1>4. /\ end.maker = row.maker /\ end.side = row.side /\ end.book = row.book
      /\ end.outcomeAmount = row.outcomeAmount /\ end.usdcAmount = row.usdcAmount
      /\ end.remaining = row.remaining /\ end.pending = rest /\ end.status = row.status
  BY <1>1, <1>3 DEF OrderRow
<1>5. BuildOrderReservationKey(end) = BuildOrderReservationKey(row)
  BY <1>4 DEF BuildOrderReservationKey, AssetOf
<1>6. \A z : BuyReservation(end, z) = BuyReservation(row, z)
  BY <1>4 DEF BuyReservation
<1>7. c \in Nat /\ Confirmed(end) = c
  BY <1>1, <1>4 DEF Confirmed
<1>12. d \in Nat /\ copy.side = row.side /\ \A z : BuyReservation(copy, z) = BuyReservation(row, z)
  BY CopyValues
<1>13. CopyOf(row, end)
  <2>1. RowInv(row)
    BY DEF OrdersInv
  <2>2. QED
    BY <2>1, <1>1, <1>4 DEF CopyOf
<1>14. copy.status # "LIVE" => row.status # "LIVE"
  BY DEF CopyOf
<1> HIDE DEF c, d, end, row, rest
<1>8. CASE row.side = "SELL"
  <2>1. FailedPendingRelease(copy, amount) = amount
    BY <1>8, <1>12 DEF FailedPendingRelease
  <2>2. /\ Needed(row) = IF row.status = "LIVE" THEN row.remaining ELSE row.pending
        /\ Needed(end) = IF row.status = "LIVE" THEN row.remaining ELSE rest
    BY <1>4, <1>8 DEF Needed
  <2>3. QED
    BY <2>1, <2>2, <1>1, <1>2, <1>5, <1>8, <1>13, <1>14 DEF row, end
<1>9. CASE row.side # "SELL"
  <2> DEFINE v(z) == BuyReservation(row, z)
             e == c + rest
             x == v(d + amount)
  <2>1. e \in Nat /\ e + amount = c + row.pending /\ d + amount \in Nat /\ d <= d + amount /\ c <= e
    BY <1>2, <1>7, <1>12
  <2>2. /\ v(d) \in Nat /\ x \in Nat /\ v(amount) \in Nat /\ v(d) <= x /\ x <= v(d) + v(amount) + 1
    <3> DEFINE k == d + amount
    <3>1. v(d) \in Nat /\ v(amount) \in Nat /\ v(d + amount) <= v(d) + v(amount) + 1
      BY <1>1, <1>12, Worth
    <3>2. k \in Nat /\ d <= k
      BY <2>1
    <3> HIDE DEF k
    <3>3. v(k) \in Nat /\ v(d) <= v(k)
      BY <3>2, <1>1, <1>12, Worth
    <3>4. QED
      BY <3>1, <3>3 DEF k
  <2>3. /\ v(c) \in Nat /\ v(e) \in Nat /\ v(e + amount) \in Nat /\ v(c) <= v(e)
        /\ v(e) + v(amount) <= v(e + amount)
    <3> HIDE DEF e
    <3>1. v(e) \in Nat /\ v(e) + v(amount) <= v(e + amount)
      BY <2>1, <1>1, Worth
    <3>2. e + amount \in Nat
      BY <2>1
    <3>3. v(e + amount) \in Nat
      BY <3>2, <1>1, Worth
    <3>4. v(c) \in Nat /\ v(c) <= v(e)
      BY <2>1, <1>1, <1>7, Worth
    <3>5. QED
      BY <3>1, <3>3, <3>4
  <2>4. FailedPendingRelease(copy, amount) = x - v(d)
    BY <1>9, <1>12 DEF FailedPendingRelease, d
  <2>5. row.status = "LIVE" => Needed(end) = Needed(row)
    BY <1>4, <1>6, <1>7, <1>9 DEF Needed, c
  <2>6. row.status # "LIVE" => Needed(row) = v(e + amount) - v(c) /\ Needed(end) = v(e) - v(c)
    BY <2>1, <1>4, <1>6, <1>7, <1>9 DEF Needed, c
  <2>7. Needed(row) \in Nat
    <3>1. RowInv(row)
      BY DEF OrdersInv, row
    <3>2. QED
      BY <3>1, <1>1, NeededNat
  <2> HIDE DEF v, x, e
  <2>8. Needed(end) <= Needed(row)
    BY <2>2, <2>3, <2>5, <2>6, <2>7
  <2>9. QED
    BY <2>2, <2>3, <2>4, <2>6, <2>8, <1>5, <1>9, <1>13, <1>14 DEF row, end
<1>10. QED
  BY <1>8, <1>9

-----------------------------------------------------------------------------
(* What the statements of a transaction leave of the tables.                 *)

Kept(q, o) ==
  /\ OrdersInv(q) /\ DOMAIN q = DOMAIN o
  /\ \A g \in DOMAIN o : /\ q[g].acceptedSequence = o[g].acceptedSequence
                         /\ BuildOrderReservationKey(q[g]) = BuildOrderReservationKey(o[g])

LEMMA KeptTrans ==
  ASSUME NEW o, NEW p, NEW q, Kept(p, o), Kept(q, p)
  PROVE  Kept(q, o)
BY DEF Kept

(* A row that changes alone, and gives up at most what is released of it.    *)
LEMMA SpareRow ==
  ASSUME NEW o, OrdersInv(o), NEW q, OrdersInv(q), DOMAIN q = DOMAIN o, NEW h \in DOMAIN o,
         BuildOrderReservationKey(q[h]) = BuildOrderReservationKey(o[h]),
         \A g \in DOMAIN o \ {h} : q[g] = o[g],
         NEW r \in ReservationTables, NEW s \in ReservationTables, NEW release \in Nat,
         \A k : GetReservation(s, k) =
                  GetReservation(r, k) - (IF k = BuildOrderReservationKey(o[h]) THEN release ELSE 0),
         NEW extra \in Nat, release <= Needed(o[h]) - Needed(q[h]) + extra
  PROVE  \A key : Spare(q, s, key) >=
                    Spare(o, r, key) - (IF key = BuildOrderReservationKey(o[h]) THEN extra ELSE 0)
<1> SUFFICES ASSUME NEW key
             PROVE  Spare(q, s, key) >=
                      Spare(o, r, key) - (IF key = BuildOrderReservationKey(o[h]) THEN extra ELSE 0)
  OBVIOUS
<1>1. NeededIn(q, key) = NeededIn(o, key) + (IF key = BuildOrderReservationKey(o[h])
                                             THEN Needed(q[h]) - Needed(o[h]) ELSE 0)
  BY NeededRow
<1>2. NeededIn(q, key) \in Nat /\ NeededIn(o, key) \in Nat
  BY NeededInNat
<1>3. GetReservation(r, key) \in Nat /\ GetReservation(s, key) \in Nat
  BY ReservedNat
<1>4. Needed(o[h]) \in Nat /\ Needed(q[h]) \in Nat
  <2>1. o[h] \in OrderRow /\ RowInv(o[h]) /\ q[h] \in OrderRow /\ RowInv(q[h])
    BY DEF OrdersInv
  <2>2. QED
    BY <2>1, NeededNat
<1>5. GetReservation(s, key) =
        GetReservation(r, key) - (IF key = BuildOrderReservationKey(o[h]) THEN release ELSE 0)
  OBVIOUS
<1>6. CASE key = BuildOrderReservationKey(o[h])
  BY <1>1, <1>2, <1>3, <1>4, <1>5, <1>6 DEF Spare
<1>7. CASE key # BuildOrderReservationKey(o[h])
  BY <1>1, <1>2, <1>3, <1>5, <1>7 DEF Spare
<1>8. QED
  BY <1>6, <1>7

NoneMore(s, r) == \A key : GetReservation(s, key) <= GetReservation(r, key)
NoSpareLost(q, r, o, s) == \A key : Spare(q, r, key) >= Spare(o, s, key)

ConfirmLeaves(x, o, r, h, amount) ==
  /\ Kept(x.orders, o) /\ x.reservations \in ReservationTables
  /\ x = [ok |-> TRUE, orders |-> x.orders, reservations |-> x.reservations]
  /\ x.orders[h].pending = o[h].pending - amount
  /\ \A g \in DOMAIN o \ {h} : x.orders[g] = o[g]
  /\ NoSpareLost(x.orders, x.reservations, o, r) /\ NoneMore(x.reservations, r)
  /\ Aged(x.orders, o)

LEMMA ConfirmFillKeeps ==
  ASSUME NEW o, OrdersInv(o), NEW r \in ReservationTables, NEW h \in DOMAIN o, NEW amount \in Nat,
         amount <= o[h].pending,
         NEW x, x = ConfirmFill([ok |-> TRUE, orders |-> o, reservations |-> r], h, amount), x.ok
  PROVE  ConfirmLeaves(x, o, r, h, amount)
<1> DEFINE key == BuildOrderReservationKey(o[h])
           release == ConfirmedFillRelease(o[h], amount)
           q == ConfirmOrderFill(o, h, amount)
           s == DecreaseReservation(r, key, release)
<1>1. /\ CanDecreaseReservation(r, key, release) /\ CanConfirmFill(o, h, amount)
      /\ x = [ok |-> TRUE, orders |-> q, reservations |-> s]
  BY DEF ConfirmFill
<1>2. /\ OrdersInv(q) /\ DOMAIN q = DOMAIN o
      /\ q[h].pending = o[h].pending - amount
      /\ \A g \in DOMAIN o \ {h} : q[g] = o[g]
  BY <1>1, ConfirmKeepsRow
<1>3. q[h].acceptedSequence = o[h].acceptedSequence /\ CopyOf(o[h], q[h])
  <2>1. o[h] \in OrderRow /\ RowInv(o[h])
    BY DEF OrdersInv
  <2>2. q[h] = [o[h] EXCEPT !.remaining = @ - amount, !.pending = Larger(@ - amount, 0),
                            !.status = IF o[h].remaining = amount THEN "FILLED" ELSE @]
    BY DEF ConfirmOrderFill, OrdersInv
  <2>3. QED
    BY <2>1, <2>2 DEF OrderRow, CopyOf
<1>14. Aged(q, o)
  BY <1>2, <1>3, RowIsCopy DEF Aged
<1>4. /\ release \in Nat /\ BuildOrderReservationKey(q[h]) = key
      /\ Needed(q[h]) = Needed(o[h]) - release
  BY <1>1, ConfirmedNeeds
<1>5. /\ s \in ReservationTables
      /\ \A k : GetReservation(s, k) = GetReservation(r, k) - (IF k = key THEN release ELSE 0)
  BY <1>1, <1>4, DecreaseTakes, DecreaseKeepsTable
<1>6. Needed(o[h]) \in Nat
  <2>1. o[h] \in OrderRow /\ RowInv(o[h])
    BY DEF OrdersInv
  <2>2. QED
    BY <2>1, NeededNat
<1> HIDE DEF key, release, q, s
<1>7. \A k : Spare(q, s, k) >= Spare(o, r, k) - (IF k = key THEN 0 ELSE 0)
  <2>1. release <= Needed(o[h]) - Needed(q[h]) + 0
    BY <1>4, <1>6
  <2>2. QED
    BY <2>1, <1>2, <1>4, <1>5, SpareRow DEF key
<1>8. \A k : Spare(q, s, k) >= Spare(o, r, k)
  <2>1. \A k : Spare(o, r, k) \in Int
    BY NeededInNat, ReservedNat DEF Spare
  <2>2. QED
    BY <1>7, <2>1
<1>9. Kept(q, o)
  BY <1>2, <1>3, <1>4 DEF Kept, key
<1>10. x.orders = q /\ x.reservations = s
  BY <1>1
<1>11. x = [ok |-> TRUE, orders |-> x.orders, reservations |-> x.reservations]
  BY <1>1, <1>10
<1>12. NoneMore(s, r)
  <2>1. \A k : GetReservation(r, k) \in Nat
    BY ReservedNat
  <2>2. QED
    BY <2>1, <1>4, <1>5 DEF NoneMore
<1>13. QED
  BY <1>2, <1>5, <1>8, <1>9, <1>10, <1>11, <1>12, <1>14 DEF ConfirmLeaves, NoSpareLost

ReleaseLeaves(x, o, r, h) ==
  /\ Aged(x.orders, o)
  /\ Kept(x.orders, o) /\ x.reservations \in ReservationTables /\ NoneMore(x.reservations, r)
  /\ x = [ok |-> TRUE, orders |-> x.orders, reservations |-> x.reservations]
  /\ \A g \in DOMAIN o \ {h} : x.orders[g] = o[g]
  /\ \A key : Spare(x.orders, x.reservations, key) >=
                Spare(o, r, key) - (IF key = BuildOrderReservationKey(o[h]) /\ key[2] = "USDC"
                                    THEN 1 ELSE 0)

LEMMA ReleasePendingSpares ==
  ASSUME NEW o, OrdersInv(o), NEW r \in ReservationTables, NEW h \in DOMAIN o, NEW amount \in Nat,
         NEW seen, CopyOf(seen[h], o[h]),
         NEW x, x = ReleasePending([ok |-> TRUE, orders |-> o, reservations |-> r], seen, h, amount),
         x.ok
  PROVE  ReleaseLeaves(x, o, r, h)
<1> DEFINE key == BuildOrderReservationKey(o[h])
           release == FailedPendingRelease(seen[h], amount)
           live == seen[h].status = "LIVE"
           q == ReleaseOrderPending(o, h, amount)
           s == IF live THEN r ELSE DecreaseReservation(r, key, release)
           extra == IF o[h].side = "SELL" THEN 0 ELSE 1
<1>1. /\ live \/ CanDecreaseReservation(r, key, release)
      /\ CanReleasePending(o, h, amount)
      /\ x = [ok |-> TRUE, orders |-> q, reservations |-> s]
  <2>1. BuildOrderReservationKey(seen[h]) = key
    BY CopyValues
  <2>2. QED
    BY <2>1 DEF ReleasePending
<1>2. /\ OrdersInv(q) /\ DOMAIN q = DOMAIN o
      /\ \A g \in DOMAIN o \ {h} : q[g] = o[g]
  <2>1. \A g \in DOMAIN o \ {h} : q[g] = o[g]
    BY DEF ReleaseOrderPending, OrdersInv
  <2>2. QED
    BY <2>1, <1>1, ReleaseKeepsRow
<1>3. q[h].acceptedSequence = o[h].acceptedSequence
  <2>1. o[h] \in OrderRow
    BY DEF OrdersInv
  <2>2. q[h] = [o[h] EXCEPT !.pending = @ - amount]
    BY DEF ReleaseOrderPending, OrdersInv
  <2>3. QED
    BY <2>1, <2>2 DEF OrderRow
<1>4. /\ release \in Nat /\ BuildOrderReservationKey(q[h]) = key
      /\ CopyOf(o[h], q[h]) /\ Needed(q[h]) <= Needed(o[h])
      /\ ~ live => release <= Needed(o[h]) - Needed(q[h]) + extra
  BY <1>1, ReleasedNeeds
<1>5. Needed(o[h]) \in Nat /\ Needed(q[h]) \in Nat
  <2>1. o[h] \in OrderRow /\ RowInv(o[h]) /\ q[h] \in OrderRow /\ RowInv(q[h])
    BY <1>2 DEF OrdersInv
  <2>2. QED
    BY <2>1, NeededNat
<1>6. extra = IF key[2] = "USDC" THEN extra ELSE 0
  <2>1. o[h].side = "BUY" => key[2] = "USDC"
    BY DEF BuildOrderReservationKey, AssetOf
  <2>2. o[h].side \in OrderSide
    BY DEF OrdersInv, OrderRow
  <2>3. QED
    BY <2>1, <2>2 DEF OrderSide
<1>7. extra \in Nat /\ extra <= 1
  OBVIOUS
<1>8. \A k : Spare(o, r, k) \in Int
  BY NeededInNat, ReservedNat DEF Spare
<1>9. \A k : Spare(q, s, k) >= Spare(o, r, k) - (IF k = key THEN extra ELSE 0)
  <2>1. CASE live
    <3>1. s = r
      BY <2>1
    <3>2. \A k : GetReservation(r, k) = GetReservation(r, k) - (IF k = key THEN 0 ELSE 0)
      BY ReservedNat
    <3> HIDE DEF key, release, q, s, extra, live
    <3>3. 0 <= Needed(o[h]) - Needed(q[h]) + extra
      BY <2>1, <1>4, <1>5, <1>7
    <3>4. QED
      BY <3>1, <3>2, <3>3, <1>2, <1>4, <1>7, SpareRow DEF key
  <2>2. CASE ~ live
    <3>1. /\ s \in ReservationTables
          /\ \A k : GetReservation(s, k) = GetReservation(r, k) - (IF k = key THEN release ELSE 0)
      BY <2>2, <1>1, <1>4, DecreaseTakes, DecreaseKeepsTable
    <3> HIDE DEF key, release, q, s, extra, live
    <3>2. release <= Needed(o[h]) - Needed(q[h]) + extra
      BY <2>2, <1>4
    <3>3. QED
      BY <3>1, <3>2, <1>2, <1>4, <1>7, SpareRow DEF key
  <2>3. QED
    BY <2>1, <2>2
<1>10. s \in ReservationTables
  BY <1>1, <1>4, DecreaseKeepsTable
<1>11. Kept(q, o)
  BY <1>2, <1>3, <1>4 DEF Kept
<1>18. Aged(q, o)
  BY <1>2, <1>4, RowIsCopy DEF Aged
<1> HIDE DEF key, release, q, s, extra, live
<1>12. ASSUME NEW k
       PROVE  Spare(q, s, k) >= Spare(o, r, k) - (IF k = key /\ k[2] = "USDC" THEN 1 ELSE 0)
  <2>1. Spare(q, s, k) >= Spare(o, r, k) - (IF k = key THEN extra ELSE 0)
    BY <1>9
  <2>2. Spare(o, r, k) \in Int /\ Spare(q, s, k) \in Int
    BY <1>8, <1>2, <1>10, NeededInNat, ReservedNat DEF Spare
  <2>3. QED
    BY <2>1, <2>2, <1>6, <1>7
<1>13. x.orders = q /\ x.reservations = s
  BY <1>1
<1>14. x = [ok |-> TRUE, orders |-> x.orders, reservations |-> x.reservations]
  BY <1>1, <1>13
<1>15. \A k : Spare(q, s, k) >= Spare(o, r, k) - (IF k = key /\ k[2] = "USDC" THEN 1 ELSE 0)
  BY <1>12
<1>16. NoneMore(s, r)
  <2>1. \A k : GetReservation(r, k) \in Nat
    BY ReservedNat
  <2>2. CASE live
    BY <2>1, <2>2 DEF NoneMore, s
  <2>3. CASE ~ live
    <3>1. \A k : GetReservation(s, k) = GetReservation(r, k) - (IF k = key THEN release ELSE 0)
      BY <2>3, <1>1, <1>4, DecreaseTakes DEF s
    <3>2. QED
      BY <2>1, <3>1, <1>4 DEF NoneMore
  <2>4. QED
    BY <2>2, <2>3
<1>17. QED
  BY <1>2, <1>4, <1>10, <1>11, <1>13, <1>14, <1>15, <1>16, <1>18 DEF ReleaseLeaves, key

-----------------------------------------------------------------------------
(* The end of a trade, one order after another.                              *)

(* The orders the first k fills have reached. *)
Reached(trade, k) == {trade.taker} \cup {trade.fills[i].maker : i \in 1 .. k}

LEMMA TradeParts ==
  ASSUME NEW D, NEW trade, trade.fills \in Seq(FillRow(D)), MadeByMatch(trade), EachMakerOnce(trade)
  PROVE  /\ AmountIn(trade, trade.taker) = trade.amount
         /\ \A i \in DOMAIN trade.fills : AmountIn(trade, trade.fills[i].maker) = trade.fills[i].amount
         /\ \A h : h \notin Reached(trade, Len(trade.fills)) => AmountIn(trade, h) = 0
<1> DEFINE fills == trade.fills
           f(S) == [i \in S |-> fills[i].amount]
<1>1. /\ Len(fills) \in Nat /\ DOMAIN fills = 1 .. Len(fills)
      /\ \A i \in DOMAIN fills : fills[i] \in FillRow(D) /\ fills[i].amount \in Nat
  <2>1. \A i \in DOMAIN fills : fills[i] \in FillRow(D)
    OBVIOUS
  <2>2. QED
    BY <2>1 DEF FillRow
<1>2. AmountIn(trade, trade.taker) = trade.amount
  <2>1. FillsOfOrder(trade, trade.taker) = DOMAIN trade.fills
    BY DEF FillsOfOrder
  <2>2. QED
    BY <2>1 DEF AmountIn, MadeByMatch
<1>3. ASSUME NEW i \in DOMAIN fills PROVE AmountIn(trade, fills[i].maker) = fills[i].amount
  <2>1. FillsOfOrder(trade, fills[i].maker) = {i}
    BY DEF FillsOfOrder, MadeByMatch, EachMakerOnce
  <2>2. AmountIn(trade, fills[i].maker) = Total(f({i}), {i})
    BY <2>1 DEF AmountIn, SumOver
  <2>3. Total(f({i}), {} \cup {i}) = Total(f({i}), {}) + f({i})[i]
    <3>1. IsFiniteSet({}) /\ i \notin {} /\ \A x \in {} \cup {i} : f({i})[x] \in Nat
      BY <1>1, FS_EmptySet
    <3> DEFINE e == f({i})
    <3>2. \A x \in {} \cup {i} : e[x] \in Nat
      BY <3>1
    <3> HIDE DEF e
    <3>3. Total(e, {} \cup {i}) = Total(e, {}) + e[i]
      BY <3>1, <3>2, TotalAdd
    <3>4. QED
      BY <3>3 DEF e
  <2>4. Total(f({i}), {}) = 0 /\ f({i})[i] = fills[i].amount /\ {} \cup {i} = {i}
    BY TotalZero
  <2> HIDE DEF f
  <2>5. QED
    BY <2>2, <2>3, <2>4, <1>1
<1>4. ASSUME NEW h, h \notin Reached(trade, Len(fills)) PROVE AmountIn(trade, h) = 0
  <2>1. FillsOfOrder(trade, h) = {}
    BY <1>1, <1>4 DEF FillsOfOrder, Reached
  <2>2. QED
    BY <2>1, TotalZero DEF AmountIn, SumOver
<1>5. QED
  BY <1>2, <1>3, <1>4

LEMMA ReachedGrows ==
  ASSUME NEW D, IsFiniteSet(D), NEW trade, trade.fills \in Seq(FillRow(D)), trade.taker \in D, MadeByMatch(trade),
         EachMakerOnce(trade), NEW k \in 0 .. Len(trade.fills) - 1
  PROVE  /\ Reached(trade, k + 1) = Reached(trade, k) \cup {trade.fills[k + 1].maker}
         /\ trade.fills[k + 1].maker \notin Reached(trade, k)
         /\ Reached(trade, k) \subseteq D /\ IsFiniteSet(Reached(trade, k))
<1> DEFINE fills == trade.fills
<1>1. /\ Len(fills) \in Nat /\ DOMAIN fills = 1 .. Len(fills) /\ k \in Nat
      /\ \A i \in DOMAIN fills : fills[i] \in FillRow(D)
  OBVIOUS
<1>2. /\ 1 .. k + 1 = (1 .. k) \cup {k + 1} /\ k + 1 \in DOMAIN fills
      /\ \A i \in 1 .. k : i \in DOMAIN fills /\ i # k + 1
  BY <1>1
<1>3. Reached(trade, k + 1) = Reached(trade, k) \cup {fills[k + 1].maker}
  BY <1>2 DEF Reached
<1>4. fills[k + 1].maker \notin Reached(trade, k)
  BY <1>2 DEF Reached, MadeByMatch, EachMakerOnce
<1>5. Reached(trade, k) \subseteq D
  BY <1>1, <1>2 DEF Reached, FillRow
<1>6. IsFiniteSet(Reached(trade, k))
  BY <1>5, FS_Subset
<1>7. QED
  BY <1>3, <1>4, <1>5, <1>6

(* What is left pending once a trade has ended.                             *)
PendingLess(q, o, trade, S) ==
  \A g \in DOMAIN o : q[g].pending = o[g].pending - (IF g \in S THEN AmountIn(trade, g) ELSE 0)

TradeOfOrders(trade, o) ==
  /\ trade.taker \in DOMAIN o /\ trade.fills \in Seq(FillRow(DOMAIN o)) /\ trade.amount \in Nat
  /\ MadeByMatch(trade) /\ EachMakerOnce(trade)

LEMMA NoneMoreTrans ==
  ASSUME NEW r \in ReservationTables, NEW s \in ReservationTables, NEW u \in ReservationTables,
         NoneMore(s, r), NoneMore(u, s)
  PROVE  NoneMore(u, r)
<1> SUFFICES ASSUME NEW key PROVE GetReservation(u, key) <= GetReservation(r, key)
  BY DEF NoneMore
<1> DEFINE a == GetReservation(u, key)
           b == GetReservation(s, key)
           c == GetReservation(r, key)
<1>1. a \in Nat /\ b \in Nat /\ c \in Nat
  BY ReservedNat
<1>2. a <= b /\ b <= c
  BY DEF NoneMore
<1> HIDE DEF a, b, c
<1>3. a <= c
  BY <1>1, <1>2
<1>4. QED
  BY <1>3 DEF a, c

(* Given up, a trade costs the reservation of each order it had a part of at *)
(* most the unit by which the release of that part was rounded.              *)
Touching(S, o, key) == {h \in S : BuildOrderReservationKey(o[h]) = key}
SpareBut(q, r, o, s, S) ==
  \A key : Spare(q, r, key) >=
             Spare(o, s, key) - (IF key[2] = "USDC" THEN Cardinality(Touching(S, o, key)) ELSE 0)

ReleasedUpTo(x, S) ==
  /\ Kept(x.orders, orders) /\ Aged(x.orders, orders)
  /\ \A g \in DOMAIN orders \ S : x.orders[g] = orders[g]
  /\ SpareBut(x.orders, x.reservations, orders, reservations, S)
  /\ NoneMore(x.reservations, reservations)

LEMMA ReleasedOne ==
  ASSUME OrdersInv(orders), reservations \in ReservationTables,
         NEW S, IsFiniteSet(S), NEW h \in DOMAIN orders, h \notin S,
         NEW y, y.reservations \in ReservationTables, ReleasedUpTo(y, S),
         y = [ok |-> TRUE, orders |-> y.orders, reservations |-> y.reservations],
         NEW seen, CopyOf(seen[h], orders[h]),
         NEW amount \in Nat, NEW x, x = ReleasePending(y, seen, h, amount), x.ok
  PROVE  ReleasedUpTo(x, S \cup {h}) /\ x.reservations \in ReservationTables
<1> DEFINE o == y.orders
           r == y.reservations
<1>1. /\ Kept(o, orders) /\ OrdersInv(o) /\ DOMAIN o = DOMAIN orders
      /\ \A g \in DOMAIN orders \ S : o[g] = orders[g]
      /\ SpareBut(o, r, orders, reservations, S) /\ NoneMore(r, reservations)
      /\ r \in ReservationTables /\ h \in DOMAIN o /\ orders[h] = o[h]
      /\ x = ReleasePending([ok |-> TRUE, orders |-> o, reservations |-> r], seen, h, amount)
      /\ CopyOf(seen[h], o[h]) /\ Aged(o, orders)
  BY DEF ReleasedUpTo, Kept
<1> HIDE DEF o, r
<1>2. ReleaseLeaves(x, o, r, h)
  BY <1>1, ReleasePendingSpares
<1>3. /\ Kept(x.orders, o) /\ x.reservations \in ReservationTables /\ NoneMore(x.reservations, r)
      /\ \A g \in DOMAIN o \ {h} : x.orders[g] = o[g]
      /\ Aged(x.orders, o)
  BY <1>2 DEF ReleaseLeaves
<1>4. Kept(x.orders, orders) /\ Aged(x.orders, orders)
  BY <1>1, <1>3, KeptTrans, AgedTrans
<1>5. \A g \in DOMAIN orders \ (S \cup {h}) : x.orders[g] = orders[g]
  BY <1>1, <1>3
<1>6. ASSUME NEW key
      PROVE  Spare(x.orders, x.reservations, key) >=
               Spare(orders, reservations, key)
                 - (IF key[2] = "USDC" THEN Cardinality(Touching(S \cup {h}, orders, key)) ELSE 0)
  <2> DEFINE u == Spare(x.orders, x.reservations, key)
             v == Spare(o, r, key)
             w == Spare(orders, reservations, key)
             m == Cardinality(Touching(S, orders, key))
             m2 == Cardinality(Touching(S \cup {h}, orders, key))
             one == IF key = BuildOrderReservationKey(o[h]) /\ key[2] = "USDC" THEN 1 ELSE 0
  <2>1. u \in Int /\ v \in Int /\ w \in Int
    BY <1>1, <1>3, <1>4, NeededInNat, ReservedNat DEF Spare, Kept
  <2>2. u >= v - one
    BY <1>2 DEF ReleaseLeaves
  <2>3. v >= w - (IF key[2] = "USDC" THEN m ELSE 0)
    BY <1>1 DEF SpareBut
  <2>4. m \in Nat /\ m2 = m + (IF key = BuildOrderReservationKey(o[h]) THEN 1 ELSE 0)
    <3>1. IsFiniteSet(Touching(S, orders, key)) /\ h \notin Touching(S, orders, key)
      BY FS_Subset DEF Touching
    <3>2. CASE key = BuildOrderReservationKey(o[h])
      <4>1. Touching(S \cup {h}, orders, key) = Touching(S, orders, key) \cup {h}
        BY <3>2, <1>1 DEF Touching
      <4>2. QED
        BY <3>1, <3>2, <4>1, FS_AddElement, FS_CardinalityType
    <3>3. CASE key # BuildOrderReservationKey(o[h])
      <4>1. Touching(S \cup {h}, orders, key) = Touching(S, orders, key)
        BY <3>3, <1>1 DEF Touching
      <4>2. QED
        BY <3>1, <3>3, <4>1, FS_CardinalityType
    <3>4. QED
      BY <3>2, <3>3
  <2> HIDE DEF u, v, w, m, m2
  <2>5. CASE key[2] = "USDC"
    <3>1. u >= w - m2
      BY <2>1, <2>2, <2>3, <2>4, <2>5
    <3>2. QED
      BY <3>1, <2>5 DEF u, w, m2
  <2>6. CASE key[2] # "USDC"
    <3>1. u >= w - 0
      BY <2>1, <2>2, <2>3, <2>6
    <3>2. QED
      BY <3>1, <2>6 DEF u, w
  <2>7. QED
    BY <2>5, <2>6
<1>7. SpareBut(x.orders, x.reservations, orders, reservations, S \cup {h})
  BY <1>6 DEF SpareBut
<1>8. NoneMore(x.reservations, reservations)
  BY <1>1, <1>3, NoneMoreTrans
<1>9. QED
  BY <1>3, <1>4, <1>5, <1>7, <1>8 DEF ReleasedUpTo

LEMMA FailedTrade ==
  ASSUME OrdersInv(orders), reservations \in ReservationTables, NEW t \in TradeIds,
         TradeOfOrders(trades[t], orders),
         NEW seen, \A h \in OrdersOf(t) : CopyOf(seen[h], orders[h]),
         NEW x, x = Cleanup(t, seen), x.ok
  PROVE  /\ Kept(x.orders, orders) /\ Aged(x.orders, orders) /\ x.reservations \in ReservationTables
         /\ PendingLess(x.orders, orders, trades[t], DOMAIN orders)
         /\ SpareBut(x.orders, x.reservations, orders, reservations, OrdersOf(t))
         /\ NoneMore(x.reservations, reservations)
<1> DEFINE trade == trades[t]
           fills == trade.fills
           n == Len(fills)
<1>1. /\ trade.taker \in DOMAIN orders /\ fills \in Seq(FillRow(DOMAIN orders)) /\ trade.amount \in Nat
      /\ n \in Nat /\ DOMAIN fills = 1 .. n
      /\ MadeByMatch(trade) /\ EachMakerOnce(trade)
      /\ \A i \in 1 .. n : fills[i] \in FillRow(DOMAIN orders)
  BY DEF TradeOfOrders
<1>2. \A h \in OrdersOf(t) : h \in DOMAIN orders /\ seen[h] \in OrderRow
  BY <1>1 DEF OrdersOf, FillRow, CopyOf
<1>13. /\ trade.taker \in OrdersOf(t)
       /\ \A i \in 1 .. n : fills[i].maker \in OrdersOf(t)
  BY <1>1 DEF OrdersOf
<1>3. PICK c : CleanupRun(c, t, seen)
  BY <1>1, <1>2, CleanupSteps
<1>4. /\ c \in [0 .. n -> TablesAfter(orders)]
      /\ c[0] = ReleasePending(Tables, seen, trade.taker, trade.amount)
      /\ \A k \in 0 .. n - 1 : c[k + 1] = ReleasePending(c[k], seen, fills[k + 1].maker, fills[k + 1].amount)
      /\ c[n] = x
  BY <1>3 DEF CleanupRun
<1>5. \A k \in 0 .. n : /\ c[k] \in TablesAfter(orders) /\ c[k].reservations \in ReservationTables
                        /\ c[k].ok => c[k] = [ok |-> TRUE, orders |-> c[k].orders,
                                              reservations |-> c[k].reservations]
  BY <1>4 DEF TablesAfter
<1>6. IsFiniteSet(DOMAIN orders)
  BY TicketsAssumption, FS_Subset DEF OrdersInv
<1>7. c[0].ok => ReleasedUpTo(c[0], Reached(trade, 0))
  <2>1. SUFFICES ASSUME c[0].ok PROVE ReleasedUpTo(c[0], Reached(trade, 0))
    OBVIOUS
  <2> DEFINE y == Tables
  <2>2. y.orders = orders /\ y.reservations = reservations /\ y.ok
    BY DEF Tables
  <2>3. y = [ok |-> TRUE, orders |-> y.orders, reservations |-> y.reservations]
    BY DEF Tables
  <2>4. ReleasedUpTo(y, {})
    <3>1. \A key : Spare(orders, reservations, key) \in Int
      BY NeededInNat, ReservedNat DEF Spare
    <3>2. \A key : Cardinality(Touching({}, orders, key)) = 0
      <4>1. \A key : Touching({}, orders, key) = {}
        BY DEF Touching
      <4>2. QED
        BY <4>1, FS_EmptySet
    <3>3. SpareBut(orders, reservations, orders, reservations, {})
      BY <3>1, <3>2 DEF SpareBut
    <3>4. Kept(orders, orders) /\ Aged(orders, orders)
      BY RowIsCopy DEF Kept, Aged
    <3>5. NoneMore(reservations, reservations)
      <4>1. \A key : GetReservation(reservations, key) \in Nat
        BY ReservedNat
      <4>2. QED
        BY <4>1 DEF NoneMore
    <3>6. QED
      BY <2>2, <3>3, <3>4, <3>5 DEF ReleasedUpTo
  <2>5. {} \cup {trade.taker} = Reached(trade, 0)
    BY DEF Reached
  <2> DEFINE z == c[0]
  <2>6. z = ReleasePending(y, seen, trade.taker, trade.amount) /\ z.ok
    BY <1>4, <2>1
  <2>10. CopyOf(seen[trade.taker], orders[trade.taker])
    BY <1>13
  <2>7. y.reservations \in ReservationTables /\ trade.taker \notin {} /\ IsFiniteSet({})
    BY <2>2, FS_EmptySet
  <2> HIDE DEF y, z
  <2>8. ReleasedUpTo(z, {} \cup {trade.taker})
    BY <2>3, <2>4, <2>6, <2>7, <2>10, <1>1, ReleasedOne
  <2>9. QED
    BY <2>5, <2>8 DEF z
<1>8. ASSUME NEW k \in 0 .. n - 1, c[k].ok => ReleasedUpTo(c[k], Reached(trade, k)), c[k + 1].ok
      PROVE  ReleasedUpTo(c[k + 1], Reached(trade, k + 1))
  <2> DEFINE h == fills[k + 1].maker
             a == fills[k + 1].amount
             y == c[k]
             z == c[k + 1]
  <2>1. k \in 0 .. n /\ k + 1 \in 1 .. n /\ z = ReleasePending(y, seen, h, a) /\ z.ok
    BY <1>1, <1>4, <1>8
  <2>2. y.ok
    BY <2>1 DEF ReleasePending
  <2>3. ReleasedUpTo(y, Reached(trade, k))
    BY <1>8, <2>2
  <2>4. /\ y = [ok |-> TRUE, orders |-> y.orders, reservations |-> y.reservations]
        /\ y.reservations \in ReservationTables
    BY <1>5, <2>1, <2>2
  <2>5. /\ Reached(trade, k + 1) = Reached(trade, k) \cup {h} /\ h \notin Reached(trade, k)
        /\ IsFiniteSet(Reached(trade, k))
    BY <1>1, <1>6, ReachedGrows
  <2>6. h \in DOMAIN orders /\ a \in Nat /\ CopyOf(seen[h], orders[h])
    BY <1>1, <1>13, <2>1 DEF FillRow
  <2> DEFINE S == Reached(trade, k)
  <2> HIDE DEF y, z, h, a, S
  <2>7. h \notin S /\ IsFiniteSet(S) /\ ReleasedUpTo(y, S)
    BY <2>3, <2>5 DEF S
  <2>8. ReleasedUpTo(z, S \cup {h})
    BY <2>1, <2>4, <2>6, <2>7, ReleasedOne
  <2>9. QED
    BY <2>5, <2>8 DEF S, z
<1>9. c[n].ok => ReleasedUpTo(c[n], Reached(trade, n))
  <2> DEFINE G == {k \in 0 .. n : c[k].ok => ReleasedUpTo(c[k], Reached(trade, k))}
  <2>1. 0 \in G
    BY <1>1, <1>7
  <2>2. ASSUME NEW k \in 0 .. n - 1, k \in G PROVE k + 1 \in G
    <3>1. k + 1 \in 0 .. n
      BY <1>1
    <3>2. QED
      BY <2>2, <3>1, <1>8
  <2> HIDE DEF G
  <2>3. n \in G
    BY <2>1, <2>2, <1>1, UpTo
  <2>4. QED
    BY <2>3 DEF G
<1>10. ReleasedUpTo(x, OrdersOf(t)) /\ x.reservations \in ReservationTables
  <2>1. n \in 0 .. n
    BY <1>1
  <2>2. x.reservations \in ReservationTables
    BY <2>1, <1>4, <1>5
  <2>3. Reached(trade, n) = OrdersOf(t)
    BY <1>1 DEF Reached, OrdersOf
  <2>4. QED
    BY <2>2, <2>3, <1>4, <1>9
<1>11. PendingLess(x.orders, orders, trades[t], DOMAIN orders)
  <2>1. \A h \in DOMAIN orders : Cleanup(t, seen).orders[h].pending = orders[h].pending - AmountIn(trades[t], h)
    BY <1>1, <1>2, CleanupReleases
  <2>2. QED
    BY <2>1 DEF PendingLess
<1>12. QED
  BY <1>10, <1>11 DEF ReleasedUpTo

-----------------------------------------------------------------------------
(* The end of what is available of an order: cancelled by its maker, or swept *)
(* away when it has expired.                                                 *)

Ending(o, h, status) == [o EXCEPT ![h].status = status]
PendingSame(q, o) == \A g \in DOMAIN o : q[g].pending = o[g].pending

EndLeaves(q, s, o, r) ==
  /\ Kept(q, o) /\ PendingSame(q, o) /\ s \in ReservationTables
  /\ NoSpareLost(q, s, o, r) /\ NoneMore(s, r)

LEMMA EndedRow ==
  ASSUME NEW o, OrdersInv(o), NEW h \in DOMAIN o, o[h].status = "LIVE",
         NEW status \in {"CANCELLED", "EXPIRED"}, NEW q, q = Ending(o, h, status)
  PROVE  /\ Kept(q, o) /\ PendingSame(q, o) /\ Aged(q, o)
         /\ \A g \in DOMAIN o \ {h} : q[g] = o[g]
         /\ AvailableRemainderRelease(o[h]) \in Nat
         /\ Needed(q[h]) = Needed(o[h]) - AvailableRemainderRelease(o[h])
<1> DEFINE row == [o[h] EXCEPT !.status = status]
<1>1. o[h] \in OrderRow /\ RowInv(o[h]) /\ DOMAIN q = DOMAIN o
  BY DEF OrdersInv, Ending
<1>2. q[h] = row /\ \A g \in DOMAIN o \ {h} : q[g] = o[g]
  BY DEF OrdersInv, Ending
<1>3. /\ row \in OrderRow /\ RowInv(row)
      /\ BuildOrderReservationKey(row) = BuildOrderReservationKey(o[h])
      /\ AvailableRemainderRelease(o[h]) \in Nat
      /\ Needed(row) = Needed(o[h]) - AvailableRemainderRelease(o[h])
  BY <1>1, EndedNeeds
<1>4. row.acceptedSequence = o[h].acceptedSequence /\ row.pending = o[h].pending
  BY <1>1 DEF OrderRow
<1>11. CopyOf(o[h], row)
  BY <1>1 DEF OrderRow, CopyOf
<1>12. Aged(q, o)
  BY <1>2, <1>11, RowIsCopy DEF Aged
<1> HIDE DEF row
<1>5. q = [g \in DOMAIN o |-> q[g]]
  BY <1>1 DEF Ending
<1>6. \A g \in DOMAIN o : q[g] \in OrderRow /\ RowInv(q[g])
  BY <1>2, <1>3 DEF OrdersInv
<1>7. q \in [DOMAIN q -> OrderRow]
  BY <1>1, <1>5, <1>6
<1>8. OrdersInv(q)
  BY <1>1, <1>6, <1>7 DEF OrdersInv
<1>9. Kept(q, o) /\ PendingSame(q, o)
  BY <1>1, <1>2, <1>3, <1>4, <1>8 DEF Kept, PendingSame
<1>10. QED
  BY <1>2, <1>3, <1>9, <1>12

LEMMA EndOne ==
  ASSUME NEW o, OrdersInv(o), NEW r \in ReservationTables, NEW h \in DOMAIN o, o[h].status = "LIVE",
         NEW status \in {"CANCELLED", "EXPIRED"}, NEW q, q = Ending(o, h, status),
         NEW key, key = BuildOrderReservationKey(o[h]),
         NEW release, release = AvailableRemainderRelease(o[h]), CanReleaseRemainder(r, key, release),
         NEW s, s = ReleaseRemainder(r, key, release)
  PROVE  EndLeaves(q, s, o, r)
<1>1. /\ Kept(q, o) /\ PendingSame(q, o) /\ release \in Nat
      /\ \A g \in DOMAIN o \ {h} : q[g] = o[g]
      /\ Needed(q[h]) = Needed(o[h]) - release
  BY EndedRow
<1>2. /\ s \in ReservationTables
      /\ \A k : GetReservation(s, k) = GetReservation(r, k) - (IF k = key THEN release ELSE 0)
  BY <1>1, ReleaseTakes
<1>3. NoneMore(s, r)
  <2>1. \A k : GetReservation(r, k) \in Nat
    BY ReservedNat
  <2>2. QED
    BY <2>1, <1>1, <1>2 DEF NoneMore
<1>4. /\ OrdersInv(q) /\ DOMAIN q = DOMAIN o /\ BuildOrderReservationKey(q[h]) = BuildOrderReservationKey(o[h])
  BY <1>1 DEF Kept
<1>5. release <= Needed(o[h]) - Needed(q[h]) + 0
  <2>1. o[h] \in OrderRow /\ RowInv(o[h])
    BY DEF OrdersInv
  <2>2. Needed(o[h]) \in Nat
    BY <2>1, NeededNat
  <2>3. QED
    BY <2>2, <1>1
<1>6. \A k : Spare(q, s, k) >= Spare(o, r, k) - (IF k = BuildOrderReservationKey(o[h]) THEN 0 ELSE 0)
  BY <1>1, <1>2, <1>4, <1>5, SpareRow
<1>7. NoSpareLost(q, s, o, r)
  <2>1. \A k : Spare(o, r, k) \in Int
    BY NeededInNat, ReservedNat DEF Spare
  <2>2. QED
    BY <1>6, <2>1 DEF NoSpareLost
<1>8. QED
  BY <1>1, <1>2, <1>3, <1>7 DEF EndLeaves

LEMMA EndTrans ==
  ASSUME NEW o, OrdersInv(o), NEW r \in ReservationTables, NEW q, NEW s, NEW p, NEW u,
         EndLeaves(q, s, o, r), EndLeaves(p, u, q, s)
  PROVE  EndLeaves(p, u, o, r)
<1>1. Kept(p, o) /\ s \in ReservationTables /\ u \in ReservationTables
  BY KeptTrans DEF EndLeaves
<1>2. PendingSame(p, o)
  BY DEF EndLeaves, PendingSame, Kept
<1>3. NoneMore(u, r)
  BY <1>1, NoneMoreTrans DEF EndLeaves
<1>4. ASSUME NEW key PROVE Spare(p, u, key) >= Spare(o, r, key)
  <2> DEFINE a == Spare(p, u, key)
             b == Spare(q, s, key)
             c == Spare(o, r, key)
  <2>1. a \in Int /\ b \in Int /\ c \in Int
    BY <1>1, NeededInNat, ReservedNat DEF Spare, Kept, EndLeaves
  <2>2. a >= b /\ b >= c
    BY DEF EndLeaves, NoSpareLost
  <2> HIDE DEF a, b, c
  <2>3. a >= c
    BY <2>1, <2>2
  <2>4. QED
    BY <2>3 DEF a, c
<1>5. QED
  BY <1>1, <1>2, <1>3, <1>4 DEF EndLeaves, NoSpareLost

LEMMA Cancelled ==
  ASSUME OrdersInv(orders), reservations \in ReservationTables, NEW h, CancelOrderTx(h)
  PROVE  /\ orders' = Ending(orders, h, "CANCELLED") /\ h \in DOMAIN orders /\ orders[h].status = "LIVE"
         /\ reservations' = ReleaseRemainder(reservations, BuildOrderReservationKey(orders[h]),
                                             AvailableRemainderRelease(orders[h]))
         /\ CanReleaseRemainder(reservations, BuildOrderReservationKey(orders[h]),
                                AvailableRemainderRelease(orders[h]))
BY DEF CancelOrderTx, CanCancelRemainder, CancelOrderAvailableRemainder, Ending

-----------------------------------------------------------------------------
(* What the trades of a table add up to.                                     *)

PartsOf(trade) == {trade.taker} \cup {trade.fills[i].maker : i \in DOMAIN trade.fills}
OpenIn(T) == {t \in DOMAIN T : T[t].status = "MATCHED"}
PendingIn(T, h) == Total([t \in OpenIn(T) |-> AmountIn(T[t], h)], OpenIn(T))
FailedOf(T, h) == {t \in DOMAIN T : T[t].status = "FAILED" /\ h \in PartsOf(T[t])}
FailedIn(o, T, key) == Total([h \in WithKey(o, key) |-> Cardinality(FailedOf(T, h))], WithKey(o, key))

LEMMA TotalPlusCount ==
  ASSUME NEW S, IsFiniteSet(S), NEW f, NEW g, NEW U,
         \A x \in S : f[x] \in Nat /\ g[x] \in Nat /\ g[x] >= f[x] + (IF x \in U THEN 1 ELSE 0)
  PROVE  Total(g, S) >= Total(f, S) + Cardinality(S \cap U)
<1> DEFINE In(T) == T \cap U
           G == {T \in SUBSET S : Total(g, T) >= Total(f, T) + Cardinality(In(T))}
<1>1. {} \in G
  <2>1. Total(g, {}) = 0 /\ Total(f, {}) = 0
    BY TotalZero
  <2>2. In({}) = {} /\ Cardinality({}) = 0
    BY FS_EmptySet
  <2>3. QED
    BY <2>1, <2>2
<1>2. ASSUME NEW T \in SUBSET S, NEW x \in S, T \in G, x \notin T PROVE T \cup {x} \in G
  <2>1. IsFiniteSet(T) /\ IsFiniteSet(In(T)) /\ x \notin In(T)
    <3>1. IsFiniteSet(T)
      BY FS_Subset
    <3>2. IsFiniteSet(In(T))
      BY <3>1, FS_Intersection
    <3>3. QED
      BY <3>1, <3>2, <1>2
  <2>2. /\ \A y \in T \cup {x} : f[y] \in Nat
        /\ \A y \in T \cup {x} : g[y] \in Nat
    OBVIOUS
  <2>3. Total(f, T \cup {x}) = Total(f, T) + f[x] /\ Total(g, T \cup {x}) = Total(g, T) + g[x]
    BY <2>1, <2>2, <1>2, TotalAdd
  <2>4. Total(f, T) \in Nat /\ Total(g, T) \in Nat
    BY <2>1, <2>2, TotalNat
  <2>5. Cardinality(In(T \cup {x})) = Cardinality(In(T)) + (IF x \in U THEN 1 ELSE 0) /\ Cardinality(In(T)) \in Nat
    <3>1. CASE x \in U
      <4>1. In(T \cup {x}) = In(T) \cup {x}
        BY <3>1
      <4>2. QED
        BY <3>1, <4>1, <2>1, FS_AddElement, FS_CardinalityType
    <3>2. CASE x \notin U
      <4>1. In(T \cup {x}) = In(T)
        BY <3>2
      <4>2. Cardinality(In(T)) \in Nat
        BY <2>1, FS_CardinalityType
      <4> HIDE DEF In
      <4>3. QED
        BY <3>2, <4>1, <4>2
    <3>3. QED
      BY <3>1, <3>2
  <2>6. Total(g, T) >= Total(f, T) + Cardinality(In(T))
    BY <1>2
  <2> DEFINE a == Total(f, T)
             b == Total(g, T)
             c == Cardinality(In(T))
             d == IF x \in U THEN 1 ELSE 0
             u == Total(f, T \cup {x})
             v == Total(g, T \cup {x})
             w == Cardinality(In(T \cup {x}))
  <2>7. /\ a \in Nat /\ b \in Nat /\ c \in Nat /\ d \in Nat /\ f[x] \in Nat /\ g[x] \in Nat
        /\ u = a + f[x] /\ v = b + g[x] /\ w = c + d /\ b >= a + c /\ g[x] >= f[x] + d
    BY <2>3, <2>4, <2>5, <2>6
  <2> HIDE DEF a, b, c, d, u, v, w
  <2>8. v >= u + w
    BY <2>7
  <2>9. QED
    BY <2>8 DEF u, v, w
<1> HIDE DEF G
<1>3. S \in G
  BY <1>1, <1>2, SubsetInduction
<1>4. QED
  BY <1>3 DEF G

LEMMA PendingTotal ==
  ASSUME NEW T, IsFiniteSet(DOMAIN T), NEW h, \A t \in DOMAIN T : AmountIn(T[t], h) \in Nat
  PROVE  /\ PendingIn(T, h) \in Nat
         /\ \A t \in OpenIn(T) : AmountIn(T[t], h) <= PendingIn(T, h)
<1> DEFINE S == OpenIn(T)
           f == [t \in S |-> AmountIn(T[t], h)]
<1>1. IsFiniteSet(S) /\ \A t \in S : f[t] \in Nat /\ f[t] = AmountIn(T[t], h)
  BY FS_Subset DEF OpenIn
<1>2. PendingIn(T, h) = Total(f, S)
  BY DEF PendingIn
<1> HIDE DEF S, f
<1>3. Total(f, S) \in Nat /\ \A t \in S : f[t] <= Total(f, S)
  BY <1>1, TotalNat, TotalBoundsEach
<1>4. QED
  BY <1>1, <1>2, <1>3 DEF S

(* A trade that ends is no longer open: what it was to fill is not pending. *)
LEMMA PendingEnded ==
  ASSUME NEW T, IsFiniteSet(DOMAIN T), NEW h, \A e \in DOMAIN T : AmountIn(T[e], h) \in Nat,
         NEW t \in OpenIn(T), NEW N, DOMAIN N = DOMAIN T, N[t].status # "MATCHED",
         \A e \in DOMAIN T \ {t} : N[e] = T[e]
  PROVE  PendingIn(N, h) = PendingIn(T, h) - AmountIn(T[t], h)
<1> DEFINE S == OpenIn(T)
           f == [e \in S |-> AmountIn(T[e], h)]
           g == [e \in OpenIn(N) |-> AmountIn(N[e], h)]
<1>1. IsFiniteSet(S) /\ \A e \in S : f[e] \in Nat /\ f[e] = AmountIn(T[e], h)
  BY FS_Subset DEF OpenIn
<1>2. OpenIn(N) = S \ {t}
  BY DEF OpenIn
<1>3. \A e \in S \ {t} : g[e] = f[e]
  BY <1>2 DEF OpenIn
<1>4. PendingIn(T, h) = Total(f, S) /\ PendingIn(N, h) = Total(g, S \ {t}) /\ t \in S
  BY <1>2 DEF PendingIn
<1> HIDE DEF S, f, g
<1>5. Total(g, S \ {t}) = Total(f, S \ {t})
  <2> DEFINE R == S \ {t}
  <2>1. \A e \in R : g[e] = f[e]
    BY <1>3
  <2> HIDE DEF R
  <2>2. Total(g, R) = Total(f, R)
    BY <2>1, TotalEqual
  <2>3. QED
    BY <2>2 DEF R
<1>6. Total(f, S) = Total(f, S \ {t}) + f[t]
  BY <1>1, <1>4, TotalSplit
<1>7. Total(f, S \ {t}) \in Nat
  <2> DEFINE R == S \ {t}
  <2>1. IsFiniteSet(R) /\ \A e \in R : f[e] \in Nat
    BY <1>1, FS_Subset
  <2> HIDE DEF R
  <2>2. Total(f, R) \in Nat
    BY <2>1, TotalNat
  <2>3. QED
    BY <2>2 DEF R
<1>8. QED
  <2> DEFINE a == Total(f, S)
             b == Total(f, S \ {t})
             c == f[t]
  <2>1. a = b + c /\ b \in Nat /\ c \in Nat /\ c = AmountIn(T[t], h) /\ PendingIn(T, h) = a /\ PendingIn(N, h) = b
    BY <1>1, <1>4, <1>5, <1>6, <1>7
  <2> HIDE DEF a, b, c
  <2>2. QED
    BY <2>1

LEMMA PendingAppended ==
  ASSUME NEW D, NEW T \in Seq(D), NEW h, \A e \in DOMAIN T : AmountIn(T[e], h) \in Nat,
         NEW trade, trade.status = "MATCHED", AmountIn(trade, h) \in Nat
  PROVE  PendingIn(Append(T, trade), h) = PendingIn(T, h) + AmountIn(trade, h)
<1> DEFINE S == OpenIn(T)
           n == Len(T)
           N == Append(T, trade)
           f == [e \in S |-> AmountIn(T[e], h)]
           g == [e \in OpenIn(N) |-> AmountIn(N[e], h)]
           a == n + 1
<1>1. /\ n \in Nat /\ DOMAIN T = 1 .. n /\ DOMAIN N = 1 .. n + 1 /\ N[a] = trade
      /\ \A e \in 1 .. n : N[e] = T[e]
  OBVIOUS
<1>2. IsFiniteSet(S) /\ a \notin S /\ \A e \in S : f[e] \in Nat /\ f[e] = AmountIn(T[e], h)
  <2>1. IsFiniteSet(DOMAIN T) /\ a \notin DOMAIN T
    BY <1>1, IntervalFinite
  <2>2. QED
    BY <2>1, FS_Subset DEF OpenIn
<1> HIDE DEF n, N
<1>3. OpenIn(N) = S \cup {a}
  BY <1>1 DEF OpenIn
<1>4. /\ \A e \in S : g[e] = f[e]
      /\ g[a] = AmountIn(trade, h)
  BY <1>1, <1>2, <1>3 DEF OpenIn
<1>5. PendingIn(T, h) = Total(f, S) /\ PendingIn(N, h) = Total(g, S \cup {a})
  BY <1>3 DEF PendingIn
<1> HIDE DEF S, f, g, a
<1>6. \A e \in S \cup {a} : g[e] \in Nat
  BY <1>2, <1>4
<1>7. Total(g, S \cup {a}) = Total(g, S) + g[a]
  BY <1>2, <1>6, TotalAdd
<1>8. Total(g, S) = Total(f, S)
  BY <1>4, TotalEqual
<1>9. QED
  BY <1>4, <1>5, <1>7, <1>8 DEF N

LEMMA FailedNat ==
  ASSUME NEW o, OrdersInv(o), NEW T, IsFiniteSet(DOMAIN T), NEW key
  PROVE  /\ FailedIn(o, T, key) \in Nat
         /\ \A h : IsFiniteSet(FailedOf(T, h)) /\ Cardinality(FailedOf(T, h)) \in Nat
<1> DEFINE S == WithKey(o, key)
           f == [h \in S |-> Cardinality(FailedOf(T, h))]
<1>1. \A h : IsFiniteSet(FailedOf(T, h))
  <2>1. \A h : FailedOf(T, h) \subseteq DOMAIN T
    BY DEF FailedOf
  <2>2. QED
    BY <2>1, FS_Subset
<1>2. \A h : Cardinality(FailedOf(T, h)) \in Nat
  BY <1>1, FS_CardinalityType
<1>3. IsFiniteSet(S) /\ \A h \in S : f[h] \in Nat
  BY <1>2, WithKeyFinite
<1>4. FailedIn(o, T, key) = Total(f, S)
  BY DEF FailedIn
<1> HIDE DEF f, S
<1>5. QED
  BY <1>1, <1>2, <1>3, <1>4, TotalNat

LEMMA FailedKept ==
  ASSUME NEW o, OrdersInv(o), NEW q, OrdersInv(q), NEW key, WithKey(o, key) \subseteq WithKey(q, key),
         NEW T, IsFiniteSet(DOMAIN T), NEW N, IsFiniteSet(DOMAIN N),
         \A h : FailedOf(T, h) \subseteq FailedOf(N, h)
  PROVE  FailedIn(q, N, key) >= FailedIn(o, T, key)
<1> DEFINE S == WithKey(o, key)
           R == WithKey(q, key)
           f == [h \in S |-> Cardinality(FailedOf(T, h))]
           g == [h \in R |-> Cardinality(FailedOf(N, h))]
<1>1. \A h : /\ IsFiniteSet(FailedOf(N, h)) /\ Cardinality(FailedOf(N, h)) \in Nat
             /\ Cardinality(FailedOf(T, h)) \in Nat
  BY FailedNat
<1>2. \A h : Cardinality(FailedOf(T, h)) <= Cardinality(FailedOf(N, h))
  BY <1>1, FS_Subset
<1>3. IsFiniteSet(S) /\ IsFiniteSet(R) /\ S \in SUBSET R
  BY WithKeyFinite
<1>4. /\ \A h \in S : f[h] \in Nat /\ g[h] \in Nat /\ f[h] <= g[h]
      /\ \A h \in R : g[h] \in Nat
  BY <1>1, <1>2, <1>3
<1>5. FailedIn(o, T, key) = Total(f, S) /\ FailedIn(q, N, key) = Total(g, R)
  BY DEF FailedIn
<1> HIDE DEF f, g, S, R
<1>6. Total(f, S) <= Total(g, S)
  BY <1>3, <1>4, TotalMonotone
<1>7. Total(g, S) <= Total(g, R)
  BY <1>3, <1>4, TotalSubset
<1>8. Total(f, S) \in Nat /\ Total(g, S) \in Nat /\ Total(g, R) \in Nat
  BY <1>3, <1>4, TotalNat
<1>9. QED
  BY <1>5, <1>6, <1>7, <1>8

LEMMA FailedMore ==
  ASSUME NEW o, OrdersInv(o), NEW q, OrdersInv(q), NEW key, WithKey(q, key) = WithKey(o, key),
         NEW T, IsFiniteSet(DOMAIN T), NEW N, DOMAIN N = DOMAIN T,
         NEW t \in DOMAIN T, T[t].status # "FAILED", N[t].status = "FAILED", PartsOf(N[t]) = PartsOf(T[t]),
         \A e \in DOMAIN T \ {t} : N[e] = T[e], PartsOf(T[t]) \subseteq DOMAIN o
  PROVE  FailedIn(q, N, key) >= FailedIn(o, T, key) + Cardinality(Touching(PartsOf(T[t]), o, key))
<1> DEFINE S == WithKey(o, key)
           U == PartsOf(T[t])
           f == [h \in S |-> Cardinality(FailedOf(T, h))]
           g == [h \in S |-> Cardinality(FailedOf(N, h))]
<1>1. \A h : /\ IsFiniteSet(FailedOf(T, h)) /\ Cardinality(FailedOf(T, h)) \in Nat
             /\ Cardinality(FailedOf(N, h)) \in Nat
  BY FailedNat
<1>2. \A h : FailedOf(N, h) = IF h \in U THEN FailedOf(T, h) \cup {t} ELSE FailedOf(T, h)
  BY DEF FailedOf
<1>3. \A h : t \notin FailedOf(T, h)
  BY DEF FailedOf
<1>4. \A h : Cardinality(FailedOf(N, h)) = Cardinality(FailedOf(T, h)) + (IF h \in U THEN 1 ELSE 0)
  <2> HIDE DEF U
  <2>1. SUFFICES ASSUME NEW h
                 PROVE Cardinality(FailedOf(N, h)) = Cardinality(FailedOf(T, h)) + (IF h \in U THEN 1 ELSE 0)
    OBVIOUS
  <2>2. CASE h \in U
    BY <2>2, <1>1, <1>2, <1>3, FS_AddElement
  <2>3. CASE h \notin U
    BY <2>3, <1>1, <1>2
  <2>4. QED
    BY <2>2, <2>3
<1>5. IsFiniteSet(S)
  BY WithKeyFinite
<1>6. \A h \in S : f[h] \in Nat /\ g[h] \in Nat /\ g[h] >= f[h] + (IF h \in U THEN 1 ELSE 0)
  <2> HIDE DEF U
  <2>1. QED
    BY <1>1, <1>4
<1>7. FailedIn(o, T, key) = Total(f, S) /\ FailedIn(q, N, key) = Total(g, S)
  BY DEF FailedIn
<1>8. Touching(U, o, key) = S \cap U
  BY DEF Touching, WithKey
<1> HIDE DEF f, g, S, U
<1>9. Total(g, S) >= Total(f, S) + Cardinality(S \cap U)
  BY <1>5, <1>6, TotalPlusCount
<1>10. QED
  BY <1>7, <1>8, <1>9 DEF U

-----------------------------------------------------------------------------
(* What is reserved covers what the orders need, but for a unit for each part *)
(* of a trade that was given up.                                             *)

Covered(o, r, T) ==
  \A key \in ReservationKeys : Spare(o, r, key) + (IF key[2] = "USDC" THEN FailedIn(o, T, key) ELSE 0) >= 0

LEMMA SpareInt ==
  ASSUME NEW o, OrdersInv(o), NEW r \in ReservationTables, NEW key
  PROVE  Spare(o, r, key) \in Int
BY NeededInNat, ReservedNat DEF Spare

LEMMA KeysStay ==
  ASSUME NEW o, NEW q, Kept(q, o)
  PROVE  \A key : WithKey(q, key) = WithKey(o, key)
BY DEF Kept, WithKey

(* Statements that give up nothing of what is spare.                         *)
LEMMA CoveredKept ==
  ASSUME NEW o, OrdersInv(o), NEW r \in ReservationTables, NEW q, OrdersInv(q), NEW s \in ReservationTables,
         NEW T, IsFiniteSet(DOMAIN T), NEW N, IsFiniteSet(DOMAIN N),
         \A key : WithKey(o, key) \subseteq WithKey(q, key), NoSpareLost(q, s, o, r),
         \A h : FailedOf(T, h) \subseteq FailedOf(N, h), Covered(o, r, T)
  PROVE  Covered(q, s, N)
<1> SUFFICES ASSUME NEW key \in ReservationKeys
             PROVE  Spare(q, s, key) + (IF key[2] = "USDC" THEN FailedIn(q, N, key) ELSE 0) >= 0
  BY DEF Covered
<1> DEFINE a == Spare(o, r, key)
           b == Spare(q, s, key)
           c == IF key[2] = "USDC" THEN FailedIn(o, T, key) ELSE 0
           d == IF key[2] = "USDC" THEN FailedIn(q, N, key) ELSE 0
<1>1. a \in Int /\ b \in Int
  BY SpareInt
<1>2. c \in Nat /\ d \in Nat /\ d >= c
  <2>1. FailedIn(q, N, key) >= FailedIn(o, T, key)
    BY FailedKept
  <2>2. FailedIn(o, T, key) \in Nat /\ FailedIn(q, N, key) \in Nat
    BY FailedNat
  <2>3. QED
    BY <2>1, <2>2
<1>3. a + c >= 0 /\ b >= a
  BY DEF Covered, NoSpareLost
<1> HIDE DEF a, b, c, d
<1>4. b + d >= 0
  BY <1>1, <1>2, <1>3
<1>5. QED
  BY <1>4 DEF b, d

(* A trade given up, one more part for each of its orders.                   *)
LEMMA CoveredFails ==
  ASSUME NEW o, OrdersInv(o), NEW r \in ReservationTables, NEW q, Kept(q, o), NEW s \in ReservationTables,
         NEW T, IsFiniteSet(DOMAIN T), NEW N, DOMAIN N = DOMAIN T,
         NEW t \in DOMAIN T, T[t].status # "FAILED", N[t].status = "FAILED", PartsOf(N[t]) = PartsOf(T[t]),
         \A e \in DOMAIN T \ {t} : N[e] = T[e], PartsOf(T[t]) \subseteq DOMAIN o,
         SpareBut(q, s, o, r, PartsOf(T[t])), Covered(o, r, T)
  PROVE  Covered(q, s, N)
<1> SUFFICES ASSUME NEW key \in ReservationKeys
             PROVE  Spare(q, s, key) + (IF key[2] = "USDC" THEN FailedIn(q, N, key) ELSE 0) >= 0
  BY DEF Covered
<1> DEFINE a == Spare(o, r, key)
           b == Spare(q, s, key)
           c == FailedIn(o, T, key)
           d == FailedIn(q, N, key)
           m == Cardinality(Touching(PartsOf(T[t]), o, key))
<1>1. OrdersInv(q) /\ WithKey(q, key) = WithKey(o, key)
  BY KeysStay DEF Kept
<1>2. a \in Int /\ b \in Int
  BY <1>1, SpareInt
<1>3. d >= c + m
  BY <1>1, FailedMore
<1>4. c \in Nat /\ d \in Nat
  BY <1>1, FailedNat
<1>5. m \in Nat
  <2>1. IsFiniteSet(DOMAIN o) /\ Touching(PartsOf(T[t]), o, key) \subseteq DOMAIN o
    BY TicketsAssumption, FS_Subset DEF OrdersInv, Touching
  <2>2. QED
    BY <2>1, FS_Subset, FS_CardinalityType
<1>6. /\ a + (IF key[2] = "USDC" THEN c ELSE 0) >= 0
      /\ b >= a - (IF key[2] = "USDC" THEN m ELSE 0)
  BY DEF Covered, SpareBut
<1> HIDE DEF a, b, c, d, m
<1>7. b + (IF key[2] = "USDC" THEN d ELSE 0) >= 0
  <2>1. CASE key[2] = "USDC"
    BY <2>1, <1>2, <1>3, <1>4, <1>5, <1>6
  <2>2. CASE key[2] # "USDC"
    BY <2>2, <1>2, <1>6
  <2>3. QED
    BY <2>1, <2>2
<1>8. QED
  BY <1>7 DEF b, d
=============================================================================
