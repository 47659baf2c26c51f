--------------------------- MODULE Totals_proofs ----------------------------
(***************************************************************************)
(* What an update of one account does to the total of a ledger, and how    *)
(* the totals of ledgers compare that compare account by account, proved   *)
(* for every finite set of accounts and every natural amount.              *)
(***************************************************************************)
EXTENDS Totals, FiniteSetTheorems, TLAPS

(* The units of a ledger of natural amounts form a finite set. *)
LEMMA UnitsFinite ==
  ASSUME NEW S, IsFiniteSet(S), NEW f, \A x \in S : f[x] \in Nat
  PROVE  IsFiniteSet(Units(f, S))
<1> DEFINE part == [x \in S |-> {x} \X (1 .. f[x])]
           Parts == {{x} \X (1 .. f[x]) : x \in S}
<1>1. part \in Surjection(S, Parts)
  BY DEF Surjection
<1>2. IsFiniteSet(Parts)
  BY <1>1, FS_Surjection
<1>3. ASSUME NEW x \in S
      PROVE  IsFiniteSet({x} \X (1 .. f[x]))
  <2>1. IsFiniteSet(1 .. f[x])
    BY FS_Interval
  <2>2. IsFiniteSet({x})
    BY FS_Singleton
  <2>3. QED
    BY <2>1, <2>2, FS_Product
<1>4. QED
  BY <1>2, <1>3, FS_UNION DEF Units

(* The total of a ledger is a natural number. *)
LEMMA TotalNat ==
  ASSUME NEW S, IsFiniteSet(S), NEW f, \A x \in S : f[x] \in Nat
  PROVE  Total(f, S) \in Nat
BY UnitsFinite, FS_CardinalityType DEF Total

(* One account set apart, the total is what it holds and what the others hold. *)
LEMMA TotalSplit ==
  ASSUME NEW S, IsFiniteSet(S), NEW f, \A x \in S : f[x] \in Nat, NEW a \in S
  PROVE  Total(f, S) = Total(f, S \ {a}) + f[a]
<1> DEFINE rest == Units(f, S \ {a})
           own == {a} \X (1 .. f[a])
<1>1. IsFiniteSet(S \ {a})
  BY FS_RemoveElement
<1>2. IsFiniteSet(rest)
  <2>1. \A x \in S \ {a} : f[x] \in Nat
    OBVIOUS
  <2>2. QED
    BY <1>1, <2>1, UnitsFinite
<1>3. IsFiniteSet(own) /\ Cardinality(own) = f[a]
  <2>1. IsFiniteSet(1 .. f[a]) /\ Cardinality(1 .. f[a]) = f[a]
    BY FS_Interval
  <2>2. IsFiniteSet({a}) /\ Cardinality({a}) = 1
    BY FS_Singleton
  <2>3. IsFiniteSet(own) /\ Cardinality(own) = Cardinality({a}) * Cardinality(1 .. f[a])
    BY <2>1, <2>2, FS_Product
  <2>4. QED
    BY <2>1, <2>2, <2>3
<1>4. Units(f, S) = rest \cup own
  BY DEF Units
<1>5. rest \cap own = {}
  BY DEF Units
<1>6. Cardinality(rest \cup own)
         = Cardinality(rest) + Cardinality(own) - Cardinality(rest \cap own)
  BY <1>2, <1>3, FS_Union
<1>7. Cardinality(rest) \in Nat
  BY <1>2, FS_CardinalityType
<1>8. QED
  <2>1. Cardinality(rest \cap own) = 0
    BY <1>5, FS_EmptySet
  <2>2. Total(f, S) = Cardinality(rest \cup own)
    BY <1>4 DEF Total
  <2>3. Total(f, S \ {a}) = Cardinality(rest)
    BY DEF Total
  <2>4. QED
    BY <1>3, <1>6, <1>7, <2>1, <2>2, <2>3

(* Two ledgers that agree on a set of accounts have the same total there. *)
LEMMA TotalEqual ==
  ASSUME NEW S, NEW f, NEW g, \A x \in S : f[x] = g[x]
  PROVE  Total(f, S) = Total(g, S)
<1>1. Units(f, S) = Units(g, S)
  BY DEF Units
<1>2. QED
  BY <1>1 DEF Total

(* An account that changes alone changes the total by its own difference. *)
LEMMA TotalUpdate ==
  ASSUME NEW S, IsFiniteSet(S), NEW f, NEW g, NEW a \in S,
         \A x \in S : f[x] \in Nat, g[a] \in Nat,
         \A x \in S \ {a} : g[x] = f[x]
  PROVE  Total(g, S) = Total(f, S) - f[a] + g[a]
<1>1. \A x \in S : g[x] \in Nat
  OBVIOUS
<1>2. Total(g, S) = Total(g, S \ {a}) + g[a]
  BY <1>1, TotalSplit
<1>3. Total(f, S) = Total(f, S \ {a}) + f[a]
  BY TotalSplit
<1>4. Total(g, S \ {a}) = Total(f, S \ {a})
  BY TotalEqual
<1>5. Total(f, S \ {a}) \in Nat
  <2>1. \A x \in S \ {a} : f[x] \in Nat
    OBVIOUS
  <2>2. QED
    BY <2>1, FS_RemoveElement, TotalNat
<1>6. QED
  BY <1>2, <1>3, <1>4, <1>5

(* A ledger of empty accounts totals nothing. *)
LEMMA TotalZero ==
  ASSUME NEW S, NEW f, \A x \in S : f[x] = 0
  PROVE  Total(f, S) = 0
<1>1. Units(f, S) = {}
  BY DEF Units
<1>2. QED
  BY <1>1, FS_EmptySet DEF Total

(* A part of the accounts holds no more than all of them, and another account *)
(* adds what it holds.                                                       *)
LEMMA TotalSubset ==
  ASSUME NEW S, IsFiniteSet(S), NEW f, \A x \in S : f[x] \in Nat, NEW T \in SUBSET S
  PROVE  Total(f, T) <= Total(f, S)
<1>1. Units(f, T) \subseteq Units(f, S)
  BY DEF Units
<1>2. IsFiniteSet(Units(f, S))
  BY UnitsFinite
<1>3. QED
  BY <1>1, <1>2, FS_Subset DEF Total

LEMMA TotalAdd ==
  ASSUME NEW S, IsFiniteSet(S), NEW f, NEW a, a \notin S, \A x \in S \cup {a} : f[x] \in Nat
  PROVE  Total(f, S \cup {a}) = Total(f, S) + f[a]
<1> DEFINE T == S \cup {a}
<1>1. IsFiniteSet(T) /\ a \in T /\ T \ {a} = S
  BY FS_AddElement
<1>2. \A x \in T : f[x] \in Nat
  OBVIOUS
<1> HIDE DEF T
<1>3. Total(f, T) = Total(f, T \ {a}) + f[a]
  BY <1>1, <1>2, TotalSplit
<1>4. QED
  BY <1>1, <1>3 DEF T

(* No account holds more than the total. *)
LEMMA TotalBoundsEach ==
  ASSUME NEW S, IsFiniteSet(S), NEW f, \A x \in S : f[x] \in Nat, NEW a \in S
  PROVE  f[a] <= Total(f, S)
<1>1. Total(f, S) = Total(f, S \ {a}) + f[a]
  BY TotalSplit
<1>2. Total(f, S \ {a}) \in Nat
  <2>1. \A x \in S \ {a} : f[x] \in Nat
    OBVIOUS
  <2>2. QED
    BY <2>1, FS_RemoveElement, TotalNat
<1>3. QED
  BY <1>1, <1>2

(* Induction over the subsets of a finite set, for a set of them rather than   *)
(* for a predicate: it holds the empty one and grows by any element.           *)
LEMMA SubsetInduction ==
  ASSUME NEW S, IsFiniteSet(S), NEW G, {} \in G,
         \A T \in SUBSET S, x \in S : T \in G /\ x \notin T => T \cup {x} \in G
  PROVE  S \in G
<1> DEFINE bad == {T \in SUBSET S : T \notin G}
           R == StrictSubsetOrdering(S)
<1>1. SUFFICES ASSUME bad # {} PROVE FALSE
  OBVIOUS
<1>2. IsWellFoundedOn(R, SUBSET S)
  BY FS_StrictSubsetOrderingWellFounded, FS_FiniteSubsetsOfFinite
<1>3. PICK T \in bad : \A U \in bad : ~ (<<U, T>> \in R)
  <2>1. bad \subseteq SUBSET S
    OBVIOUS
  <2> HIDE DEF bad, R
  <2>2. QED
    BY <1>1, <1>2, <2>1, WFMin
<1>4. PICK x : x \in T
  OBVIOUS
<1>5. <<T \ {x}, T>> \in R
  BY <1>4 DEF StrictSubsetOrdering
<1>6. T \ {x} \in SUBSET S /\ T \ {x} \notin bad
  BY <1>3, <1>5
<1>7. T \ {x} \in G /\ x \in S /\ x \notin T \ {x}
  BY <1>4, <1>6
<1>8. (T \ {x}) \cup {x} \in G
  BY <1>6, <1>7
<1>9. (T \ {x}) \cup {x} = T
  BY <1>4
<1>10. QED
  BY <1>8, <1>9

(* Ledgers that compare account by account, in any proportion, compare in     *)
(* total.                                                                     *)
LEMMA TotalCompare ==
  ASSUME NEW S, IsFiniteSet(S), NEW f, NEW g, NEW h, NEW a \in Nat, NEW b \in Nat,
         \A x \in S : f[x] \in Nat /\ g[x] \in Nat /\ h[x] \in Nat,
         \A x \in S : a * f[x] <= b * g[x] + h[x]
  PROVE  a * Total(f, S) <= b * Total(g, S) + Total(h, S)
<1> DEFINE G == {T \in SUBSET S : a * Total(f, T) <= b * Total(g, T) + Total(h, T)}
<1>1. {} \in G
  <2>1. Total(f, {}) = 0 /\ Total(g, {}) = 0 /\ Total(h, {}) = 0
    BY TotalZero
  <2>2. QED
    BY <2>1
<1>2. ASSUME NEW T \in SUBSET S, NEW x \in S, T \in G, x \notin T
      PROVE  T \cup {x} \in G
  <2> DEFINE U == T \cup {x}
  <2>1. IsFiniteSet(T) /\ IsFiniteSet(U) /\ U \in SUBSET S /\ x \in U /\ U \ {x} = T
    BY <1>2, FS_Subset
  <2> HIDE DEF U
  <2>2. /\ \A y \in U : f[y] \in Nat
        /\ \A y \in U : g[y] \in Nat
        /\ \A y \in U : h[y] \in Nat
    BY <2>1
  <2>3. /\ Total(f, U) = Total(f, T) + f[x]
        /\ Total(g, U) = Total(g, T) + g[x]
        /\ Total(h, U) = Total(h, T) + h[x]
    BY <2>1, <2>2, TotalSplit
  <2>4. Total(f, T) \in Nat /\ Total(g, T) \in Nat /\ Total(h, T) \in Nat
    BY <2>1, TotalNat
  <2>5. a * Total(f, T) <= b * Total(g, T) + Total(h, T)
    BY <1>2
  <2>6. a * Total(f, U) <= b * Total(g, U) + Total(h, U)
    <3>1. \A c, m, n \in Nat : c * (m + n) = c * m + c * n
      OBVIOUS
    <3>2. f[x] \in Nat /\ g[x] \in Nat /\ h[x] \in Nat /\ a * f[x] <= b * g[x] + h[x]
      OBVIOUS
    <3>3. /\ a * Total(f, U) = a * Total(f, T) + a * f[x]
          /\ b * Total(g, U) = b * Total(g, T) + b * g[x]
      BY <2>3, <2>4, <3>1, <3>2
    <3>4. /\ a * Total(f, T) \in Int /\ a * f[x] \in Int
          /\ b * Total(g, T) \in Int /\ b * g[x] \in Int
      BY <2>4, <3>2
    <3>5. QED
      BY <2>3, <2>4, <2>5, <3>2, <3>3, <3>4
  <2>7. QED
    BY <2>1, <2>6 DEF U
<1>3. S \in G
  <2> HIDE DEF G
  <2>1. QED
    BY <1>1, <1>2, SubsetInduction
<1>4. QED
  BY <1>3

(* Accounts that only give total no more than before. *)
LEMMA TotalMonotone ==
  ASSUME NEW S, IsFiniteSet(S), NEW f, NEW g,
         \A x \in S : f[x] \in Nat /\ g[x] \in Nat /\ f[x] <= g[x]
  PROVE  Total(f, S) <= Total(g, S)
<1> DEFINE h == [x \in S |-> 0]
<1>1. \A x \in S : f[x] \in Nat /\ g[x] \in Nat /\ h[x] \in Nat
  OBVIOUS
<1>2. \A x \in S : 1 * f[x] <= 1 * g[x] + h[x]
  OBVIOUS
<1>3. Total(h, S) = 0
  BY TotalZero
<1> HIDE DEF h
<1>4. 1 * Total(f, S) <= 1 * Total(g, S) + Total(h, S)
  BY <1>1, <1>2, TotalCompare
<1>5. Total(f, S) \in Nat /\ Total(g, S) \in Nat
  BY TotalNat
<1>6. QED
  BY <1>3, <1>4, <1>5

(* Two sets that share no account. *)
LEMMA TotalUnion ==
  ASSUME NEW A, NEW B, IsFiniteSet(A), IsFiniteSet(B), A \cap B = {}, NEW f, \A x \in A \cup B : f[x] \in Nat
  PROVE  Total(f, A \cup B) = Total(f, A) + Total(f, B)
<1>1. IsFiniteSet(Units(f, A)) /\ IsFiniteSet(Units(f, B))
  BY UnitsFinite
<1>2. Units(f, A \cup B) = Units(f, A) \cup Units(f, B)
  BY DEF Units
<1>3. Units(f, A) \cap Units(f, B) = {}
  BY DEF Units
<1>4. Cardinality(Units(f, A) \cup Units(f, B)) = Cardinality(Units(f, A)) + Cardinality(Units(f, B))
  <2>1. Cardinality(Units(f, A) \cup Units(f, B))
          = Cardinality(Units(f, A)) + Cardinality(Units(f, B)) - Cardinality(Units(f, A) \cap Units(f, B))
    BY <1>1, FS_Union
  <2>2. Cardinality(Units(f, A)) \in Nat /\ Cardinality(Units(f, B)) \in Nat
    BY <1>1, FS_CardinalityType
  <2>3. Cardinality(Units(f, A) \cap Units(f, B)) = 0
    BY <1>3, FS_EmptySet
  <2>4. QED
    BY <2>1, <2>2, <2>3
<1>5. QED
  BY <1>2, <1>4 DEF Total

=============================================================================
