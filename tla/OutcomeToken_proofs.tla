------------------------ MODULE OutcomeToken_proofs -------------------------
(***************************************************************************)
(* The invariants of OutcomeToken, proved for every finite set of markets  *)
(* and users and for all amounts.                                          *)
(*                                                                         *)
(* What is inductive is a statement about each market by itself, and the   *)
(* sum over all of them: a handler touches one market m, so the proof of a *)
(* handler gives its type, the statement about m, and by how much what is  *)
(* owed for m changes, which must be what custody changes by.              *)
(***************************************************************************)
EXTENDS OutcomeToken, Totals_proofs

MarketInv(m) ==
  /\ \A u \in Users : pairCollateralMinted[m][u] <= pendingPairCollateral[m][u]
  /\ markets[m].state \in {"Proto", "Cancelled"} =>
       /\ \A u \in Users : pairCollateralMinted[m][u] = 0
       /\ Supply(YesTokenId(m)) = 0
       /\ Supply(NoTokenId(m)) = 0
  /\ markets[m].state = "Active" => Supply(YesTokenId(m)) = Supply(NoTokenId(m))
  /\ markets[m].state = "Resolved" => markets[m].winningOutcome \in Outcome
  /\ borrowerCollateralDeposited[m] <= markets[m].borrowerCollateralAmount
  /\ markets[m].borrower = NoAddress =>
       /\ markets[m].state \in {"Proto", "Cancelled"}
       /\ markets[m].borrowerCollateralAmount = 0

IInv == TypeOK /\ (\A m \in Markets : MarketInv(m)) /\ CustodyCoversClaims

Balances == [TokenIds -> [Holders -> Nat]]

Untouched(n) ==
  /\ markets'[n] = markets[n]
  /\ pendingPairCollateral'[n] = pendingPairCollateral[n]
  /\ pairCollateralMinted'[n] = pairCollateralMinted[n]
  /\ borrowerCollateralDeposited'[n] = borrowerCollateralDeposited[n]
  /\ \A o \in Outcome : balanceOf'[<<n, o>>] = balanceOf[<<n, o>>]

-----------------------------------------------------------------------------
(* Mint and burn, on the balances of one token. *)

LEMMA HoldersFinite == IsFiniteSet(Holders)
BY UsersAssumption, FS_AddElement DEF Holders

LEMMA SupplyNat ==
  ASSUME TypeOK, NEW t \in TokenIds
  PROVE  Supply(t) \in Nat
<1>1. \A h \in Holders : balanceOf[t][h] \in Nat
  BY DEF TypeOK
<1>2. QED
  BY <1>1, HoldersFinite, TotalNat DEF Supply

LEMMA CreditTotal ==
  ASSUME NEW b \in Balances,
         NEW t \in TokenIds, NEW h \in Holders, NEW amount \in Nat
  PROVE  /\ Credit(b, t, h, amount) \in Balances
         /\ Total(Credit(b, t, h, amount)[t], Holders) = Total(b[t], Holders) + amount
         /\ \A s \in TokenIds \ {t} : Credit(b, t, h, amount)[s] = b[s]
<1> DEFINE c == Credit(b, t, h, amount)
<1>1. c \in Balances /\ \A s \in TokenIds \ {t} : c[s] = b[s]
  BY DEF Credit, Balances
<1>2. c[t][h] = b[t][h] + amount /\ \A x \in Holders \ {h} : c[t][x] = b[t][x]
  BY DEF Credit, Balances
<1>3. Total(c[t], Holders) = Total(b[t], Holders) - b[t][h] + c[t][h]
  <2> DEFINE f == b[t]
             g == c[t]
  <2>1. (\A x \in Holders : f[x] \in Nat) /\ g[h] \in Nat
    BY <1>1 DEF Balances
  <2>2. \A x \in Holders \ {h} : g[x] = f[x]
    BY <1>2
  <2>3. Total(g, Holders) = Total(f, Holders) - f[h] + g[h]
    <3> HIDE DEF c, f, g
    <3>1. QED
      BY <2>1, <2>2, HoldersFinite, TotalUpdate
  <2>4. QED
    BY <2>3
<1>4. Total(b[t], Holders) \in Nat /\ b[t][h] \in Nat
  <2>1. \A x \in Holders : b[t][x] \in Nat
    BY DEF Balances
  <2>2. QED
    BY <2>1, HoldersFinite, TotalNat
<1>5. QED
  BY <1>1, <1>2, <1>3, <1>4

LEMMA DebitTotal ==
  ASSUME NEW b \in Balances,
         NEW t \in TokenIds, NEW h \in Holders, NEW amount \in Nat, amount <= b[t][h]
  PROVE  /\ Debit(b, t, h, amount) \in Balances
         /\ Total(Debit(b, t, h, amount)[t], Holders) = Total(b[t], Holders) - amount
         /\ \A s \in TokenIds \ {t} : Debit(b, t, h, amount)[s] = b[s]
<1> DEFINE c == Debit(b, t, h, amount)
<1>1. c \in Balances /\ \A s \in TokenIds \ {t} : c[s] = b[s]
  BY DEF Debit, Balances
<1>2. c[t][h] = b[t][h] - amount /\ \A x \in Holders \ {h} : c[t][x] = b[t][x]
  BY DEF Debit, Balances
<1>3. Total(c[t], Holders) = Total(b[t], Holders) - b[t][h] + c[t][h]
  <2> DEFINE f == b[t]
             g == c[t]
  <2>1. (\A x \in Holders : f[x] \in Nat) /\ g[h] \in Nat
    BY <1>1 DEF Balances
  <2>2. \A x \in Holders \ {h} : g[x] = f[x]
    BY <1>2
  <2>3. Total(g, Holders) = Total(f, Holders) - f[h] + g[h]
    <3> HIDE DEF c, f, g
    <3>1. QED
      BY <2>1, <2>2, HoldersFinite, TotalUpdate
  <2>4. QED
    BY <2>3
<1>4. Total(b[t], Holders) \in Nat /\ b[t][h] \in Nat
  <2>1. \A x \in Holders : b[t][x] \in Nat
    BY DEF Balances
  <2>2. QED
    BY <2>1, HoldersFinite, TotalNat
<1>5. QED
  BY <1>1, <1>2, <1>3, <1>4

(* Mint or burn of two tokens. *)
LEMMA CreditTwo ==
  ASSUME NEW b \in Balances, NEW s \in TokenIds, NEW t \in TokenIds,
         s # t, NEW g \in Holders, NEW h \in Holders, NEW amount \in Nat
  PROVE  LET c == Credit(Credit(b, s, g, amount), t, h, amount) IN
         /\ c \in Balances
         /\ Total(c[s], Holders) = Total(b[s], Holders) + amount
         /\ Total(c[t], Holders) = Total(b[t], Holders) + amount
         /\ \A r \in TokenIds \ {s, t} : c[r] = b[r]
<1> DEFINE a == Credit(b, s, g, amount)
           c == Credit(a, t, h, amount)
<1>1. /\ a \in Balances
      /\ Total(a[s], Holders) = Total(b[s], Holders) + amount
      /\ \A r \in TokenIds \ {s} : a[r] = b[r]
  BY CreditTotal
<1> HIDE DEF a
<1>2. /\ c \in Balances
      /\ Total(c[t], Holders) = Total(a[t], Holders) + amount
      /\ \A r \in TokenIds \ {t} : c[r] = a[r]
  BY <1>1, CreditTotal
<1> HIDE DEF c
<1>3. c[s] = a[s] /\ a[t] = b[t] /\ \A r \in TokenIds \ {s, t} : c[r] = b[r]
  BY <1>1, <1>2
<1>4. QED
  BY <1>1, <1>2, <1>3 DEF a, c

LEMMA DebitTwo ==
  ASSUME NEW b \in Balances, NEW s \in TokenIds, NEW t \in TokenIds,
         s # t, NEW g \in Holders, NEW h \in Holders, NEW amount \in Nat,
         amount <= b[s][g], amount <= b[t][h]
  PROVE  LET c == Debit(Debit(b, s, g, amount), t, h, amount) IN
         /\ c \in Balances
         /\ Total(c[s], Holders) = Total(b[s], Holders) - amount
         /\ Total(c[t], Holders) = Total(b[t], Holders) - amount
         /\ \A r \in TokenIds \ {s, t} : c[r] = b[r]
<1> DEFINE a == Debit(b, s, g, amount)
           c == Debit(a, t, h, amount)
<1>1. /\ a \in Balances
      /\ Total(a[s], Holders) = Total(b[s], Holders) - amount
      /\ \A r \in TokenIds \ {s} : a[r] = b[r]
  BY DebitTotal
<1> HIDE DEF a
<1>2. /\ c \in Balances
      /\ Total(c[t], Holders) = Total(a[t], Holders) - amount
      /\ \A r \in TokenIds \ {t} : c[r] = a[r]
  BY <1>1, DebitTotal
<1> HIDE DEF c
<1>3. c[s] = a[s] /\ a[t] = b[t] /\ \A r \in TokenIds \ {s, t} : c[r] = b[r]
  BY <1>1, <1>2
<1>4. QED
  BY <1>1, <1>2, <1>3 DEF a, c

-----------------------------------------------------------------------------
(* What is owed for a market. *)

LEMMA UnmintedNat ==
  ASSUME TypeOK, NEW m \in Markets, MarketInv(m)
  PROVE  Unminted(m) \in Nat
<1>1. \A u \in Users : UnmintedPairDeposit(m, u) \in Nat
  BY DEF TypeOK, MarketInv, UnmintedPairDeposit
<1>2. QED
  BY <1>1, UsersAssumption, TotalNat DEF Unminted

LEMMA BackingNat ==
  ASSUME TypeOK, NEW m \in Markets, MarketInv(m)
  PROVE  Backing(m) \in Nat
<1>1. \A o \in Outcome : Supply(<<m, o>>) \in Nat
  BY SupplyNat DEF TokenIds
<1>2. borrowerCollateralDeposited[m] \in Nat
  BY DEF TypeOK
<1>3. QED
  BY <1>1, <1>2 DEF Backing, MarketInv, YesTokenId, Outcome

LEMMA OwedNat ==
  ASSUME TypeOK, NEW m \in Markets, MarketInv(m)
  PROVE  Owed(m) \in Nat
BY UnmintedNat, BackingNat DEF Owed

LEMMA OwedNatAll ==
  \A m \in Markets : TypeOK /\ MarketInv(m) => Owed(m) \in Nat
BY OwedNat

LEMMA OwedNatNext ==
  (\A m \in Markets : TypeOK /\ MarketInv(m) => Owed(m) \in Nat)'
BY OwedNatAll, PTL

(* The deposits of one account change what is owed for deposits. *)
LEMMA UnmintedChange ==
  ASSUME TypeOK, TypeOK', NEW m \in Markets, MarketInv(m), NEW u \in Users,
         pairCollateralMinted'[m][u] <= pendingPairCollateral'[m][u],
         \A x \in Users \ {u} :
           /\ pendingPairCollateral'[m][x] = pendingPairCollateral[m][x]
           /\ pairCollateralMinted'[m][x] = pairCollateralMinted[m][x]
  PROVE  Unminted(m)' = Unminted(m) - UnmintedPairDeposit(m, u) + UnmintedPairDeposit(m, u)'
<1> DEFINE f == [x \in Users |-> UnmintedPairDeposit(m, x)]
           g == [x \in Users |-> UnmintedPairDeposit(m, x)']
<1>1. \A x \in Users : f[x] \in Nat
  BY DEF TypeOK, MarketInv, UnmintedPairDeposit
<1>2. g[u] \in Nat
  BY DEF TypeOK, UnmintedPairDeposit
<1>3. \A x \in Users \ {u} : g[x] = f[x]
  BY DEF UnmintedPairDeposit
<1>4. Total(g, Users) = Total(f, Users) - f[u] + g[u]
  <2>1. IsFiniteSet(Users)
    BY UsersAssumption
  <2> HIDE DEF f, g
  <2>2. QED
    BY <1>1, <1>2, <1>3, <2>1, TotalUpdate, SMTT(30)
<1>5. QED
  BY <1>4 DEF Unminted

LEMMA UnmintedSame ==
  ASSUME NEW m \in Markets,
         pendingPairCollateral'[m] = pendingPairCollateral[m],
         pairCollateralMinted'[m] = pairCollateralMinted[m]
  PROVE  Unminted(m)' = Unminted(m)
BY DEF Unminted, UnmintedPairDeposit

LEMMA UntouchedMarket ==
  ASSUME NEW n \in Markets, MarketInv(n), Untouched(n)
  PROVE  MarketInv(n)' /\ Owed(n)' = Owed(n)
<1>1. \A o \in Outcome : Supply(<<n, o>>)' = Supply(<<n, o>>)
  BY DEF Untouched, Supply
<1>2. Unminted(n)' = Unminted(n)
  BY UnmintedSame DEF Untouched
<1>3. Owed(n)' = Owed(n)
  BY <1>1, <1>2 DEF Owed, Backing, Untouched, MarketInv, YesTokenId, Outcome
<1>4. MarketInv(n)'
  BY <1>1 DEF MarketInv, Untouched, YesTokenId, NoTokenId, Outcome
<1>5. QED
  BY <1>3, <1>4

(* A step that touches one market keeps the invariant, if it keeps the         *)
(* statement about that market and moves as much USDC as it moves claims.      *)
LEMMA OneMarketStep ==
  ASSUME IInv, TypeOK', NEW m \in Markets,
         \A n \in Markets \ {m} : Untouched(n),
         MarketInv(m)', custody' = custody + Owed(m)' - Owed(m)
  PROVE  IInv'
<1> DEFINE f == [n \in Markets |-> Owed(n)]
           g == [n \in Markets |-> Owed(n)']
<1>1. \A n \in Markets : MarketInv(n)'
  BY UntouchedMarket DEF IInv
<1>2. \A n \in Markets : f[n] \in Nat
  BY OwedNat DEF IInv
<1>3. g[m] \in Nat
  <2>1. Owed(m)' \in Nat
    BY OwedNatNext
  <2>2. QED
    BY <2>1
<1>4. \A n \in Markets \ {m} : g[n] = f[n]
  BY UntouchedMarket DEF IInv
<1>5. Total(g, Markets) = Total(f, Markets) - f[m] + g[m]
  <2> HIDE DEF f, g
  <2>1. QED
    BY <1>2, <1>3, <1>4, MarketsAssumption, TotalUpdate
<1>6. custody = Total(f, Markets)
  BY DEF IInv, CustodyCoversClaims
<1>7. custody' = Total(g, Markets)
  BY <1>2, <1>3, <1>5, <1>6 DEF IInv, TypeOK
<1>8. QED
  BY <1>1, <1>7 DEF IInv, CustodyCoversClaims

-----------------------------------------------------------------------------
(* Handlers of the loan contract. *)

LEMMA CreateProtoMarketStep ==
  ASSUME IInv, NEW m \in Markets, NEW u \in Users, NEW c \in Collaterals,
         CreateProtoMarket(m, u, c)
  PROVE  IInv'
<1>1. TypeOK'
  BY AmountsAssumption DEF IInv, TypeOK, CreateProtoMarket, MarketState, WinningOutcome
<1>2. \A n \in Markets \ {m} : Untouched(n)
  BY DEF IInv, TypeOK, CreateProtoMarket, Untouched
<1>3. /\ markets[m].borrower = NoAddress
      /\ markets[m].state \in {"Proto", "Cancelled"}
      /\ borrowerCollateralDeposited[m] = 0
  BY DEF IInv, TypeOK, MarketInv, CreateProtoMarket
<1>4. /\ markets'[m].state = "Proto" /\ markets'[m].borrower = u
      /\ markets'[m].borrowerCollateralAmount = c
  BY DEF IInv, TypeOK, CreateProtoMarket
<1>5. \A o \in Outcome : Supply(<<m, o>>)' = Supply(<<m, o>>)
  BY DEF CreateProtoMarket, Supply
<1>6. MarketInv(m)'
  BY <1>3, <1>4, <1>5, UsersAssumption, AmountsAssumption
  DEF IInv, MarketInv, CreateProtoMarket, YesTokenId, NoTokenId, Outcome, Holders
<1>7. Unminted(m)' = Unminted(m)
  BY UnmintedSame DEF CreateProtoMarket
<1>8. Owed(m)' = Owed(m)
  BY <1>3, <1>4, <1>7 DEF Owed, Backing, CreateProtoMarket
<1>9. custody' = custody + Owed(m)' - Owed(m)
  BY <1>8, OwedNat DEF CreateProtoMarket, IInv, TypeOK
<1>10. QED
  BY <1>1, <1>2, <1>6, <1>9, OneMarketStep

LEMMA ActivateMarketStep ==
  ASSUME IInv, NEW m \in Markets, ActivateMarket(m)
  PROVE  IInv'
<1> DEFINE c == markets[m].borrowerCollateralAmount
           b == markets[m].borrower
           yes == YesTokenId(m)
           no == NoTokenId(m)
<1>1. /\ c \in Nat /\ b \in Holders /\ LoanContract \in Holders
      /\ yes \in TokenIds /\ no \in TokenIds /\ yes # no
      /\ balanceOf \in Balances
  BY DEF IInv, TypeOK, ActivateMarket, Balances, Holders, TokenIds, YesTokenId, NoTokenId, Outcome
<1>2. balanceOf' = Credit(Credit(balanceOf, yes, b, c), no, LoanContract, c)
  BY DEF ActivateMarket
<1>5. /\ balanceOf' \in Balances
      /\ Total(balanceOf'[yes], Holders) = Total(balanceOf[yes], Holders) + c
      /\ Total(balanceOf'[no], Holders) = Total(balanceOf[no], Holders) + c
      /\ \A r \in TokenIds \ {yes, no} : balanceOf'[r] = balanceOf[r]
  <2> HIDE DEF c, b, yes, no
  <2>1. QED
    BY <1>1, <1>2, CreditTwo
<1>6. Supply(yes)' = Supply(yes) + c /\ Supply(no)' = Supply(no) + c
  BY <1>5 DEF Supply, YesTokenId, NoTokenId
<1>7. \A n \in Markets \ {m}, o \in Outcome : balanceOf'[<<n, o>>] = balanceOf[<<n, o>>]
  BY <1>5 DEF TokenIds, YesTokenId, NoTokenId
<1>8. TypeOK'
  <2>1. /\ markets' = [markets EXCEPT ![m].state = "Active"]
        /\ balanceOf' \in Balances
        /\ UNCHANGED <<pendingPairCollateral, pairCollateralMinted,
                       borrowerCollateralDeposited, custody>>
    BY <1>5 DEF ActivateMarket
  <2>2. TypeOK
    BY DEF IInv
  <2>3. QED
    BY <2>1, <2>2 DEF TypeOK, MarketState, Balances
<1>9. \A n \in Markets \ {m} : Untouched(n)
  BY <1>7 DEF IInv, TypeOK, ActivateMarket, Untouched
<1>10. /\ markets[m].state = "Proto" /\ markets'[m].state = "Active"
       /\ markets'[m].borrower = b /\ markets'[m].borrowerCollateralAmount = c
       /\ b # NoAddress
  BY DEF IInv, TypeOK, ActivateMarket
<1>11. /\ Supply(YesTokenId(m)) = 0 /\ Supply(NoTokenId(m)) = 0
       /\ borrowerCollateralDeposited[m] = c
  <2>1. /\ Supply(YesTokenId(m)) = 0 /\ Supply(NoTokenId(m)) = 0
        /\ borrowerCollateralDeposited[m] <= c
    BY <1>10 DEF IInv, MarketInv
  <2>2. borrowerCollateralDeposited[m] >= c /\ borrowerCollateralDeposited[m] \in Nat
    BY DEF ActivateMarket, IInv, TypeOK
  <2>3. QED
    BY <1>1, <2>1, <2>2
<1>12. MarketInv(m)'
  BY <1>6, <1>10, <1>11 DEF IInv, MarketInv, ActivateMarket
<1>13. Unminted(m)' = Unminted(m)
  BY UnmintedSame DEF ActivateMarket
<1>14. Owed(m)' = Owed(m)
  BY <1>1, <1>6, <1>10, <1>11, <1>13 DEF Owed, Backing
<1>15. custody' = custody + Owed(m)' - Owed(m)
  BY <1>14, OwedNat DEF ActivateMarket, IInv, TypeOK
<1>16. QED
  BY <1>8, <1>9, <1>12, <1>15, OneMarketStep

LEMMA CancelMarketStep ==
  ASSUME IInv, NEW m \in Markets, CancelMarket(m)
  PROVE  IInv'
<1>1. TypeOK'
  BY DEF IInv, TypeOK, CancelMarket, MarketState
<1>2. \A n \in Markets \ {m} : Untouched(n)
  BY DEF IInv, TypeOK, CancelMarket, Untouched
<1>3. /\ markets[m].state = "Proto" /\ markets'[m].state = "Cancelled"
      /\ markets'[m].borrower = markets[m].borrower
      /\ markets'[m].borrowerCollateralAmount = markets[m].borrowerCollateralAmount
  BY DEF IInv, TypeOK, CancelMarket
<1>4. MarketInv(m)'
  BY <1>3 DEF IInv, MarketInv, CancelMarket, Supply
<1>5. Unminted(m)' = Unminted(m)
  BY UnmintedSame DEF CancelMarket
<1>6. Owed(m)' = Owed(m)
  BY <1>3, <1>5 DEF Owed, Backing, CancelMarket
<1>7. custody' = custody + Owed(m)' - Owed(m)
  BY <1>6, OwedNat DEF CancelMarket, IInv, TypeOK
<1>8. QED
  BY <1>1, <1>2, <1>4, <1>7, OneMarketStep

LEMMA ResolveMarketStep ==
  ASSUME IInv, NEW m \in Markets, NEW outcome \in Outcome, ResolveMarket(m, outcome)
  PROVE  IInv'
<1>1. TypeOK'
  BY DEF IInv, TypeOK, ResolveMarket, MarketState, WinningOutcome
<1>2. \A n \in Markets \ {m} : Untouched(n)
  BY DEF IInv, TypeOK, ResolveMarket, Untouched
<1>3. /\ markets[m].state = "Active" /\ markets'[m].state = "Resolved"
      /\ markets'[m].winningOutcome = outcome
      /\ markets'[m].borrower = markets[m].borrower
      /\ markets'[m].borrowerCollateralAmount = markets[m].borrowerCollateralAmount
  BY DEF IInv, TypeOK, ResolveMarket
<1>4. \A o \in Outcome : Supply(<<m, o>>)' = Supply(<<m, o>>)
  BY DEF ResolveMarket, Supply
<1>5. MarketInv(m)'
  BY <1>3 DEF IInv, MarketInv, ResolveMarket
<1>6. Unminted(m)' = Unminted(m)
  BY UnmintedSame DEF ResolveMarket
<1>7. Backing(m)' = Backing(m)
  <2>1. Supply(<<m, "Yes">>) = Supply(<<m, "No">>)
    BY <1>3 DEF IInv, MarketInv, YesTokenId, NoTokenId
  <2>2. Supply(<<m, outcome>>)' = Supply(<<m, "Yes">>)
    BY <1>4, <2>1 DEF Outcome
  <2>3. Backing(m)' = Supply(<<m, outcome>>)'
    BY <1>3 DEF Backing, Supply
  <2>4. QED
    BY <1>3, <2>2, <2>3 DEF Backing, YesTokenId
<1>8. custody' = custody + Owed(m)' - Owed(m)
  <2>1. Owed(m)' = Owed(m)
    BY <1>6, <1>7 DEF Owed
  <2>2. QED
    BY <2>1, OwedNat DEF ResolveMarket, IInv, TypeOK
<1>9. QED
  BY <1>1, <1>2, <1>5, <1>8, OneMarketStep

-----------------------------------------------------------------------------
(* Handlers of users. *)

(* A step that changes the pair deposit of one account and nothing else. *)
LEMMA PairDepositStep ==
  ASSUME IInv, TypeOK', NEW m \in Markets, NEW u \in Users,
         UNCHANGED <<markets, pairCollateralMinted, borrowerCollateralDeposited, balanceOf>>,
         \A n \in Markets \ {m} : pendingPairCollateral'[n] = pendingPairCollateral[n],
         \A x \in Users \ {u} : pendingPairCollateral'[m][x] = pendingPairCollateral[m][x],
         pairCollateralMinted[m][u] <= pendingPairCollateral'[m][u],
         custody' = custody - pendingPairCollateral[m][u] + pendingPairCollateral'[m][u]
  PROVE  IInv'
<1>1. \A n \in Markets \ {m} : Untouched(n)
  BY DEF Untouched
<1>2. MarketInv(m)'
  BY DEF IInv, MarketInv, Supply
<1>3. Unminted(m)' = Unminted(m) - UnmintedPairDeposit(m, u) + UnmintedPairDeposit(m, u)'
  BY UnmintedChange DEF IInv
<1>4. custody' = custody - UnmintedPairDeposit(m, u) + UnmintedPairDeposit(m, u)'
  <2>1. /\ pendingPairCollateral[m][u] \in Nat /\ pendingPairCollateral'[m][u] \in Nat
        /\ pairCollateralMinted[m][u] \in Nat /\ custody \in Nat
    BY DEF IInv, TypeOK
  <2>2. QED
    BY <2>1 DEF UnmintedPairDeposit
<1>5. Backing(m)' = Backing(m)
  BY DEF Backing, Supply
<1>6. custody' = custody + Owed(m)' - Owed(m)
  <2>1. /\ Unminted(m) \in Nat /\ Owed(m) \in Nat /\ Backing(m) \in Int
    <3>1. Unminted(m) \in Nat /\ Owed(m) \in Nat
      BY UnmintedNat, OwedNat DEF IInv
    <3>2. Backing(m) \in Nat
      BY BackingNat DEF IInv
    <3>3. QED
      BY <3>1, <3>2
  <2>2. UnmintedPairDeposit(m, u) \in Int /\ UnmintedPairDeposit(m, u)' \in Int /\ custody \in Int
    BY DEF IInv, TypeOK, UnmintedPairDeposit
  <2>3. QED
    BY <1>3, <1>4, <1>5, <2>1, <2>2 DEF Owed
<1>7. QED
  BY <1>1, <1>2, <1>6, OneMarketStep

LEMMA DepositPairCollateralStep ==
  ASSUME IInv, NEW m \in Markets, NEW u \in Users, NEW a \in Amounts,
         DepositPairCollateral(m, u, a)
  PROVE  IInv'
<1>1. TypeOK'
  BY AmountsAssumption DEF IInv, TypeOK, DepositPairCollateral, Receive
<1>2. /\ pendingPairCollateral'[m][u] = pendingPairCollateral[m][u] + a
      /\ \A n \in Markets \ {m} : pendingPairCollateral'[n] = pendingPairCollateral[n]
      /\ \A x \in Users \ {u} : pendingPairCollateral'[m][x] = pendingPairCollateral[m][x]
  BY DEF IInv, TypeOK, DepositPairCollateral
<1>3. a \in Nat /\ pendingPairCollateral[m][u] \in Nat /\ pairCollateralMinted[m][u] \in Nat
      /\ custody \in Nat /\ pairCollateralMinted[m][u] <= pendingPairCollateral[m][u]
  BY AmountsAssumption DEF IInv, TypeOK, MarketInv
<1>4. /\ custody' = custody - pendingPairCollateral[m][u] + pendingPairCollateral'[m][u]
      /\ pairCollateralMinted[m][u] <= pendingPairCollateral'[m][u]
  BY <1>2, <1>3 DEF DepositPairCollateral, Receive
<1>5. QED
  BY <1>1, <1>2, <1>4, PairDepositStep DEF DepositPairCollateral

LEMMA WithdrawPairDepositStep ==
  ASSUME IInv, NEW m \in Markets, NEW u \in Users, NEW a \in Amounts,
         WithdrawPairDeposit(m, u, a)
  PROVE  IInv'
<1>1. a \in Nat /\ pendingPairCollateral[m][u] \in Nat /\ pairCollateralMinted[m][u] \in Nat
      /\ custody \in Nat
  BY AmountsAssumption DEF IInv, TypeOK
<1>2. /\ pendingPairCollateral'[m][u] = pendingPairCollateral[m][u] - a
      /\ \A n \in Markets \ {m} : pendingPairCollateral'[n] = pendingPairCollateral[n]
      /\ \A x \in Users \ {u} : pendingPairCollateral'[m][x] = pendingPairCollateral[m][x]
  BY DEF IInv, TypeOK, WithdrawPairDeposit
<1>3. pairCollateralMinted[m][u] <= pendingPairCollateral[m][u] - a
  BY <1>1 DEF WithdrawPairDeposit, UnmintedPairDeposit
<1>4. TypeOK'
  <2>1. pendingPairCollateral[m][u] - a \in Nat /\ custody' \in Nat
    BY <1>1, <1>3 DEF WithdrawPairDeposit, Pay
  <2>2. QED
    BY <2>1 DEF IInv, TypeOK, WithdrawPairDeposit
<1>5. /\ custody' = custody - pendingPairCollateral[m][u] + pendingPairCollateral'[m][u]
      /\ pairCollateralMinted[m][u] <= pendingPairCollateral'[m][u]
  BY <1>1, <1>2, <1>3 DEF WithdrawPairDeposit, Pay
<1>6. QED
  BY <1>2, <1>4, <1>5, PairDepositStep DEF WithdrawPairDeposit

LEMMA RefundPairCollateralStep ==
  ASSUME IInv, NEW m \in Markets, NEW u \in Users, RefundPairCollateral(m, u)
  PROVE  IInv'
<1>1. pendingPairCollateral[m][u] \in Nat /\ pairCollateralMinted[m][u] = 0 /\ custody \in Nat
  BY DEF IInv, TypeOK, MarketInv, RefundPairCollateral
<1>2. /\ pendingPairCollateral'[m][u] = 0
      /\ \A n \in Markets \ {m} : pendingPairCollateral'[n] = pendingPairCollateral[n]
      /\ \A x \in Users \ {u} : pendingPairCollateral'[m][x] = pendingPairCollateral[m][x]
  BY DEF IInv, TypeOK, RefundPairCollateral
<1>3. TypeOK'
  BY <1>1 DEF IInv, TypeOK, RefundPairCollateral, Pay
<1>4. /\ custody' = custody - pendingPairCollateral[m][u] + pendingPairCollateral'[m][u]
      /\ pairCollateralMinted[m][u] <= pendingPairCollateral'[m][u]
  BY <1>1, <1>2 DEF RefundPairCollateral, Pay
<1>5. QED
  BY <1>2, <1>3, <1>4, PairDepositStep DEF RefundPairCollateral

(* A step that changes the borrower's deposit of a market not active. *)
LEMMA BorrowerDepositStep ==
  ASSUME IInv, TypeOK', NEW m \in Markets, markets[m].state \in {"Proto", "Cancelled"},
         UNCHANGED <<markets, pendingPairCollateral, pairCollateralMinted, balanceOf>>,
         \A n \in Markets \ {m} :
           borrowerCollateralDeposited'[n] = borrowerCollateralDeposited[n],
         borrowerCollateralDeposited'[m] <= markets[m].borrowerCollateralAmount,
         custody' = custody - borrowerCollateralDeposited[m] + borrowerCollateralDeposited'[m]
  PROVE  IInv'
<1>1. \A n \in Markets \ {m} : Untouched(n)
  BY DEF Untouched
<1>2. MarketInv(m)'
  BY DEF IInv, MarketInv, Supply
<1>3. Unminted(m)' = Unminted(m) /\ Unminted(m) \in Nat
  BY UnmintedSame, UnmintedNat DEF IInv
<1>4. /\ Backing(m) = borrowerCollateralDeposited[m]
      /\ Backing(m)' = borrowerCollateralDeposited'[m]
  BY DEF Backing
<1>5. /\ borrowerCollateralDeposited[m] \in Nat /\ borrowerCollateralDeposited'[m] \in Nat
      /\ custody \in Nat
  BY DEF IInv, TypeOK
<1>6. custody' = custody + Owed(m)' - Owed(m)
  BY <1>3, <1>4, <1>5 DEF Owed
<1>7. QED
  BY <1>1, <1>2, <1>6, OneMarketStep

LEMMA DepositBorrowerCollateralStep ==
  ASSUME IInv, NEW m \in Markets, NEW u \in Users, NEW a \in Amounts,
         DepositBorrowerCollateral(m, u, a)
  PROVE  IInv'
<1>1. a \in Nat /\ borrowerCollateralDeposited[m] \in Nat /\ custody \in Nat
  BY AmountsAssumption DEF IInv, TypeOK
<1>2. TypeOK'
  BY <1>1 DEF IInv, TypeOK, DepositBorrowerCollateral, Receive
<1>3. /\ borrowerCollateralDeposited'[m] = borrowerCollateralDeposited[m] + a
      /\ \A n \in Markets \ {m} :
           borrowerCollateralDeposited'[n] = borrowerCollateralDeposited[n]
  BY DEF IInv, TypeOK, DepositBorrowerCollateral
<1>4. /\ custody' = custody - borrowerCollateralDeposited[m] + borrowerCollateralDeposited'[m]
      /\ borrowerCollateralDeposited'[m] <= markets[m].borrowerCollateralAmount
  BY <1>1, <1>3 DEF DepositBorrowerCollateral, Receive
<1>5. QED
  BY <1>2, <1>3, <1>4, BorrowerDepositStep DEF DepositBorrowerCollateral

LEMMA RefundBorrowerCollateralStep ==
  ASSUME IInv, NEW m \in Markets, NEW u \in Users, RefundBorrowerCollateral(m, u)
  PROVE  IInv'
<1>1. /\ borrowerCollateralDeposited[m] \in Nat /\ custody \in Nat
      /\ markets[m].borrowerCollateralAmount \in Nat
  BY DEF IInv, TypeOK
<1>2. TypeOK'
  BY <1>1 DEF IInv, TypeOK, RefundBorrowerCollateral, Pay
<1>3. /\ borrowerCollateralDeposited'[m] = 0
      /\ \A n \in Markets \ {m} :
           borrowerCollateralDeposited'[n] = borrowerCollateralDeposited[n]
  BY DEF IInv, TypeOK, RefundBorrowerCollateral
<1>4. /\ custody' = custody - borrowerCollateralDeposited[m] + borrowerCollateralDeposited'[m]
      /\ borrowerCollateralDeposited'[m] <= markets[m].borrowerCollateralAmount
  BY <1>1, <1>3 DEF RefundBorrowerCollateral, Pay
<1>5. QED
  BY <1>2, <1>3, <1>4, BorrowerDepositStep DEF RefundBorrowerCollateral

LEMMA MintActivatedPairStep ==
  ASSUME IInv, NEW m \in Markets, NEW u \in Users, MintActivatedPair(m, u)
  PROVE  IInv'
<1> DEFINE a == UnmintedPairDeposit(m, u)
           yes == YesTokenId(m)
           no == NoTokenId(m)
<1>1. /\ a \in Nat /\ u \in Holders /\ yes \in TokenIds /\ no \in TokenIds /\ yes # no
      /\ balanceOf \in Balances
      /\ pendingPairCollateral[m][u] \in Nat /\ pairCollateralMinted[m][u] \in Nat
  <2>1. pendingPairCollateral[m][u] \in Nat /\ pairCollateralMinted[m][u] \in Nat
    BY DEF IInv, TypeOK
  <2>2. a \in Nat
    BY <2>1 DEF MintActivatedPair, UnmintedPairDeposit
  <2>3. balanceOf \in Balances
    BY DEF IInv, TypeOK, Balances
  <2>4. u \in Holders /\ yes \in TokenIds /\ no \in TokenIds /\ yes # no
    BY DEF Holders, TokenIds, YesTokenId, NoTokenId, Outcome
  <2>5. QED
    BY <2>1, <2>2, <2>3, <2>4
<1>2. balanceOf' = Credit(Credit(balanceOf, yes, u, a), no, u, a)
  BY DEF MintActivatedPair, CreditPair
<1>3. /\ balanceOf' \in Balances
      /\ Total(balanceOf'[yes], Holders) = Total(balanceOf[yes], Holders) + a
      /\ Total(balanceOf'[no], Holders) = Total(balanceOf[no], Holders) + a
      /\ \A r \in TokenIds \ {yes, no} : balanceOf'[r] = balanceOf[r]
  <2> HIDE DEF a, yes, no
  <2>1. QED
    BY <1>1, <1>2, CreditTwo
<1>4. /\ Supply(yes)' = Supply(yes) + a /\ Supply(no)' = Supply(no) + a
      /\ Supply(yes) \in Nat /\ Supply(no) \in Nat
  <2>1. Supply(yes) \in Nat /\ Supply(no) \in Nat
    BY <1>1, SupplyNat DEF IInv
  <2>2. QED
    BY <1>3, <2>1 DEF Supply, YesTokenId, NoTokenId
<1>5. \A n \in Markets \ {m}, o \in Outcome : balanceOf'[<<n, o>>] = balanceOf[<<n, o>>]
  BY <1>3 DEF TokenIds, YesTokenId, NoTokenId
<1>6. /\ pairCollateralMinted'[m][u] = pendingPairCollateral[m][u]
      /\ \A x \in Users \ {u} : pairCollateralMinted'[m][x] = pairCollateralMinted[m][x]
      /\ \A n \in Markets \ {m} : pairCollateralMinted'[n] = pairCollateralMinted[n]
      /\ pairCollateralMinted' \in [Markets -> [Users -> Nat]]
  BY <1>1 DEF IInv, TypeOK, MintActivatedPair, UnmintedPairDeposit
<1>7. TypeOK'
  BY <1>3, <1>6 DEF IInv, TypeOK, MintActivatedPair, Balances
<1>8. \A n \in Markets \ {m} : Untouched(n)
  BY <1>5, <1>6 DEF MintActivatedPair, Untouched
<1>9. MarketInv(m)'
  BY <1>1, <1>4, <1>6 DEF IInv, MarketInv, MintActivatedPair
<1>10. Unminted(m)' = Unminted(m) - a /\ Unminted(m) \in Nat
  <2>1. Unminted(m)' = Unminted(m) - UnmintedPairDeposit(m, u) + UnmintedPairDeposit(m, u)'
    BY <1>6, <1>7, <1>1, UnmintedChange DEF IInv, MintActivatedPair
  <2>2. UnmintedPairDeposit(m, u)' = 0
    BY <1>1, <1>6 DEF UnmintedPairDeposit, MintActivatedPair
  <2>3. Unminted(m) \in Nat
    BY UnmintedNat DEF IInv
  <2>4. QED
    BY <1>1, <2>1, <2>2, <2>3
<1>11. Backing(m) = Supply(yes) /\ Backing(m)' = Supply(yes)'
  BY DEF Backing, MintActivatedPair, YesTokenId
<1>12. custody' = custody + Owed(m)' - Owed(m)
  <2>1. custody' = custody /\ custody \in Nat
    BY DEF MintActivatedPair, IInv, TypeOK
  <2>2. Owed(m)' = Owed(m) /\ Owed(m) \in Nat
    BY <1>1, <1>4, <1>10, <1>11 DEF Owed
  <2>3. QED
    BY <2>1, <2>2
<1>13. QED
  BY <1>7, <1>8, <1>9, <1>12, OneMarketStep

LEMMA MergePositionsStep ==
  ASSUME IInv, NEW m \in Markets, NEW u \in Users, NEW a \in Amounts,
         MergePositions(m, u, a)
  PROVE  IInv'
<1> DEFINE yes == YesTokenId(m)
           no == NoTokenId(m)
<1>1. /\ a \in Nat /\ u \in Holders /\ yes \in TokenIds /\ no \in TokenIds /\ yes # no
      /\ balanceOf \in Balances /\ custody \in Nat
      /\ a <= balanceOf[yes][u] /\ a <= balanceOf[no][u]
  BY AmountsAssumption DEF IInv, TypeOK, MergePositions, Balances, Holders, TokenIds,
         YesTokenId, NoTokenId, Outcome
<1>2. balanceOf' = Debit(Debit(balanceOf, yes, u, a), no, u, a)
  BY DEF MergePositions, DebitPair
<1>3. /\ balanceOf' \in Balances
      /\ Total(balanceOf'[yes], Holders) = Total(balanceOf[yes], Holders) - a
      /\ Total(balanceOf'[no], Holders) = Total(balanceOf[no], Holders) - a
      /\ \A r \in TokenIds \ {yes, no} : balanceOf'[r] = balanceOf[r]
  <2> HIDE DEF yes, no
  <2>1. QED
    BY <1>1, <1>2, DebitTwo
<1>4. /\ Supply(yes)' = Supply(yes) - a /\ Supply(no)' = Supply(no) - a
      /\ Supply(yes) \in Nat /\ Supply(no) \in Nat
  <2>1. Supply(yes) \in Nat /\ Supply(no) \in Nat
    BY <1>1, SupplyNat DEF IInv
  <2>2. QED
    BY <1>3, <2>1 DEF Supply, YesTokenId, NoTokenId
<1>5. \A n \in Markets \ {m}, o \in Outcome : balanceOf'[<<n, o>>] = balanceOf[<<n, o>>]
  BY <1>3 DEF TokenIds, YesTokenId, NoTokenId
<1>6. TypeOK'
  BY <1>1, <1>3 DEF IInv, TypeOK, MergePositions, Pay, Balances
<1>7. \A n \in Markets \ {m} : Untouched(n)
  BY <1>5 DEF MergePositions, Untouched
<1>8. MarketInv(m)'
  BY <1>4 DEF IInv, MarketInv, MergePositions
<1>9. Unminted(m)' = Unminted(m) /\ Unminted(m) \in Nat
  BY UnmintedSame, UnmintedNat DEF IInv, MergePositions
<1>10. Backing(m) = Supply(yes) /\ Backing(m)' = Supply(yes)'
  BY DEF Backing, MergePositions, YesTokenId
<1>11. custody' = custody + Owed(m)' - Owed(m)
  <2>1. custody' = custody - a
    BY DEF MergePositions, Pay
  <2>2. QED
    BY <1>1, <1>4, <1>9, <1>10, <2>1 DEF Owed
<1>12. QED
  BY <1>6, <1>7, <1>8, <1>11, OneMarketStep

LEMMA RedeemStep ==
  ASSUME IInv, NEW m \in Markets, NEW h \in Holders, NEW outcome \in Outcome, NEW a \in Nat,
         Redeem(m, h, outcome, a)
  PROVE  IInv'
<1> DEFINE t == <<m, outcome>>
<1>1. /\ t \in TokenIds /\ balanceOf \in Balances /\ custody \in Nat
      /\ a <= balanceOf[t][h]
      /\ markets[m].state = "Resolved" /\ markets[m].winningOutcome = outcome
  BY DEF IInv, TypeOK, Redeem, Balances, TokenIds
<1>2. balanceOf' = Debit(balanceOf, t, h, a)
  BY DEF Redeem
<1>3. /\ balanceOf' \in Balances
      /\ Total(balanceOf'[t], Holders) = Total(balanceOf[t], Holders) - a
      /\ \A r \in TokenIds \ {t} : balanceOf'[r] = balanceOf[r]
  <2> HIDE DEF t
  <2>1. QED
    BY <1>1, <1>2, DebitTotal
<1>4. Supply(t)' = Supply(t) - a /\ Supply(t) \in Nat
  <2>1. Supply(t) \in Nat
    BY <1>1, SupplyNat DEF IInv
  <2>2. QED
    BY <1>3, <2>1 DEF Supply
<1>5. \A n \in Markets \ {m}, o \in Outcome : balanceOf'[<<n, o>>] = balanceOf[<<n, o>>]
  BY <1>3 DEF TokenIds
<1>6. TypeOK'
  <2>1. custody' \in Nat
    BY <1>1 DEF Redeem, Pay
  <2>2. QED
    BY <1>3, <2>1 DEF IInv, TypeOK, Redeem, Balances
<1>7. \A n \in Markets \ {m} : Untouched(n)
  BY <1>5 DEF Redeem, Untouched
<1>8. MarketInv(m)'
  BY <1>1 DEF IInv, MarketInv, Redeem
<1>9. Unminted(m)' = Unminted(m) /\ Unminted(m) \in Nat
  BY UnmintedSame, UnmintedNat DEF IInv, Redeem
<1>10. Backing(m) = Supply(t) /\ Backing(m)' = Supply(t)'
  BY <1>1 DEF Backing, Redeem, Supply
<1>11. custody' = custody + Owed(m)' - Owed(m)
  <2>1. custody' = custody - a
    BY DEF Redeem, Pay
  <2>2. QED
    BY <1>1, <1>4, <1>9, <1>10, <2>1 DEF Owed
<1>12. QED
  BY <1>6, <1>7, <1>8, <1>11, OneMarketStep

LEMMA TransferKeepsSupply ==
  ASSUME TypeOK, NEW m \in Markets, NEW outcome \in Outcome, NEW u \in Users,
         NEW to \in Holders, NEW a \in Amounts, TransferOutcome(<<m, outcome>>, u, to, a)
  PROVE  /\ balanceOf' \in Balances
         /\ \A s \in TokenIds : Supply(s)' = Supply(s)
         /\ \A s \in TokenIds \ {<<m, outcome>>} : balanceOf'[s] = balanceOf[s]
<1> DEFINE t == <<m, outcome>>
           mid == Debit(balanceOf, t, u, a)
<1>1. /\ t \in TokenIds /\ balanceOf \in Balances /\ u \in Holders /\ a \in Nat
      /\ a <= balanceOf[t][u]
  BY AmountsAssumption DEF TypeOK, TransferOutcome, Balances, TokenIds, Holders
<1>2. /\ mid \in Balances
      /\ Total(mid[t], Holders) = Total(balanceOf[t], Holders) - a
      /\ \A r \in TokenIds \ {t} : mid[r] = balanceOf[r]
  <2> HIDE DEF t
  <2>1. QED
    BY <1>1, DebitTotal
<1>3. /\ balanceOf' \in Balances
      /\ Total(balanceOf'[t], Holders) = Total(mid[t], Holders) + a
      /\ \A r \in TokenIds \ {t} : balanceOf'[r] = mid[r]
  <2>1. balanceOf' = Credit(mid, t, to, a)
    BY DEF TransferOutcome
  <2> HIDE DEF t, mid
  <2>2. QED
    BY <1>1, <1>2, <2>1, CreditTotal, SMTT(30)
<1> HIDE DEF mid
<1>4. \A s \in TokenIds \ {t} : balanceOf'[s] = balanceOf[s]
  BY <1>2, <1>3
<1>5. Supply(t)' = Supply(t)
  <2>1. Supply(t) \in Nat
    BY <1>1, SupplyNat
  <2>2. QED
    BY <1>1, <1>2, <1>3, <2>1 DEF Supply
<1>6. QED
  BY <1>3, <1>4, <1>5 DEF Supply

LEMMA TransferOutcomeStep ==
  ASSUME IInv, NEW m \in Markets, NEW outcome \in Outcome, NEW u \in Users,
         NEW to \in Holders, NEW a \in Amounts, TransferOutcome(<<m, outcome>>, u, to, a)
  PROVE  IInv'
<1>1. /\ balanceOf' \in Balances
      /\ \A s \in TokenIds : Supply(s)' = Supply(s)
      /\ \A s \in TokenIds \ {<<m, outcome>>} : balanceOf'[s] = balanceOf[s]
  BY TransferKeepsSupply DEF IInv
<1>2. TypeOK'
  BY <1>1 DEF IInv, TypeOK, TransferOutcome, Balances
<1>3. \A n \in Markets \ {m} : Untouched(n)
  BY <1>1 DEF TransferOutcome, Untouched, TokenIds
<1>4. \A o \in Outcome : Supply(<<m, o>>)' = Supply(<<m, o>>)
  BY <1>1 DEF TokenIds
<1>5. MarketInv(m)'
  BY <1>4 DEF IInv, MarketInv, TransferOutcome, YesTokenId, NoTokenId, Outcome
<1>6. Unminted(m)' = Unminted(m)
  BY UnmintedSame DEF TransferOutcome
<1>7. Backing(m)' = Backing(m)
  BY <1>4 DEF Backing, IInv, MarketInv, TransferOutcome, YesTokenId, Outcome
<1>8. custody' = custody + Owed(m)' - Owed(m)
  <2>1. Owed(m)' = Owed(m)
    BY <1>6, <1>7 DEF Owed
  <2>2. QED
    BY <2>1, OwedNat DEF TransferOutcome, IInv, TypeOK
<1>9. QED
  BY <1>2, <1>3, <1>5, <1>8, OneMarketStep

-----------------------------------------------------------------------------
LEMMA InitInv ==
  ASSUME Init
  PROVE  IInv
<1>1. TypeOK
  BY DEF Init, TypeOK, UnsetMarket, MarketState, WinningOutcome
<1>2. ASSUME NEW m \in Markets
      PROVE  MarketInv(m) /\ Owed(m) = 0
  <2>1. \A o \in Outcome : Supply(<<m, o>>) = 0
    <3>1. ASSUME NEW o \in Outcome
          PROVE  \A h \in Holders : balanceOf[<<m, o>>][h] = 0
      BY DEF Init, TokenIds
    <3>2. QED
      BY <3>1, TotalZero DEF Supply
  <2>2. Unminted(m) = 0
    <3> DEFINE f == [u \in Users |-> UnmintedPairDeposit(m, u)]
    <3>1. \A u \in Users : f[u] = 0
      BY DEF Init, UnmintedPairDeposit
    <3>2. Total(f, Users) = 0
      <4> HIDE DEF f
      <4>1. QED
        BY <3>1, TotalZero
    <3>3. QED
      BY <3>2 DEF Unminted
  <2>3. markets[m] = UnsetMarket /\ borrowerCollateralDeposited[m] = 0
    BY DEF Init
  <2>4. MarketInv(m)
    BY <2>1, <2>3 DEF Init, MarketInv, UnsetMarket, YesTokenId, NoTokenId, Outcome
  <2>5. Owed(m) = 0
    BY <2>2, <2>3 DEF Owed, Backing, UnsetMarket
  <2>6. QED
    BY <2>4, <2>5
<1>3. CustodyCoversClaims
  <2> DEFINE f == [m \in Markets |-> Owed(m)]
  <2>1. \A m \in Markets : f[m] = 0
    BY <1>2
  <2>2. Total(f, Markets) = 0
    <3> HIDE DEF f
    <3>1. QED
      BY <2>1, TotalZero
  <2>3. QED
    BY <2>2 DEF CustodyCoversClaims, Init
<1>4. QED
  BY <1>1, <1>2, <1>3 DEF IInv

LEMMA StutterInv ==
  ASSUME IInv, UNCHANGED vars
  PROVE  IInv'
<1>1. TypeOK'
  BY DEF IInv, TypeOK, vars
<1>2. \A m \in Markets : MarketInv(m)' /\ Owed(m)' = Owed(m)
  <2>1. \A n \in Markets : Untouched(n)
    BY DEF Untouched, vars
  <2>2. QED
    BY <2>1, UntouchedMarket DEF IInv
<1>3. CustodyCoversClaims'
  <2>1. [m \in Markets |-> Owed(m)]' = [m \in Markets |-> Owed(m)]
    BY <1>2
  <2>2. QED
    BY <2>1 DEF IInv, CustodyCoversClaims, vars
<1>4. QED
  BY <1>1, <1>2, <1>3 DEF IInv

(* Every handler, called by anyone with any arguments, keeps the invariant.   *)
LEMMA NextInv ==
  ASSUME IInv, [Next]_vars
  PROVE  IInv'
<1>1. CASE UserNext
  <2>1. PICK m \in Markets, u \in Users :
          \/ \E a \in Amounts : \/ DepositBorrowerCollateral(m, u, a)
                                \/ DepositPairCollateral(m, u, a)
                                \/ WithdrawPairDeposit(m, u, a)
                                \/ MergePositions(m, u, a)
                                \/ \E o \in Outcome : Redeem(m, u, o, a)
                                \/ \E o \in Outcome, to \in Holders :
                                     TransferOutcome(<<m, o>>, u, to, a)
          \/ RefundBorrowerCollateral(m, u)
          \/ RefundPairCollateral(m, u)
          \/ MintActivatedPair(m, u)
    BY <1>1 DEF UserNext
  <2>2. CASE \E a \in Amounts : DepositBorrowerCollateral(m, u, a)
    BY <2>2, DepositBorrowerCollateralStep
  <2>3. CASE \E a \in Amounts : DepositPairCollateral(m, u, a)
    BY <2>3, DepositPairCollateralStep
  <2>4. CASE \E a \in Amounts : WithdrawPairDeposit(m, u, a)
    BY <2>4, WithdrawPairDepositStep
  <2>5. CASE \E a \in Amounts : MergePositions(m, u, a)
    BY <2>5, MergePositionsStep
  <2>6. CASE \E a \in Amounts, o \in Outcome : Redeem(m, u, o, a)
    BY <2>6, RedeemStep, AmountsAssumption DEF Holders
  <2>7. CASE \E a \in Amounts, o \in Outcome, to \in Holders :
               TransferOutcome(<<m, o>>, u, to, a)
    BY <2>7, TransferOutcomeStep
  <2>8. CASE RefundBorrowerCollateral(m, u)
    BY <2>8, RefundBorrowerCollateralStep
  <2>9. CASE RefundPairCollateral(m, u)
    BY <2>9, RefundPairCollateralStep
  <2>10. CASE MintActivatedPair(m, u)
    BY <2>10, MintActivatedPairStep
  <2>11. QED
    BY <2>1, <2>2, <2>3, <2>4, <2>5, <2>6, <2>7, <2>8, <2>9, <2>10
<1>2. CASE LoanContractNext
  <2>1. PICK m \in Markets :
          \/ \E u \in Users, c \in Collaterals : CreateProtoMarket(m, u, c)
          \/ ActivateMarket(m)
          \/ CancelMarket(m)
          \/ \E o \in Outcome : ResolveMarket(m, o)
          \/ Redeem(m, LoanContract, "No", balanceOf[NoTokenId(m)][LoanContract])
    BY <1>2 DEF LoanContractNext
  <2>2. CASE \E u \in Users, c \in Collaterals : CreateProtoMarket(m, u, c)
    BY <2>2, CreateProtoMarketStep
  <2>3. CASE ActivateMarket(m)
    BY <2>3, ActivateMarketStep
  <2>4. CASE CancelMarket(m)
    BY <2>4, CancelMarketStep
  <2>5. CASE \E o \in Outcome : ResolveMarket(m, o)
    BY <2>5, ResolveMarketStep
  <2>6. CASE Redeem(m, LoanContract, "No", balanceOf[NoTokenId(m)][LoanContract])
    <3>1. /\ LoanContract \in Holders /\ "No" \in Outcome
          /\ balanceOf[NoTokenId(m)][LoanContract] \in Nat
      BY DEF IInv, TypeOK, Holders, Outcome, TokenIds, NoTokenId
    <3>2. QED
      BY <2>6, <3>1, RedeemStep
  <2>7. QED
    BY <2>1, <2>2, <2>3, <2>4, <2>5, <2>6
<1>3. CASE UNCHANGED vars
  BY <1>3, StutterInv
<1>4. QED
  BY <1>1, <1>2, <1>3 DEF Next

(* The inductive invariant holds in every behaviour of the contract. *)
THEOREM InvariantHolds == Spec => []IInv
<1>1. Init => IInv
  BY InitInv
<1>2. IInv /\ [Next]_vars => IInv'
  BY NextInv
<1>3. QED
  BY <1>1, <1>2, PTL DEF Spec

(* The state of OutcomeToken.sol is always well typed; no balance, deposit or *)
(* custody goes below zero, which in Solidity is that no checked subtraction  *)
(* of a handler that passed its tests reverts.                                *)
THEOREM TypeCorrect == Spec => []TypeOK
<1>1. IInv => TypeOK
  BY DEF IInv
<1>2. QED
  BY <1>1, InvariantHolds, PTL

(* The USDC that OutcomeToken.sol holds is exactly what it owes in all of its *)
(* markets, for any number of markets and users and any amounts.              *)
THEOREM CustodyCovers == Spec => []CustodyCoversClaims
<1>1. IInv => CustodyCoversClaims
  BY DEF IInv
<1>2. QED
  BY <1>1, InvariantHolds, PTL

(* YES and NO of a market of OutcomeToken.sol that has not resolved exist in  *)
(* equal number, and none before it is activated.                             *)
THEOREM PairsAreBacked == Spec => []PairsBacked
<1>1. IInv => PairsBacked
  BY DEF IInv, MarketInv, PairsBacked
<1>2. QED
  BY <1>1, InvariantHolds, PTL

(* No account of OutcomeToken.sol mints more pairs than it has deposited for  *)
(* and not withdrawn.                                                         *)
THEOREM MintedWithin == Spec => []MintedWithinDeposit
<1>1. IInv => MintedWithinDeposit
  BY DEF IInv, MarketInv, MintedWithinDeposit
<1>2. QED
  BY <1>1, InvariantHolds, PTL

(* No borrower deposits more in OutcomeToken.sol than the loan asks for.      *)
THEOREM CollateralWithin == Spec => []CollateralWithinRequirement
<1>1. IInv => CollateralWithinRequirement
  BY DEF IInv, MarketInv, CollateralWithinRequirement
<1>2. QED
  BY <1>1, InvariantHolds, PTL

-----------------------------------------------------------------------------
(* Finality of a resolution, by the steps that could disturb it. *)

LEMMA UserKeepsResolution ==
  ASSUME IInv, UserNext, NEW m \in Markets, markets[m].state = "Resolved",
         NEW o \in Outcome, o # markets[m].winningOutcome
  PROVE  Supply(<<m, o>>)' = Supply(<<m, o>>)
<1> DEFINE lost == <<m, o>>
<1>1. PICK n \in Markets, u \in Users :
        \/ \E a \in Amounts : \/ DepositBorrowerCollateral(n, u, a)
                              \/ DepositPairCollateral(n, u, a)
                              \/ WithdrawPairDeposit(n, u, a)
                              \/ MergePositions(n, u, a)
                              \/ \E x \in Outcome : Redeem(n, u, x, a)
                              \/ \E x \in Outcome, to \in Holders :
                                   TransferOutcome(<<n, x>>, u, to, a)
        \/ RefundBorrowerCollateral(n, u)
        \/ RefundPairCollateral(n, u)
        \/ MintActivatedPair(n, u)
  BY DEF UserNext
<1>2. lost \in TokenIds /\ balanceOf \in Balances
  BY DEF IInv, TypeOK, TokenIds, Balances
<1>3. ASSUME balanceOf'[lost] = balanceOf[lost]
      PROVE  Supply(lost)' = Supply(lost)
  BY <1>3 DEF Supply
<1>4. CASE UNCHANGED balanceOf
  BY <1>3, <1>4
<1>5. CASE \E a \in Amounts : MergePositions(n, u, a)
  <2>1. n # m
    BY <1>5 DEF MergePositions
  <2>2. balanceOf'[lost] = balanceOf[lost]
    BY <1>2, <1>5, <2>1
    DEF MergePositions, DebitPair, Debit, YesTokenId, NoTokenId, Balances
  <2>3. QED
    BY <1>3, <2>2
<1>6. CASE MintActivatedPair(n, u)
  <2>1. n # m
    BY <1>6 DEF MintActivatedPair
  <2>2. balanceOf'[lost] = balanceOf[lost]
    BY <1>2, <1>6, <2>1
    DEF MintActivatedPair, CreditPair, Credit, YesTokenId, NoTokenId, Balances
  <2>3. QED
    BY <1>3, <2>2
<1>7. CASE \E a \in Amounts, x \in Outcome : Redeem(n, u, x, a)
  <2>1. PICK a \in Amounts, x \in Outcome : Redeem(n, u, x, a)
    BY <1>7
  <2>2. <<n, x>> # lost
    BY <2>1 DEF Redeem
  <2>3. balanceOf'[lost] = balanceOf[lost]
    BY <1>2, <2>1, <2>2 DEF Redeem, Debit, Balances
  <2>4. QED
    BY <1>3, <2>3
<1>8. CASE \E a \in Amounts, x \in Outcome, to \in Holders :
             TransferOutcome(<<n, x>>, u, to, a)
  <2>1. PICK a \in Amounts, x \in Outcome, to \in Holders :
               TransferOutcome(<<n, x>>, u, to, a)
    BY <1>8
  <2>2. \A s \in TokenIds : Supply(s)' = Supply(s)
    BY <2>1, TransferKeepsSupply DEF IInv
  <2>3. QED
    BY <1>2, <2>2
<1>9. QED
  BY <1>1, <1>4, <1>5, <1>6, <1>7, <1>8
  DEF DepositBorrowerCollateral, DepositPairCollateral, WithdrawPairDeposit,
      RefundBorrowerCollateral, RefundPairCollateral

LEMMA LoanContractKeepsResolution ==
  ASSUME IInv, LoanContractNext, NEW m \in Markets, markets[m].state = "Resolved",
         NEW o \in Outcome, o # markets[m].winningOutcome
  PROVE  Supply(<<m, o>>)' = Supply(<<m, o>>)
<1> DEFINE lost == <<m, o>>
<1>1. PICK n \in Markets :
        \/ \E u \in Users, c \in Collaterals : CreateProtoMarket(n, u, c)
        \/ ActivateMarket(n)
        \/ CancelMarket(n)
        \/ \E x \in Outcome : ResolveMarket(n, x)
        \/ Redeem(n, LoanContract, "No", balanceOf[NoTokenId(n)][LoanContract])
  BY DEF LoanContractNext
<1>2. lost \in TokenIds /\ balanceOf \in Balances
  BY DEF IInv, TypeOK, TokenIds, Balances
<1>3. ASSUME balanceOf'[lost] = balanceOf[lost]
      PROVE  Supply(lost)' = Supply(lost)
  BY <1>3 DEF Supply
<1>4. CASE UNCHANGED balanceOf
  BY <1>3, <1>4
<1>5. CASE ActivateMarket(n)
  <2>1. n # m
    BY <1>5 DEF ActivateMarket
  <2>2. balanceOf'[lost] = balanceOf[lost]
    BY <1>2, <1>5, <2>1 DEF ActivateMarket, Credit, YesTokenId, NoTokenId, Balances
  <2>3. QED
    BY <1>3, <2>2
<1>6. CASE Redeem(n, LoanContract, "No", balanceOf[NoTokenId(n)][LoanContract])
  <2>1. <<n, "No">> # lost
    BY <1>6 DEF Redeem
  <2>2. balanceOf'[lost] = balanceOf[lost]
    BY <1>2, <1>6, <2>1 DEF Redeem, Debit, Balances
  <2>3. QED
    BY <1>3, <2>2
<1>7. QED
  BY <1>1, <1>4, <1>5, <1>6 DEF CreateProtoMarket, CancelMarket, ResolveMarket

LEMMA UserKeepsMarkets ==
  ASSUME UserNext
  PROVE  UNCHANGED markets
<1>1. PICK n \in Markets, u \in Users :
        \/ \E a \in Amounts : \/ DepositBorrowerCollateral(n, u, a)
                              \/ DepositPairCollateral(n, u, a)
                              \/ WithdrawPairDeposit(n, u, a)
                              \/ MergePositions(n, u, a)
                              \/ \E x \in Outcome : Redeem(n, u, x, a)
                              \/ \E x \in Outcome, to \in Holders :
                                   TransferOutcome(<<n, x>>, u, to, a)
        \/ RefundBorrowerCollateral(n, u)
        \/ RefundPairCollateral(n, u)
        \/ MintActivatedPair(n, u)
  BY DEF UserNext
<1>2. \A a : DepositBorrowerCollateral(n, u, a) => UNCHANGED markets
  BY DEF DepositBorrowerCollateral
<1>3. \A a : DepositPairCollateral(n, u, a) => UNCHANGED markets
  BY DEF DepositPairCollateral
<1>4. \A a : WithdrawPairDeposit(n, u, a) => UNCHANGED markets
  BY DEF WithdrawPairDeposit
<1>5. \A a : MergePositions(n, u, a) => UNCHANGED markets
  BY DEF MergePositions
<1>6. \A a, x : Redeem(n, u, x, a) => UNCHANGED markets
  BY DEF Redeem
<1>7. \A a, x, to : TransferOutcome(<<n, x>>, u, to, a) => UNCHANGED markets
  BY DEF TransferOutcome
<1>8. /\ RefundBorrowerCollateral(n, u) => UNCHANGED markets
      /\ RefundPairCollateral(n, u) => UNCHANGED markets
      /\ MintActivatedPair(n, u) => UNCHANGED markets
  BY DEF RefundBorrowerCollateral, RefundPairCollateral, MintActivatedPair
<1>9. QED
  BY <1>1, <1>2, <1>3, <1>4, <1>5, <1>6, <1>7, <1>8

LEMMA MarketOfResolution ==
  ASSUME IInv, [Next]_vars, NEW m \in Markets, markets[m].state = "Resolved"
  PROVE  markets'[m] = markets[m]
<1>1. CASE UserNext
  BY <1>1, UserKeepsMarkets
<1>2. CASE LoanContractNext
  <2>1. PICK n \in Markets :
          \/ \E u \in Users, c \in Collaterals : CreateProtoMarket(n, u, c)
          \/ ActivateMarket(n)
          \/ CancelMarket(n)
          \/ \E x \in Outcome : ResolveMarket(n, x)
          \/ Redeem(n, LoanContract, "No", balanceOf[NoTokenId(n)][LoanContract])
    BY <1>2 DEF LoanContractNext
  <2>2. CASE \E u \in Users, c \in Collaterals : CreateProtoMarket(n, u, c)
    <3>1. markets[n].state \in {"Proto", "Cancelled"}
      BY <2>2 DEF IInv, MarketInv, CreateProtoMarket
    <3>2. QED
      BY <2>2, <3>1 DEF IInv, TypeOK, CreateProtoMarket
  <2>3. CASE ActivateMarket(n)
    BY <2>3 DEF IInv, TypeOK, ActivateMarket
  <2>4. CASE CancelMarket(n)
    BY <2>4 DEF IInv, TypeOK, CancelMarket
  <2>5. CASE \E x \in Outcome : ResolveMarket(n, x)
    BY <2>5 DEF IInv, TypeOK, ResolveMarket
  <2>6. CASE Redeem(n, LoanContract, "No", balanceOf[NoTokenId(n)][LoanContract])
    BY <2>6 DEF Redeem
  <2>7. QED
    BY <2>1, <2>2, <2>3, <2>4, <2>5, <2>6
<1>3. CASE UNCHANGED vars
  BY <1>3 DEF vars
<1>4. QED
  BY <1>1, <1>2, <1>3 DEF Next

(* Once OutcomeToken.sol has resolved a market, neither its state nor its     *)
(* outcome changes, and no token of the losing side is minted or burnt.       *)
THEOREM ResolutionIsFinal == Spec => ResolutionFinal
<1>1. ASSUME IInv, [Next]_vars, NEW m \in Markets, markets[m].state = "Resolved",
             NEW o \in Outcome \ {markets[m].winningOutcome}
      PROVE  Supply(<<m, o>>)' = Supply(<<m, o>>)
  <2>1. CASE UserNext
    BY <1>1, <2>1, UserKeepsResolution
  <2>2. CASE LoanContractNext
    BY <1>1, <2>2, LoanContractKeepsResolution
  <2>3. CASE UNCHANGED vars
    BY <2>3 DEF vars, Supply
  <2>4. QED
    BY <1>1, <2>1, <2>2, <2>3 DEF Next
<1>2. ASSUME IInv, [Next]_vars, NEW m \in Markets, markets[m].state = "Resolved"
      PROVE  markets[m]' = markets[m]
  BY <1>2, MarketOfResolution
<1>3. IInv /\ [Next]_vars =>
        [\A m \in Markets :
           markets[m].state = "Resolved" =>
             /\ markets[m]' = markets[m]
             /\ \A o \in Outcome \ {markets[m].winningOutcome} :
                  Supply(<<m, o>>)' = Supply(<<m, o>>)]_vars
  BY <1>1, <1>2
<1>4. QED
  BY <1>3, InvariantHolds, PTL DEF Spec, ResolutionFinal

=============================================================================
