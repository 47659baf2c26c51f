-------------------------- MODULE PageState_proofs --------------------------
(***************************************************************************)
(* The page never shows a book or an account as loaded under another       *)
(* selection, for every number of books, wallets, loans, requests and      *)
(* changes.                                                                *)
(*                                                                         *)
(* An answer says nothing of what is selected when it comes.  That it may  *)
(* be shown follows from what every effect keeps: a request that is not    *)
(* cancelled is for what is selected, since whoever changes the selection  *)
(* cancels the requests in the same step.                                  *)
(***************************************************************************)
EXTENDS PageState, TLAPS

Keys == Books \cup Wallets
Versions == Nat \cup {None}
Requests == [key : Keys, version : Versions, cancelled : BOOLEAN]
Views ==
  [status : {"idle", "loading", "loaded"}, key : Keys \cup {None}, version : Versions]

PageTypes ==
  /\ book \in [Books -> Nat] /\ holdings \in Nat
  /\ selectedOutcome \in Books \cup {None} /\ walletAccount \in Wallets \cup {None}
  /\ requests \in [Lists -> SUBSET Requests]
  /\ \A r \in requests["book"] : r.key \in Books
  /\ shown \in [Lists -> Views]

Selected(list) == IF list = "book" THEN selectedOutcome ELSE walletAccount

(* A request that is not cancelled is for what is selected. *)
RequestsForSelection ==
  \A list \in Lists : \A r \in requests[list] : ~r.cancelled => r.key = Selected(list)

ShownIsSelected ==
  \A list \in Lists : shown[list].status = "loaded" => shown[list].key = Selected(list)

SelectionInv == PageTypes /\ RequestsForSelection /\ ShownIsSelected

-----------------------------------------------------------------------------
LEMMA InitShowsNothing ==
  ASSUME Init
  PROVE  SelectionInv
BY DEF Init, SelectionInv, PageTypes, RequestsForSelection, ShownIsSelected, Nothing,
       Lists, Views, Versions

(* What touches neither the lists nor what is selected. *)
LEMMA QuietPageStep ==
  ASSUME SelectionInv, book' \in [Books -> Nat], holdings' \in Nat,
         UNCHANGED <<selectedOutcome, walletAccount, requests, shown>>
  PROVE  SelectionInv'
BY DEF SelectionInv, PageTypes, RequestsForSelection, ShownIsSelected, Selected

(* Asking for lists whose selection may have changed, while that of the others *)
(* has not: what is under way for them is cancelled, and they show as loading. *)
LEMMA FetchStep ==
  ASSUME SelectionInv, book' \in [Books -> Nat], holdings' \in Nat,
         selectedOutcome' \in Books \cup {None}, walletAccount' \in Wallets \cup {None},
         NEW keys, Fetch(keys),
         \A list \in Lists :
           IF list \in DOMAIN keys
           THEN keys[list] # None => keys[list] = Selected(list)'
           ELSE Selected(list)' = Selected(list)
  PROVE  SelectionInv'
<1>1. ASSUME NEW list \in Lists
      PROVE  /\ requests'[list] \subseteq Requests
             /\ list = "book" => \A r \in requests'[list] : r.key \in Books
             /\ \A r \in requests'[list] : ~r.cancelled => r.key = Selected(list)'
             /\ shown'[list] \in Views
             /\ shown'[list].status = "loaded" => shown'[list].key = Selected(list)'
  <2>1. requests[list] \subseteq Requests /\ shown[list] \in Views
    BY DEF SelectionInv, PageTypes
  <2>2. CASE list \notin DOMAIN keys
    <3>1. requests'[list] = requests[list] /\ shown'[list] = shown[list]
      BY <2>2 DEF Fetch
    <3>2. QED
      BY <2>1, <2>2, <3>1
      DEF SelectionInv, PageTypes, RequestsForSelection, ShownIsSelected
  <2>3. CASE list \in DOMAIN keys
    <3>1. ASSUME NEW r \in CancelAll(list)
          PROVE  r \in Requests /\ r.cancelled /\ (list = "book" => r.key \in Books)
      <4>1. PICK q \in requests[list] : r = [q EXCEPT !.cancelled = TRUE]
        BY <3>1 DEF CancelAll
      <4>2. q \in Requests
        BY <2>1
      <4>3. list = "book" => q.key \in Books
        BY DEF SelectionInv, PageTypes
      <4>4. QED
        BY <4>1, <4>2, <4>3 DEF Requests
    <3>2. CASE keys[list] = None
      <4>1. requests'[list] = CancelAll(list) /\ shown'[list] = Nothing
        BY <2>3, <3>2 DEF Fetch
      <4>2. QED
        BY <3>1, <4>1 DEF Nothing, Views, Versions
    <3>3. CASE keys[list] # None
      <4>1. /\ requests'[list] = CancelAll(list) \cup {Request(keys[list])}
            /\ shown'[list] = [shown[list] EXCEPT !.status = "loading"]
        BY <2>3, <3>3 DEF Fetch
      <4>2. /\ keys[list] = Selected(list)'
            /\ keys[list] \in Keys /\ (list = "book" => keys[list] \in Books)
        BY <2>3, <3>3 DEF Selected, Keys
      <4>3. /\ Request(keys[list]) \in Requests
            /\ Request(keys[list]).key = keys[list]
        BY <4>2 DEF Request, Requests, Versions
      <4>4. shown'[list] \in Views /\ shown'[list].status = "loading"
        BY <2>1, <4>1 DEF Views
      <4>5. QED
        BY <3>1, <4>1, <4>2, <4>3, <4>4
    <3>4. QED
      BY <3>2, <3>3
  <2>4. QED
    BY <2>2, <2>3
<1>2. requests' \in [Lists -> SUBSET Requests] /\ shown' \in [Lists -> Views]
  <2>1. DOMAIN requests' = Lists /\ DOMAIN shown' = Lists
    BY DEF Fetch
  <2>2. /\ requests' = [list \in Lists |-> requests'[list]]
        /\ shown' = [list \in Lists |-> shown'[list]]
    BY DEF Fetch
  <2>3. QED
    BY <1>1, <2>2
<1>3. \A r \in requests'["book"] : r.key \in Books
  BY <1>1 DEF Lists
<1>4. PageTypes'
  BY <1>2, <1>3 DEF PageTypes
<1>5. RequestsForSelection' /\ ShownIsSelected'
  BY <1>1 DEF RequestsForSelection, ShownIsSelected, Selected
<1>6. QED
  BY <1>4, <1>5 DEF SelectionInv

-----------------------------------------------------------------------------
LEMMA ReadViewStep ==
  ASSUME SelectionInv, NEW list \in Lists, NEW r \in requests[list], ReadView(list, r)
  PROVE  SelectionInv'
<1> DEFINE answer == IF list = "book" THEN book[r.key] ELSE holdings
           answered == [r EXCEPT !.version = answer]
<1>1. r \in Requests /\ (list = "book" => r.key \in Books)
  BY DEF SelectionInv, PageTypes
<1>2. answer \in Nat
  BY <1>1 DEF SelectionInv, PageTypes
<1> HIDE DEF answer
<1>3. /\ answered \in Requests
      /\ answered.key = r.key /\ answered.cancelled = r.cancelled
  BY <1>1, <1>2 DEF Requests, Versions
<1>4. requests' = [requests EXCEPT ![list] = (@ \ {r}) \cup {answered}]
  BY DEF ReadView, answer
<1> HIDE DEF answered
<1>5. UNCHANGED <<book, holdings, selectedOutcome, walletAccount, shown>>
  BY DEF ReadView, serverVars, dbVars, marketVars, walletVars
<1>6. PageTypes'
  BY <1>1, <1>3, <1>4, <1>5 DEF SelectionInv, PageTypes
<1>7. RequestsForSelection'
  BY <1>3, <1>4, <1>5 DEF SelectionInv, PageTypes, RequestsForSelection, Selected
<1>8. ShownIsSelected'
  BY <1>5 DEF SelectionInv, ShownIsSelected, Selected
<1>9. QED
  BY <1>6, <1>7, <1>8 DEF SelectionInv

LEMMA ArrivesStep ==
  ASSUME SelectionInv, NEW list \in Lists, NEW r \in requests[list], Arrives(list, r)
  PROVE  SelectionInv'
<1> DEFINE view == [status |-> "loaded", key |-> r.key, version |-> r.version]
<1>1. r \in Requests
  BY DEF SelectionInv, PageTypes
<1>2. view \in Views
  BY <1>1 DEF Requests, Views
<1>3. ~r.cancelled => r.key = Selected(list)
  BY DEF SelectionInv, RequestsForSelection
<1>4. /\ requests' = [requests EXCEPT ![list] = @ \ {r}]
      /\ shown' = IF ~r.cancelled THEN [shown EXCEPT ![list] = view] ELSE shown
      /\ UNCHANGED <<book, holdings, selectedOutcome, walletAccount>>
  BY DEF Arrives, ShownToPage, serverVars, dbVars, marketVars, walletVars
<1>5. PageTypes'
  <2> HIDE DEF view
  <2>1. QED
    BY <1>2, <1>4 DEF SelectionInv, PageTypes
<1>6. RequestsForSelection'
  BY <1>4 DEF SelectionInv, PageTypes, RequestsForSelection, Selected
<1>7. ShownIsSelected'
  BY <1>3, <1>4 DEF SelectionInv, PageTypes, ShownIsSelected, Selected
<1>8. QED
  BY <1>5, <1>6, <1>7 DEF SelectionInv

-----------------------------------------------------------------------------
(* The steps that ask again. *)

LEMMA BookFetched ==
  ASSUME SelectionInv, UNCHANGED <<book, holdings, walletAccount>>,
         selectedOutcome' \in Books \cup {None}, Fetch(SelectedBook')
  PROVE  SelectionInv'
<1> DEFINE keys == SelectedBook'
<1>1. DOMAIN keys = {"book"} /\ (keys["book"] # None => keys["book"] = selectedOutcome')
  BY DEF SelectedBook
<1>2. Fetch(keys)
  OBVIOUS
<1> HIDE DEF keys
<1>3. \A list \in Lists :
        IF list \in DOMAIN keys
        THEN keys[list] # None => keys[list] = Selected(list)'
        ELSE Selected(list)' = Selected(list)
  BY <1>1 DEF Selected
<1>4. QED
  BY <1>2, <1>3, FetchStep DEF SelectionInv, PageTypes

LEMMA AccountFetched ==
  ASSUME SelectionInv, UNCHANGED <<book, selectedOutcome>>, holdings' \in Nat,
         walletAccount' \in Wallets \cup {None}, NEW keys, Fetch(keys),
         \/ DOMAIN keys = {"account"}
         \/ /\ DOMAIN keys = {"account", "book"}
            /\ keys["book"] = SelectedBook.book,
         keys["account"] = walletAccount'
  PROVE  SelectionInv'
<1>1. SelectedBook.book # None => SelectedBook.book = selectedOutcome
  BY DEF SelectedBook
<1>2. \A list \in Lists :
        IF list \in DOMAIN keys
        THEN keys[list] # None => keys[list] = Selected(list)'
        ELSE Selected(list)' = Selected(list)
  BY <1>1 DEF Selected, Lists
<1>3. QED
  BY <1>2, FetchStep DEF SelectionInv, PageTypes

LEMMA MarketsArriveStep ==
  ASSUME SelectionInv, MarketsArrive
  PROVE  SelectionInv'
<1>1. (CHOOSE k \in Books : TRUE) \in Books
  BY PageAssumption
<1>2. selectedOutcome' \in Books \cup {None}
  BY <1>1 DEF MarketsArrive, SelectFirstMarket, SelectionInv, PageTypes
<1>3. UNCHANGED <<book, holdings, walletAccount>> /\ Fetch(SelectedBook')
  BY DEF MarketsArrive, RefetchOnPoll, serverVars, dbVars, walletVars
<1>4. QED
  BY <1>2, <1>3, BookFetched

LEMMA SelectOutcomeStep ==
  ASSUME SelectionInv, NEW k \in Books, SelectOutcome(k)
  PROVE  SelectionInv'
<1>1. /\ UNCHANGED <<book, holdings, walletAccount>> /\ Fetch(SelectedBook')
      /\ selectedOutcome' = k
  BY DEF SelectOutcome, dbVars, walletVars
<1>2. QED
  BY <1>1, BookFetched

LEMMA RefreshBookStep ==
  ASSUME SelectionInv, RefreshBook
  PROVE  SelectionInv'
<1>1. /\ UNCHANGED <<book, holdings, walletAccount, selectedOutcome, marketConfigView>>
      /\ Fetch(SelectedBook)
  BY DEF RefreshBook, serverVars, dbVars, marketVars, walletVars
<1>2. SelectedBook' = SelectedBook
  BY <1>1 DEF SelectedBook
<1>3. selectedOutcome' \in Books \cup {None}
  BY <1>1 DEF SelectionInv, PageTypes
<1>4. Fetch(SelectedBook')
  BY <1>1, <1>2
<1>5. QED
  BY <1>1, <1>3, <1>4, BookFetched

LEMMA ConnectWalletStep ==
  ASSUME SelectionInv, NEW w \in Wallets \cup {None}, ConnectWallet(w)
  PROVE  SelectionInv'
<1> DEFINE keys == SelectedAccount'
<1>1. DOMAIN keys = {"account"} /\ keys["account"] = walletAccount'
  BY DEF SelectedAccount
<1>2. /\ UNCHANGED <<book, holdings, selectedOutcome>> /\ walletAccount' = w
      /\ Fetch(keys)
  BY DEF ConnectWallet, dbVars, marketVars
<1> HIDE DEF keys
<1>3. holdings' \in Nat
  BY <1>2 DEF SelectionInv, PageTypes
<1>4. QED
  BY <1>1, <1>2, <1>3, AccountFetched

LEMMA RefreshStep ==
  ASSUME SelectionInv, UNCHANGED <<book, selectedOutcome, walletAccount>>, holdings' \in Nat,
         \/ Fetch(SelectedAccount)
         \/ Fetch([account |-> walletAccount, book |-> SelectedBook.book])
  PROVE  SelectionInv'
<1>1. walletAccount' \in Wallets \cup {None}
  BY DEF SelectionInv, PageTypes
<1>2. CASE Fetch(SelectedAccount)
  <2> DEFINE keys == SelectedAccount
  <2>1. DOMAIN keys = {"account"} /\ keys["account"] = walletAccount'
    BY DEF SelectedAccount
  <2>2. Fetch(keys)
    BY <1>2
  <2> HIDE DEF keys
  <2>3. QED
    BY <1>1, <2>1, <2>2, AccountFetched
<1>3. CASE Fetch([account |-> walletAccount, book |-> SelectedBook.book])
  <2> DEFINE keys == [account |-> walletAccount, book |-> SelectedBook.book]
  <2>1. /\ DOMAIN keys = {"account", "book"} /\ keys["account"] = walletAccount'
        /\ keys["book"] = SelectedBook.book
    OBVIOUS
  <2>2. Fetch(keys)
    BY <1>3
  <2> HIDE DEF keys
  <2>3. QED
    BY <1>1, <2>1, <2>2, AccountFetched
<1>4. QED
  BY <1>2, <1>3

-----------------------------------------------------------------------------
LEMMA PageNextStep ==
  ASSUME SelectionInv, PageNext
  PROVE  SelectionInv'
<1>1. CASE LoansArrive \/ FeedConnects \/ \E known \in BOOLEAN : OnMessage(known)
  <2>1. UNCHANGED <<book, holdings, selectedOutcome, walletAccount, requests, shown>>
    BY <1>1
    DEF LoansArrive, FeedConnects, OnMessage, serverVars, dbVars, marketVars, listVars, walletVars
  <2>2. QED
    BY <2>1, QuietPageStep DEF SelectionInv, PageTypes
<1>2. CASE OwnTransaction
  <2>1. holdings \in Nat /\ holdings' = holdings + 1
    BY <1>2 DEF OwnTransaction, SelectionInv, PageTypes
  <2>2. /\ UNCHANGED <<book, selectedOutcome, walletAccount>>
        /\ \/ Fetch(SelectedAccount)
           \/ Fetch([account |-> walletAccount, book |-> SelectedBook.book])
    BY <1>2 DEF OwnTransaction, dbVars, marketVars
  <2>3. holdings' \in Nat
    BY <2>1
  <2>4. QED
    BY <2>2, <2>3, RefreshStep
<1>3. CASE RefreshAll
  <2>1. /\ UNCHANGED <<book, holdings, selectedOutcome, walletAccount>>
        /\ Fetch([account |-> walletAccount, book |-> SelectedBook.book])
    BY <1>3 DEF RefreshAll, serverVars, dbVars, marketVars, walletVars
  <2>2. holdings' \in Nat
    BY <2>1 DEF SelectionInv, PageTypes
  <2>3. QED
    BY <2>1, <2>2, RefreshStep
<1>4. CASE DisconnectWallet \/ \E w \in Wallets : ConnectWallet(w)
  BY <1>4, ConnectWalletStep DEF DisconnectWallet
<1>5. CASE \/ \E r \in requests["book"] : GetBookView(r) \/ BookArrives(r)
           \/ \E r \in requests["account"] : ReadAccountViews(r) \/ AccountArrives(r)
  <2>1. "book" \in Lists /\ "account" \in Lists
    BY DEF Lists
  <2>2. QED
    BY <1>5, <2>1, ReadViewStep, ArrivesStep
    DEF GetBookView, BookArrives, ReadAccountViews, AccountArrives
<1>6. QED
  BY <1>1, <1>2, <1>3, <1>4, <1>5, MarketsArriveStep, SelectOutcomeStep, RefreshBookStep
  DEF PageNext

LEMMA NextStep ==
  ASSUME SelectionInv, [Next]_allVars
  PROVE  SelectionInv'
<1>1. book \in [Books -> Nat] /\ holdings \in Nat
  BY DEF SelectionInv, PageTypes
<1>2. CASE OthersNext \/ GetLoanChainView \/ SyncLoanSnapshot \/ UNCHANGED allVars
  <2>1. UNCHANGED <<selectedOutcome, walletAccount, requests, shown>>
    BY <1>2
    DEF OthersNext, GetLoanChainView, SyncLoanSnapshot, ChangeBook, ChangeMarketConfig,
        CreateLoan, ChangeHoldings, ChangeLoan, allVars, pageVars, marketVars, listVars,
        walletVars
  <2>2. /\ \/ book' = book
           \/ \E k \in Books : book' = [book EXCEPT ![k] = @ + 1]
        /\ holdings' \in {holdings, holdings + 1}
    BY <1>2
    DEF OthersNext, GetLoanChainView, SyncLoanSnapshot, ChangeBook, ChangeMarketConfig,
        CreateLoan, ChangeHoldings, ChangeLoan, allVars, serverVars, dbVars
  <2>3. book' \in [Books -> Nat] /\ holdings' \in Nat
    BY <1>1, <2>2
  <2>4. QED
    BY <2>1, <2>3, QuietPageStep
<1>3. QED
  BY <1>2, PageNextStep DEF Next

(* useAppController.ts never shows a book or an account as loaded under        *)
(* another selection: every effect that selects another cancels what was asked *)
(* for before, and what is cancelled is ignored when it comes.                 *)
THEOREM PageShowsWhatIsSelected == PageSpec => []PageShowsSelection
<1>1. Init => SelectionInv
  BY InitShowsNothing
<1>2. SelectionInv /\ [Next]_allVars => SelectionInv'
  BY NextStep
<1>3. SelectionInv => PageShowsSelection
  BY DEF SelectionInv, ShownIsSelected, PageShowsSelection, Lists, Selected
<1>4. QED
  BY <1>1, <1>2, <1>3, PTL DEF PageSpec
=============================================================================
