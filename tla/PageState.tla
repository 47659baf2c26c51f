------------------------------ MODULE PageState -----------------------------
(***************************************************************************)
(* How the page comes to show what there is: the loop that copies loans    *)
(* from the chain to the database (backend/src/lending/loanSnapshotSync.   *)
(* ts), the views the API serves (backend/src/clob/api/readServices.ts,    *)
(* httpServer.ts) and the page that polls them and follows the feed        *)
(* (frontend/src/hooks/useAppController.ts, bookFeed.ts).                  *)
(*                                                                         *)
(* Of a loan the chain has two records that the loop reads one after the   *)
(* other: the loan and the collateral deposited for it, here their version *)
(* numbers; so are the configuration of the market and its books.  The     *)
(* page's effects are run anew when what they depend on changes; the       *)
(* request that an effect made before is then cancelled: it is answered    *)
(* all the same, but the answer is ignored.                                *)
(*                                                                         *)
(* The poll of loans and markets has no state of its own, its answers come *)
(* again and again: they are given within the 15 seconds between polls,    *)
(* else the next poll cancels them.  What the feed sends (BookFeed) is a   *)
(* hint: it may come or not.  What the wallet has, on the chain and in the *)
(* database, is read when it is connected, when a transaction or an order  *)
(* of its own has succeeded and when the user asks; nothing polls it.      *)
(* Left out: further pages of the lists, filters, the state of health,     *)
(* answers that are errors (the next poll asks again).                     *)
(***************************************************************************)
EXTENDS Integers, FiniteSets

CONSTANTS
  Books,              \* the outcomes of the market
  Wallets,            \* accounts the user may connect
  None,
  MaxLoans,           \* bound: loans opened
  SyncLimit,          \* loans a sync batch copies, from the newest down
  MaxChanges,         \* bound: changes of what there is to show
  MaxRequests         \* bound: requests for a book or an account under way

ASSUME PageAssumption ==
  /\ Books # {} /\ MaxLoans \in Nat /\ SyncLimit \in Nat \ {0}
  /\ MaxChanges \in Nat /\ MaxRequests \in Nat

VARIABLES
  changes,            \* changes so far
  book, marketConfig, \* the live orders and the market_configs row, in the database
  nextLoanId, chainLoans,
  holdings,           \* what the wallets have, on the chain and in the database
  syncFirst,          \* the newest loan when the sync loop's batch began
  syncLoan, syncRead, \* the loan the sync loop is at, and what it has read of it
  snapshots,          \* table loan_snapshots
  loanViews, marketConfigView,     \* what the polls have shown
  selectedOutcome,    \* None until markets are shown
  walletAccount,      \* None while no wallet is connected
  ownHoldings,        \* the holdings when its last transaction had succeeded
  requests,           \* requests for a book or an account, and those cancelled
  shown,              \* what the page shows of each
  feedStatus,
  refreshScheduled    \* a message of the feed came less than 150 ms ago

dbVars == <<book, marketConfig>>
chainVars == <<nextLoanId, chainLoans>>
syncVars == <<syncFirst, syncLoan, syncRead, snapshots>>
listVars == <<requests, shown>>
marketVars == <<marketConfigView, selectedOutcome>>
feedVars == <<feedStatus, refreshScheduled>>
walletVars == <<walletAccount, ownHoldings>>
pageVars == <<loanViews, marketVars, listVars, feedVars, walletVars>>
serverVars == <<changes, dbVars, chainVars, holdings, syncVars>>
allVars == <<serverVars, pageVars>>

Loans == 1 .. MaxLoans
Lists == {"book", "account"}
Nothing == [status |-> "idle", key |-> None, version |-> None]

Init ==
  /\ changes = 0 /\ book = [k \in Books |-> 0] /\ marketConfig = None /\ holdings = 0
  /\ nextLoanId = 1 /\ chainLoans = [l \in Loans |-> None]
  /\ syncFirst = 0 /\ syncLoan = 0 /\ syncRead = None /\ snapshots = [l \in Loans |-> None]
  /\ loanViews = [l \in Loans |-> None] /\ marketConfigView = None /\ selectedOutcome = None
  /\ walletAccount = None /\ ownHoldings = 0
  /\ requests = [list \in Lists |-> {}] /\ shown = [list \in Lists |-> Nothing]
  /\ feedStatus = "idle" /\ refreshScheduled = FALSE

-----------------------------------------------------------------------------
(* What there is to show. *)

Change == changes < MaxChanges /\ changes' = changes + 1

ChangeBook(k) ==
  /\ Change /\ book' = [book EXCEPT ![k] = @ + 1]
  /\ UNCHANGED <<marketConfig, chainVars, holdings, syncVars, pageVars>>

ChangeMarketConfig ==
  /\ Change /\ marketConfig # None /\ marketConfig' = marketConfig + 1
  /\ UNCHANGED <<book, chainVars, holdings, syncVars, pageVars>>

CreateLoan ==
  /\ nextLoanId \in Loans /\ nextLoanId' = nextLoanId + 1
  /\ chainLoans' = [chainLoans EXCEPT ![nextLoanId] = [loan |-> 0, deposited |-> 0]]
  /\ UNCHANGED <<changes, dbVars, holdings, syncVars, pageVars>>

ChangeLoan(l, part) ==
  /\ Change /\ l < nextLoanId
  /\ chainLoans' = [chainLoans EXCEPT ![l][part] = @ + 1]
  /\ UNCHANGED <<dbVars, nextLoanId, holdings, syncVars, pageVars>>

ChangeHoldings ==     \* by others: a keeper, a trade
  /\ Change /\ holdings' = holdings + 1
  /\ UNCHANGED <<dbVars, chainVars, syncVars, pageVars>>

-----------------------------------------------------------------------------
(* The loop: a batch goes from the loan that is the newest when it begins down *)
(* to the last of the limit.                                                   *)

BatchOver == syncLoan <= 1 \/ syncFirst - syncLoan >= SyncLimit - 1
NextSyncLoan == IF BatchOver THEN nextLoanId - 1 ELSE syncLoan - 1

GetLoanChainView ==
  /\ syncRead = None /\ nextLoanId > 1
  /\ syncFirst' = IF BatchOver THEN nextLoanId - 1 ELSE syncFirst
  /\ syncLoan' = NextSyncLoan
  /\ syncRead' = chainLoans[syncLoan'].loan
  /\ UNCHANGED <<changes, dbVars, chainVars, holdings, snapshots, pageVars>>

UpsertLoanSnapshot(l, view) == [snapshots EXCEPT ![l] = view]
CreateMarketConfigIfMissing == IF marketConfig = None THEN 0 ELSE marketConfig

SyncLoanSnapshot ==
  /\ syncRead # None /\ syncRead' = None
  /\ snapshots' = UpsertLoanSnapshot(syncLoan,
       [loan |-> syncRead, deposited |-> chainLoans[syncLoan].deposited])
  /\ marketConfig' = CreateMarketConfigIfMissing
  /\ UNCHANGED <<changes, book, chainVars, holdings, syncFirst, syncLoan, pageVars>>

-----------------------------------------------------------------------------
(* The page asks for a book with its last trades, or for an account with its   *)
(* balances, orders, positions and reservations; what it asked for before is   *)
(* cancelled.  "Keys" says for which lists, and of what; of None nothing is    *)
(* shown.                                                                      *)

Request(key) == [key |-> key, version |-> None, cancelled |-> FALSE]
CancelAll(list) == {[r EXCEPT !.cancelled = TRUE] : r \in requests[list]}

Fetch(keys) ==
  /\ requests' = [list \in Lists |->
       IF list \notin DOMAIN keys THEN requests[list]
       ELSE CancelAll(list) \cup IF keys[list] = None THEN {} ELSE {Request(keys[list])}]
  /\ \A list \in Lists : Cardinality(requests'[list]) <= MaxRequests
  /\ shown' = [list \in Lists |->
       IF list \notin DOMAIN keys THEN shown[list]
       ELSE IF keys[list] = None THEN Nothing ELSE [shown[list] EXCEPT !.status = "loading"]]

SelectedBook ==
  [book |-> IF marketConfigView = None THEN None ELSE selectedOutcome]
SelectedAccount == [account |-> walletAccount]

(* The server answers with what it reads now. *)
ReadView(list, r) ==
  /\ r.version = None
  /\ requests' = [requests EXCEPT ![list] = (@ \ {r}) \cup
       {[r EXCEPT !.version = IF list = "book" THEN book[r.key] ELSE holdings]}]
  /\ UNCHANGED <<serverVars, loanViews, marketVars, walletVars, shown, feedVars>>
GetBookView(r) == ReadView("book", r)
ReadAccountViews(r) == ReadView("account", r)

ShownAnyway(r) == TRUE     \* slip: an effect that is over still shows its answer
ShownToPage(r) == ~r.cancelled

Arrives(list, r) ==
  /\ r.version # None /\ requests' = [requests EXCEPT ![list] = @ \ {r}]
  /\ shown' = IF ShownToPage(r)
               THEN [shown EXCEPT ![list] =
                      [status |-> "loaded", key |-> r.key, version |-> r.version]]
               ELSE shown
  /\ UNCHANGED <<serverVars, loanViews, marketVars, walletVars, feedVars>>
BookArrives(r) == Arrives("book", r)
AccountArrives(r) == Arrives("account", r)

-----------------------------------------------------------------------------
(* The loans and markets, as the server reads them when it answers, and the   *)
(* feed of the book selected.                                                  *)

GetLoansView == snapshots
LoansArrive ==
  loanViews' = GetLoansView /\ UNCHANGED <<serverVars, marketVars, listVars, walletVars, feedVars>>

(* The effect on the selection and the markets: the socket is closed and       *)
(* another opened, while what the feed has scheduled stays so.                 *)
SubscribeBookFeed ==
  /\ feedStatus' = IF SelectedBook'.book # None THEN "connecting" ELSE "idle"
  /\ UNCHANGED refreshScheduled

PollLeavesBook == UNCHANGED listVars     \* slip: the book's effect does not depend on the markets
RefetchOnPoll == Fetch(SelectedBook')

GetMarketsView == marketConfig

SelectFirstMarket ==
  IF selectedOutcome = None /\ GetMarketsView # None THEN CHOOSE k \in Books : TRUE
  ELSE selectedOutcome

(* The markets are a new array on every answer, equal or not: the effects on   *)
(* them run again.  Of a fresh page the first market's YES book is selected.   *)
MarketsArrive ==
  /\ marketConfigView' = GetMarketsView
  /\ selectedOutcome' = SelectFirstMarket
  /\ RefetchOnPoll /\ SubscribeBookFeed
  /\ UNCHANGED <<serverVars, loanViews, walletVars>>

SelectOutcome(k) ==
  /\ selectedOutcome # None /\ k # selectedOutcome /\ Change
  /\ selectedOutcome' = k /\ UNCHANGED marketConfigView
  /\ Fetch(SelectedBook') /\ SubscribeBookFeed
  /\ UNCHANGED <<dbVars, chainVars, holdings, syncVars, loanViews, walletVars>>

(* The socket opens, or fails and is opened again after 1.5 seconds.           *)
FeedConnects ==
  /\ feedStatus # "idle" /\ feedStatus' \in {"connecting", "connected", "error"}
  /\ UNCHANGED <<serverVars, loanViews, marketVars, listVars, walletVars, refreshScheduled>>

(* Books and trades make the page ask for the book again; an announcement      *)
(* about the market is a message it does not know.                             *)
OnMessage(known) ==
  /\ feedStatus \in {"connected", "error"}
  /\ IF known THEN refreshScheduled' = TRUE /\ UNCHANGED feedStatus
              ELSE feedStatus' = "error" /\ UNCHANGED refreshScheduled
  /\ UNCHANGED <<serverVars, loanViews, marketVars, listVars, walletVars>>

RefreshBook ==
  /\ refreshScheduled /\ refreshScheduled' = FALSE
  /\ Fetch(SelectedBook)
  /\ UNCHANGED <<serverVars, loanViews, marketVars, walletVars, feedStatus>>

-----------------------------------------------------------------------------
(* The wallet. *)

ConnectWallet(w) ==
  /\ w # walletAccount /\ Change
  /\ walletAccount' = w /\ ownHoldings' = holdings
  /\ Fetch(SelectedAccount')
  /\ UNCHANGED <<dbVars, chainVars, holdings, syncVars, loanViews, marketVars, feedVars>>
DisconnectWallet == ConnectWallet(None)

(* A transaction of the wallet has succeeded, or an order or cancellation was  *)
(* accepted; some of the forms ask for the book as well.                       *)
OwnTransaction ==
  /\ walletAccount # None /\ Change
  /\ holdings' = holdings + 1 /\ ownHoldings' = holdings + 1 /\ UNCHANGED walletAccount
  /\ \/ Fetch(SelectedAccount)
     \/ Fetch([account |-> walletAccount, book |-> SelectedBook.book])
  /\ UNCHANGED <<dbVars, chainVars, syncVars, loanViews, marketVars, feedVars>>

RefreshAll ==
  /\ Fetch([account |-> walletAccount, book |-> SelectedBook.book])
  /\ UNCHANGED <<serverVars, loanViews, marketVars, walletVars, feedVars>>

-----------------------------------------------------------------------------
OthersNext ==
  \/ \E k \in Books : ChangeBook(k)
  \/ ChangeMarketConfig \/ CreateLoan \/ ChangeHoldings
  \/ \E l \in Loans, part \in {"loan", "deposited"} : ChangeLoan(l, part)

PageNext ==
  \/ LoansArrive \/ MarketsArrive \/ FeedConnects \/ RefreshBook
  \/ DisconnectWallet \/ OwnTransaction \/ RefreshAll
  \/ \E w \in Wallets : ConnectWallet(w)
  \/ \E k \in Books : SelectOutcome(k)
  \/ \E r \in requests["book"] : GetBookView(r) \/ BookArrives(r)
  \/ \E r \in requests["account"] : ReadAccountViews(r) \/ AccountArrives(r)
  \/ \E known \in BOOLEAN : OnMessage(known)

Next == OthersNext \/ GetLoanChainView \/ SyncLoanSnapshot \/ PageNext

(* The timers fire and requests are answered; the feed may be down for good.   *)
(* Polls are 15 seconds apart, messages of the feed follow changes, and users  *)
(* tire of the refresh button: now and then the server answers a request       *)
(* before another cancels it.  The poll of the markets is strongly fair as     *)
(* MaxRequests may disable it.                                                 *)
LiveRead(list) == \E r \in requests[list] : ~r.cancelled /\ ReadView(list, r)
LiveArrives(list) == \E r \in requests[list] : ~r.cancelled /\ Arrives(list, r)
LateArrives(list) ==
  \E r \in requests[list] : r.cancelled /\ (ReadView(list, r) \/ Arrives(list, r))

PageSpec ==
  /\ Init /\ [][Next]_allVars
  /\ WF_allVars(GetLoanChainView) /\ WF_allVars(SyncLoanSnapshot)
  /\ WF_allVars(LoansArrive) /\ SF_allVars(MarketsArrive)
  /\ \A list \in Lists :
       SF_allVars(LiveRead(list)) /\ SF_allVars(LiveArrives(list)) /\ WF_allVars(LateArrives(list))

-----------------------------------------------------------------------------
(* A book that is shown as loaded is the selected one, and an account that is  *)
(* shown as loaded is the connected one, however late and in whatever order    *)
(* requests are answered.                                                      *)
PageShowsSelection ==
  /\ shown["book"].status = "loaded" => shown["book"].key = selectedOutcome
  /\ shown["account"].status = "loaded" => shown["account"].key = walletAccount

Recent(l) == l < nextLoanId /\ nextLoanId - l <= SyncLimit

Shown ==
  /\ \A l \in Loans : Recent(l) => loanViews[l] = chainLoans[l]
  /\ marketConfigView = marketConfig
  /\ marketConfig # None =>
       shown["book"].key = selectedOutcome /\ shown["book"].version = book[selectedOutcome]
  /\ walletAccount # None =>
       shown["account"].key = walletAccount /\ shown["account"].version >= ownHoldings

(* Once nothing changes any more the page comes to show, and keeps showing,    *)
(* the loans that a sync batch reaches, the market and the book selected, even *)
(* if nobody publishes the changes and the feed is down: every answer about    *)
(* the markets makes the page ask for the book as well.  Of the wallet it      *)
(* shows what its own transactions have done.                                  *)
EverythingShown == <>[]Shown

=============================================================================
