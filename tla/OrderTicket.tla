----------------------------- MODULE OrderTicket ----------------------------
(***************************************************************************)
(* The order ticket of the page (frontend/src/components/exchange/         *)
(* OrderTicket.tsx with lib/preflight.ts, lib/mappers.ts, orderSigning.ts):*)
(* what it lets the user sign.  The rules of admission are written in it a *)
(* second time, over the views that the API serves and the balances the    *)
(* wallet's provider reads, both taken to be those of the moment.          *)
(*                                                                         *)
(* An order of Signed is what is typed; the hash, the nonce and the        *)
(* signature of it are left out.  "wallet" is the smaller of balance and   *)
(* allowance, and nothing while the exchange is not approved for tokens;   *)
(* the ticket tests the two one after the other, which comes to the same.  *)
(***************************************************************************)
EXTENDS OrderEntry

CONSTANT LoanBooks     \* books of the markets that loans opened

ASSUME LoanBooksAssumption == LoanBooks \subseteq Books

(* toPredictionMarket.  The market of a loan has the state of the loan, which  *)
(* is that of its market on the chain (LoanMarketAgree), whether orders are    *)
(* taken for it or not; of another the page knows only whether they are.       *)
MarketState(book) ==
  IF book \in LoanBooks THEN marketState[book]
  ELSE IF Config[book].clobEnabled THEN "Active" ELSE "Proto"

TickUnitsInside(price, config) ==     \* slip: a price at the edge is not an edge price
  IF price < config.lowerEdge \/ price > config.upperEdge
  THEN config.edgeTick ELSE config.defaultTick
GetMarketTickUnits(price, config) ==
  IF price <= config.lowerEdge \/ price >= config.upperEdge
  THEN config.edgeTick ELSE config.defaultTick

(* previewOrderAmounts: the amount of USDC that is signed; none unless exact.  *)
HasPreview(h) ==
  /\ Signed[h].price > 0 /\ UsdcAmountExact(Signed[h].price, Signed[h].outcomeAmount)
  /\ Signed[h].usdcAmount = DeriveUsdcAmount(Signed[h].price, Signed[h].outcomeAmount)

InputFits ==
  {h \in Tickets :
     LET config == Config[Signed[h].book]
     IN /\ HasPreview(h)
        /\ Signed[h].price % GetMarketTickUnits(Signed[h].price, config) = 0
        /\ Signed[h].outcomeAmount \in config.minOrder .. config.maxOrder}

(* What is typed and the market; balances come after. *)
NoOrderInputPreflightError(h) == MarketState(Signed[h].book) = "Active" /\ h \in InputFits

NoOrderPreflightError(h) ==
  wallet[ReservationKeyOf(h)] >=
    IF Signed[h].side = "BUY" THEN Signed[h].usdcAmount ELSE Signed[h].outcomeAmount

(* The button that signs and submits. *)
CanSign(h) == NoOrderInputPreflightError(h) /\ NoOrderPreflightError(h)

-----------------------------------------------------------------------------
(* A new order is signed with an expiration that is yet to come and a nonce    *)
(* of its own.                                                                 *)
New(h) == h \notin DOMAIN orders /\ now <= Signed[h].expiration

Reserved(h) == GetReservation(reservations, ReservationKeyOf(h))

(* What the server would admit the ticket lets the user sign, in every state   *)
(* of the market; and what it lets him sign the server admits, but for three   *)
(* things the ticket does not look at: what is reserved for his other orders,  *)
(* the switch clobEnabled of the market of a loan, and the state on the chain  *)
(* of a market without a loan.                                                 *)
TicketAgreesWithAdmission ==
  \A h \in {g \in Tickets : New(g)} :
    LET book == Signed[h].book
        admitted == PassesChecks(h) /\ wallet[ReservationKeyOf(h)] - Reserved(h) >= ReservationAmount(h)
        unseen == \/ Reserved(h) # 0
                  \/ book \in LoanBooks /\ ~Config[book].clobEnabled
                  \/ book \notin LoanBooks /\ ~IsOutcomeMarketActive(book)
    IN (admitted => CanSign(h)) /\ (CanSign(h) /\ ~unseen => admitted)
=============================================================================
