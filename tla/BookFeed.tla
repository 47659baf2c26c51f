------------------------------- MODULE BookFeed -----------------------------
(***************************************************************************)
(* The WebSocket feed of one market's order books (backend/src/clob/api/   *)
(* bookFeedPublisher.ts, webSocketFeed.ts) and the market's configuration  *)
(* with the table of events that announces its changes (db/marketConfigs.  *)
(* ts, db/marketConfigEvents.ts, marketConfigEventLoop.ts).                *)
(*                                                                         *)
(* A publication takes its sequence number, then waits for the database,   *)
(* and continues when the book has been loaded: others may load, continue, *)
(* subscribe and close in between, so messages are sent in an order that   *)
(* is not that of their numbers, and to the Set of sockets that was in the *)
(* publisher's map when the publication began, which may have been dropped *)
(* from the map since.                                                     *)
(*                                                                         *)
(* A book is what is on sale at each price; how orders make it is the      *)
(* matter of OrderEntry, here it changes at will.  Replica is a client as  *)
(* docs/clob-matching-spec.md describes one: it keeps the book by applying *)
(* what it receives.  The page of PageState uses messages as a hint only.  *)
(* A socket delivers in order, so a message is applied as it is sent.      *)
(***************************************************************************)
EXTENDS Integers, Sequences, FiniteSets, Functions

CONSTANTS
  Books,              \* the outcomes of the market
  Prices,
  Clients, Replica,   \* the clients of the feed, and the one looked at
  None,
  MaxSequence,        \* bound: numbers given to messages
  MaxChanges          \* bound: changes of a book or of the configuration

ASSUME FeedAssumption == Replica \in Clients /\ MaxSequence \in Nat /\ MaxChanges \in Nat

VARIABLES
  book,               \* the book that the live orders of the database make
  marketConfig,       \* row of market_configs
  configEvents,       \* rows of market_config_events not yet processed
  changes,            \* changes so far
  sequences,          \* number of the last message of a book
  lastSnapshots,      \* what deltas are computed from
  subscriberSet,      \* name of the Set of a book in the map
  subscribed,         \* the Set a client's socket is in
  publications,       \* publications that wait for the database
  replica             \* what the replica has made of its messages

Levels == [Prices -> {0, 1}]

dbVars == <<book, marketConfig, configEvents, changes>>
publisherVars == <<sequences, lastSnapshots, subscriberSet, subscribed, publications>>
feedVars == <<dbVars, publisherVars, replica>>

NewReplica == [levels |-> None, from |-> 0, received |-> {}]

FeedInit ==
  /\ book = [k \in Books |-> [p \in Prices |-> 0]]
  /\ marketConfig = [clobEnabled |-> TRUE, ticks |-> 0] /\ configEvents = <<>> /\ changes = 0
  /\ sequences = [k \in Books |-> 0] /\ lastSnapshots = [k \in Books |-> None]
  /\ subscriberSet = [k \in Books |-> 0]
  /\ subscribed = [c \in Clients |-> None]
  /\ publications = {} /\ replica = NewReplica

-----------------------------------------------------------------------------
(* What there is to show changes. *)

Change == changes < MaxChanges /\ changes' = changes + 1

ChangeBook(k, p) ==
  /\ Change
  /\ book' = [book EXCEPT ![k][p] = 1 - @]
  /\ UNCHANGED <<marketConfig, configEvents, publisherVars, replica>>

(* The row and the event that announces it are written in one transaction.     *)
UpdateMarketTickConfig ==
  /\ Change
  /\ marketConfig' = [marketConfig EXCEPT !.ticks = 1 - @]
  /\ configEvents' = Append(configEvents, "TICK_SIZE_CHANGE")
  /\ UNCHANGED <<book, publisherVars, replica>>

SetMarketClobEnabled(enabled) ==
  /\ marketConfig.clobEnabled # enabled /\ Change
  /\ marketConfig' = [marketConfig EXCEPT !.clobEnabled = enabled]
  /\ configEvents' = Append(configEvents, IF enabled THEN "MARKET_OPENED" ELSE "MARKET_CLOSED")
  /\ UNCHANGED <<book, publisherVars, replica>>

CloseMarketConfig == SetMarketClobEnabled(FALSE)
OpenMarketConfig == SetMarketClobEnabled(TRUE)

-----------------------------------------------------------------------------
(* The publisher. *)

In(k, set) == [key |-> k, set |-> set]
Subscribers(k, set) == {c \in Clients : subscribed[c] = In(k, set)}

NextSequence(k) == sequences[k] + 1
NumbersLeft(n) ==      \* the bound, with room for publications that wait
  FoldFunction(+, 0, sequences) + n + Cardinality(publications) <= MaxSequence

Publication(kind, k, set, sequence) ==
  [kind |-> kind, key |-> k, set |-> set, sequence |-> sequence, levels |-> None]

(* handleMessage of a subscribe message: the socket joins, and a snapshot for  *)
(* everybody in its Set is under way.                                          *)
Subscribe(c, k) ==
  /\ subscribed[c] = None /\ NumbersLeft(2)
  /\ subscribed' = [subscribed EXCEPT ![c] = In(k, subscriberSet[k])]
  /\ sequences' = [sequences EXCEPT ![k] = NextSequence(k)]
  /\ publications' = publications \cup
       {Publication("book_snapshot", k, subscriberSet[k], NextSequence(k))}
  /\ replica' = IF c = Replica THEN NewReplica ELSE replica
  /\ UNCHANGED <<dbVars, lastSnapshots, subscriberSet>>

(* The socket closes; a Set that has become empty is dropped from the map, and *)
(* the next subscriber begins another.                                         *)
Leave(c) ==
  /\ subscribed[c] # None
  /\ subscribed' = [subscribed EXCEPT ![c] = None]
  /\ subscriberSet' =
       LET k == subscribed[c].key
           set == subscribed[c].set
       IN IF set = subscriberSet[k] /\ Subscribers(k, set) = {c}
          THEN [subscriberSet EXCEPT ![k] = @ + 1] ELSE subscriberSet
  /\ replica' = IF c = Replica THEN NewReplica ELSE replica
  /\ UNCHANGED <<dbVars, sequences, lastSnapshots, publications>>

(* After a change that publishes; the changes of the receipt sweep do not.     *)
PublishBookUpdate(k) ==
  /\ Subscribers(k, subscriberSet[k]) # {} /\ NumbersLeft(2)
  /\ sequences' = [sequences EXCEPT ![k] = NextSequence(k)]
  /\ publications' = publications \cup
       {Publication("book_update", k, subscriberSet[k], NextSequence(k))}
  /\ UNCHANGED <<dbVars, lastSnapshots, subscriberSet, subscribed, replica>>

LoadBookSnapshot(t) ==
  /\ t.levels = None
  /\ publications' = (publications \ {t}) \cup {[t EXCEPT !.levels = book[t.key]]}
  /\ UNCHANGED <<dbVars, sequences, lastSnapshots, subscriberSet, subscribed, replica>>

DiffPriceLevels(previous, current) ==
  [p \in {q \in Prices : previous[q] # current[q]} |-> current[p]]
Apply(levels, delta) ==
  [p \in Prices |-> IF p \in DOMAIN delta THEN delta[p] ELSE levels[p]]

(* A replica starts over with a snapshot, and has nothing to apply a delta to  *)
(* before the first.                                                           *)
Receive(t, numbers) ==
  LET previous == lastSnapshots[t.key]
      received == replica.received \cup numbers
  IN
  IF t.kind = "book_snapshot" \/ previous = None
  THEN [levels |-> t.levels, from |-> t.sequence, received |-> received]
  ELSE [replica EXCEPT
         !.received = received,
         !.levels = IF @ = None THEN None
                    ELSE Apply(@, DiffPriceLevels(previous, t.levels))]

(* The best prices go out under a number of their own, taken now.              *)
SharedSequence(k) == sequences[k]     \* slip: the last number again
BestBidAskSequence(k) == NextSequence(k)

Continue(t) ==
  /\ t.levels # None
  /\ publications' = publications \ {t}
  /\ lastSnapshots' = [lastSnapshots EXCEPT ![t.key] = t.levels]
  /\ sequences' = [sequences EXCEPT ![t.key] = BestBidAskSequence(t.key)]
  /\ replica' = IF subscribed[Replica] = In(t.key, t.set)
                THEN Receive(t, {t.sequence, BestBidAskSequence(t.key)}) ELSE replica
  /\ UNCHANGED <<dbVars, subscriberSet, subscribed>>

(* publishTrade, at once. *)
PublishTrade(k) ==
  /\ Subscribers(k, subscriberSet[k]) # {} /\ NumbersLeft(1)
  /\ sequences' = [sequences EXCEPT ![k] = NextSequence(k)]
  /\ replica' = IF subscribed[Replica] = In(k, subscriberSet[k])
                THEN [replica EXCEPT !.received = @ \cup {NextSequence(k)}] ELSE replica
  /\ UNCHANGED <<dbVars, lastSnapshots, subscriberSet, subscribed, publications>>

(* The sweep announces the oldest event to every book that has subscribers and *)
(* marks it processed; a transaction that fails then announces it again.       *)
SweepMarketConfigEvent(commits) ==
  LET live == {k \in Books : Subscribers(k, subscriberSet[k]) # {}} IN
  /\ configEvents # <<>> /\ NumbersLeft(Cardinality(live))
  /\ commits \/ live # {}
  /\ configEvents' = IF commits THEN Tail(configEvents) ELSE configEvents
  /\ sequences' = [k \in Books |-> IF k \in live THEN NextSequence(k) ELSE sequences[k]]
  /\ replica' = IF \E k \in live : subscribed[Replica] = In(k, subscriberSet[k])
                THEN [replica EXCEPT !.received = @ \cup {NextSequence(subscribed[Replica].key)}]
                ELSE replica
  /\ UNCHANGED <<book, marketConfig, changes, lastSnapshots, subscriberSet, subscribed,
                 publications>>

FeedNext ==
  \/ \E k \in Books, p \in Prices : ChangeBook(k, p)
  \/ UpdateMarketTickConfig \/ CloseMarketConfig \/ OpenMarketConfig
  \/ \E k \in Books : PublishBookUpdate(k) \/ PublishTrade(k)
  \/ \E c \in Clients : Leave(c) \/ \E k \in Books : Subscribe(c, k)
  \/ \E t \in publications : LoadBookSnapshot(t) \/ Continue(t)
  \/ \E commits \in BOOLEAN : SweepMarketConfigEvent(commits)

FeedSpec == FeedInit /\ [][FeedNext]_feedVars

-----------------------------------------------------------------------------
(* A client that has received every number from that of its snapshot up to the *)
(* last one given out has the book the publisher last loaded.  Numbers are     *)
(* taken before the database is asked, deltas are computed after, and a socket *)
(* may be in a Set that a publication under way does not know: what a client   *)
(* has missed shows as a gap, and what it gets out of order does no harm.      *)
ReplicaFollowsPublisher ==
  LET s == subscribed[Replica] IN
  s # None /\ replica.levels # None =>
    (replica.from .. sequences[s.key] \subseteq replica.received
       => replica.levels = lastSnapshots[s.key])

=============================================================================
