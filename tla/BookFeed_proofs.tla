--------------------------- MODULE BookFeed_proofs --------------------------
(***************************************************************************)
(* A client of the feed that has missed nothing has the publisher's book,  *)
(* for every number of books, prices and clients and every bound.          *)
(*                                                                         *)
(* What is received does not say it: a message that the client has missed  *)
(* must be one it will never receive, else the gap would close behind it.  *)
(* Such a number is Lost: given out, not received and not of a publication *)
(* that is still under way.  FeedInv says that a client whose book is not  *)
(* the publisher's has lost a number since its snapshot.                   *)
(***************************************************************************)
EXTENDS BookFeed, TLAPS

BookOrNone == Levels \cup {None}
Publications ==
  [kind : {"book_snapshot", "book_update"}, key : Books, set : Nat, sequence : Nat,
   levels : BookOrNone]

FeedTypes ==
  /\ book \in [Books -> Levels]
  /\ sequences \in [Books -> Nat]
  /\ lastSnapshots \in [Books -> BookOrNone]
  /\ subscriberSet \in [Books -> Nat]
  /\ subscribed \in [Clients -> [key : Books, set : Nat] \cup {None}]
  /\ publications \subseteq Publications
  /\ replica \in [levels : BookOrNone, from : Nat, received : SUBSET Nat]

(* A publication under way has a number that was given out. *)
NumbersGivenOut == \A t \in publications : t.sequence <= sequences[t.key]

(* So has what the client has received of its book. *)
ReceivedGivenOut ==
  subscribed[Replica] # None =>
    /\ replica.from <= sequences[subscribed[Replica].key]
    /\ \A n \in replica.received : n <= sequences[subscribed[Replica].key]

Lost(k, n) ==
  /\ n \notin replica.received
  /\ \A t \in publications : t.key = k => t.sequence # n

FollowsOrLost ==
  subscribed[Replica] # None /\ replica.levels # None =>
    LET k == subscribed[Replica].key IN
    replica.levels = lastSnapshots[k] \/ \E n \in replica.from .. sequences[k] : Lost(k, n)

FeedInv == FeedTypes /\ NumbersGivenOut /\ ReceivedGivenOut /\ FollowsOrLost

-----------------------------------------------------------------------------
LEMMA InitFollows ==
  ASSUME FeedInit
  PROVE  FeedInv
<1>1. Replica \in Clients
  BY FeedAssumption
<1>2. [p \in Prices |-> 0] \in Levels
  BY DEF Levels
<1>3. subscribed[Replica] = None
  BY <1>1 DEF FeedInit
<1>4. FeedTypes
  BY <1>2 DEF FeedTypes, FeedInit, NewReplica, BookOrNone
<1>5. QED
  BY <1>3, <1>4
  DEF FeedInv, NumbersGivenOut, ReceivedGivenOut, FollowsOrLost, FeedInit

(* What leaves the publisher and the replica alone. *)
LEMMA QuietFeedStep ==
  ASSUME FeedInv, UNCHANGED <<publisherVars, replica>>, book' \in [Books -> Levels]
  PROVE  FeedInv'
BY DEF FeedInv, FeedTypes, NumbersGivenOut, ReceivedGivenOut, FollowsOrLost, Lost, publisherVars

LEMMA ChangeBookStep ==
  ASSUME FeedInv, NEW k \in Books, NEW p \in Prices, ChangeBook(k, p)
  PROVE  FeedInv'
<1>1. book[k] \in Levels
  BY DEF FeedInv, FeedTypes
<1>2. [book[k] EXCEPT ![p] = 1 - @] \in Levels
  BY <1>1 DEF Levels
<1>3. book' \in [Books -> Levels]
  BY <1>2 DEF ChangeBook, FeedInv, FeedTypes
<1>4. QED
  BY <1>3, QuietFeedStep DEF ChangeBook

-----------------------------------------------------------------------------
(* A publication that begins has a number nobody has received: it is not lost. *)
LEMMA BeginPublication ==
  ASSUME FeedInv, NEW k \in Books, NEW kind \in {"book_snapshot", "book_update"},
         sequences' = [sequences EXCEPT ![k] = NextSequence(k)],
         publications' = publications \cup
           {Publication(kind, k, subscriberSet[k], NextSequence(k))},
         UNCHANGED <<book, lastSnapshots, subscriberSet>>,
         subscribed' \in [Clients -> [key : Books, set : Nat] \cup {None}],
         \/ UNCHANGED replica /\ subscribed'[Replica] = subscribed[Replica]
         \/ replica' = NewReplica
  PROVE  FeedInv'
<1>1. sequences[k] \in Nat /\ subscriberSet[k] \in Nat
  BY DEF FeedInv, FeedTypes
<1>2. sequences' \in [Books -> Nat]
  BY <1>1 DEF FeedInv, FeedTypes, NextSequence
<1>3. \A h \in Books : sequences[h] \in Nat /\ sequences[h] <= sequences'[h]
  BY <1>1 DEF FeedInv, FeedTypes, NextSequence
<1>4. Publication(kind, k, subscriberSet[k], NextSequence(k)) \in Publications
  BY <1>1 DEF Publication, Publications, NextSequence, BookOrNone
<1>5. NewReplica \in [levels : BookOrNone, from : Nat, received : SUBSET Nat]
  BY DEF NewReplica, BookOrNone
<1>6. FeedTypes'
  BY <1>2, <1>4, <1>5 DEF FeedInv, FeedTypes
<1>7. NumbersGivenOut'
  <2>1. ASSUME NEW t \in publications PROVE t.sequence <= sequences'[t.key]
    <3>1. t.key \in Books /\ t.sequence \in Nat /\ t.sequence <= sequences[t.key]
      BY DEF FeedInv, FeedTypes, Publications, NumbersGivenOut
    <3>2. QED
      BY <1>2, <1>3, <3>1
  <2>2. sequences'[k] = NextSequence(k)
    BY DEF FeedInv, FeedTypes
  <2>3. QED
    BY <1>1, <2>1, <2>2 DEF NumbersGivenOut, Publication, NextSequence
<1>8. ReceivedGivenOut' /\ FollowsOrLost'
  <2>1. CASE replica' = NewReplica
    <3>1. subscribed'[Replica] # None => subscribed'[Replica].key \in Books
      BY FeedAssumption
    <3>2. QED
      BY <1>2, <2>1, <3>1 DEF ReceivedGivenOut, FollowsOrLost, NewReplica
  <2>2. CASE UNCHANGED replica /\ subscribed'[Replica] = subscribed[Replica]
    <3>1. SUFFICES ASSUME subscribed[Replica] # None
                   PROVE  ReceivedGivenOut' /\ FollowsOrLost'
      BY <2>2 DEF ReceivedGivenOut, FollowsOrLost
    <3> DEFINE h == subscribed[Replica].key
    <3>2. h \in Books
      BY <3>1, FeedAssumption DEF FeedInv, FeedTypes
    <3>3. replica.from \in Nat /\ replica.received \subseteq Nat
      BY DEF FeedInv, FeedTypes
    <3>4. ReceivedGivenOut'
      BY <1>2, <1>3, <2>2, <3>1, <3>2, <3>3 DEF FeedInv, ReceivedGivenOut
    <3>5. ASSUME NEW n \in replica.from .. sequences[h], Lost(h, n)
          PROVE  n \in replica'.from .. sequences'[h] /\ Lost(h, n)'
      <4>1. n \in replica'.from .. sequences'[h]
        BY <1>2, <1>3, <2>2, <3>2, <3>3
      <4>2. h = k => n # NextSequence(k)
        BY <1>1, <3>3 DEF NextSequence
      <4>3. \A t \in publications' : t.key = h => t.sequence # n
        BY <3>5, <4>2 DEF Lost, Publication
      <4>4. QED
        BY <2>2, <3>5, <4>1, <4>3 DEF Lost
    <3>6. FollowsOrLost'
      BY <2>2, <3>1, <3>5 DEF FeedInv, FollowsOrLost
    <3>7. QED
      BY <3>4, <3>6
  <2>3. QED
    BY <2>1, <2>2
<1>9. QED
  BY <1>6, <1>7, <1>8 DEF FeedInv

LEMMA SubscribeStep ==
  ASSUME FeedInv, NEW c \in Clients, NEW k \in Books, Subscribe(c, k)
  PROVE  FeedInv'
<1>1. In(k, subscriberSet[k]) \in [key : Books, set : Nat]
  BY DEF In, FeedInv, FeedTypes
<1>2. subscribed' \in [Clients -> [key : Books, set : Nat] \cup {None}]
  BY <1>1 DEF Subscribe, FeedInv, FeedTypes
<1>3. \/ UNCHANGED replica /\ subscribed'[Replica] = subscribed[Replica]
      \/ replica' = NewReplica
  BY FeedAssumption DEF Subscribe, FeedInv, FeedTypes
<1>4. QED
  BY <1>2, <1>3, BeginPublication DEF Subscribe, dbVars

LEMMA PublishBookUpdateStep ==
  ASSUME FeedInv, NEW k \in Books, PublishBookUpdate(k)
  PROVE  FeedInv'
<1>1. subscribed' \in [Clients -> [key : Books, set : Nat] \cup {None}]
  BY DEF PublishBookUpdate, FeedInv, FeedTypes
<1>2. QED
  BY <1>1, BeginPublication DEF PublishBookUpdate, dbVars

LEMMA LeaveStep ==
  ASSUME FeedInv, NEW c \in Clients, Leave(c)
  PROVE  FeedInv'
<1>1. subscribed[c] \in [key : Books, set : Nat]
  BY DEF Leave, FeedInv, FeedTypes
<1>2. subscriberSet' \in [Books -> Nat]
  BY <1>1 DEF Leave, FeedInv, FeedTypes
<1>3. subscribed' \in [Clients -> [key : Books, set : Nat] \cup {None}]
  BY DEF Leave, FeedInv, FeedTypes
<1>4. NewReplica \in [levels : BookOrNone, from : Nat, received : SUBSET Nat]
  BY DEF NewReplica, BookOrNone
<1>5. UNCHANGED <<book, sequences, lastSnapshots, publications>>
  BY DEF Leave, dbVars
<1>6. FeedTypes'
  BY <1>2, <1>3, <1>4, <1>5 DEF Leave, FeedInv, FeedTypes
<1>7. NumbersGivenOut'
  BY <1>5 DEF FeedInv, NumbersGivenOut
<1>8. ReceivedGivenOut' /\ FollowsOrLost'
  <2>1. CASE c = Replica
    BY <2>1, FeedAssumption
    DEF Leave, FeedInv, FeedTypes, ReceivedGivenOut, FollowsOrLost
  <2>2. CASE c # Replica
    <3>1. subscribed'[Replica] = subscribed[Replica] /\ replica' = replica
      BY <2>2, FeedAssumption DEF Leave, FeedInv, FeedTypes
    <3>2. QED
      BY <1>5, <3>1 DEF FeedInv, ReceivedGivenOut, FollowsOrLost, Lost
  <2>3. QED
    BY <2>1, <2>2
<1>9. QED
  BY <1>6, <1>7, <1>8 DEF FeedInv

LEMMA LoadBookSnapshotStep ==
  ASSUME FeedInv, NEW t \in publications, LoadBookSnapshot(t)
  PROVE  FeedInv'
<1> DEFINE loaded == [t EXCEPT !.levels = book[t.key]]
<1>1. t \in Publications /\ book[t.key] \in Levels
  BY DEF FeedInv, FeedTypes, Publications
<1>2. loaded \in Publications /\ loaded.key = t.key /\ loaded.sequence = t.sequence
  BY <1>1 DEF Publications, BookOrNone
<1>3. publications' = (publications \ {t}) \cup {loaded}
  BY DEF LoadBookSnapshot
<1>4. UNCHANGED <<book, sequences, lastSnapshots, subscriberSet, subscribed, replica>>
  BY DEF LoadBookSnapshot, dbVars
<1> HIDE DEF loaded
<1>5. FeedTypes' /\ NumbersGivenOut' /\ ReceivedGivenOut'
  BY <1>2, <1>3, <1>4 DEF FeedInv, FeedTypes, NumbersGivenOut, ReceivedGivenOut
<1>6. \A k, n : Lost(k, n) => Lost(k, n)'
  BY <1>2, <1>3, <1>4 DEF Lost
<1>7. FollowsOrLost'
  BY <1>4, <1>6 DEF FeedInv, FollowsOrLost
<1>8. QED
  BY <1>5, <1>7 DEF FeedInv

-----------------------------------------------------------------------------
(* A message sent at once takes the next number; a lost number stays lost.     *)
LEMMA SendAtOnce ==
  ASSUME FeedInv,
         sequences' \in [Books -> Nat],
         \A h \in Books : sequences[h] <= sequences'[h],
         UNCHANGED <<book, lastSnapshots, subscriberSet, subscribed, publications>>,
         \/ UNCHANGED replica
         \/ \E k \in Books :
              /\ subscribed[Replica].key = k
              /\ sequences'[k] = NextSequence(k)
              /\ replica' = [replica EXCEPT !.received = @ \cup {NextSequence(k)}]
  PROVE  FeedInv'
<1>1. sequences \in [Books -> Nat]
  BY DEF FeedInv, FeedTypes
<1>2. /\ replica \in [levels : BookOrNone, from : Nat, received : SUBSET Nat]
      /\ replica' \in [levels : BookOrNone, from : Nat, received : SUBSET Nat]
      /\ replica'.from = replica.from /\ replica'.levels = replica.levels
  BY <1>1 DEF FeedInv, FeedTypes, NextSequence
<1>3. FeedTypes'
  BY <1>2 DEF FeedInv, FeedTypes
<1>4. NumbersGivenOut'
  <2>1. ASSUME NEW t \in publications PROVE t.sequence <= sequences'[t.key]
    <3>1. t.key \in Books /\ t.sequence \in Nat /\ t.sequence <= sequences[t.key]
      BY DEF FeedInv, FeedTypes, Publications, NumbersGivenOut
    <3>2. QED
      BY <1>1, <3>1
  <2>2. QED
    BY <2>1 DEF NumbersGivenOut
<1>5. ASSUME subscribed[Replica] # None
      PROVE  ReceivedGivenOut' /\ FollowsOrLost'
  <2> DEFINE h == subscribed[Replica].key
  <2>1. h \in Books
    BY <1>5, FeedAssumption DEF FeedInv, FeedTypes
  <2>2. sequences[h] \in Nat /\ sequences'[h] \in Nat /\ sequences[h] <= sequences'[h]
    BY <1>1, <2>1
  <2>3. \A n \in replica'.received :
          n \in replica.received \/ (n = sequences[h] + 1 /\ n = sequences'[h])
    BY <1>2 DEF NextSequence
  <2>4. replica.from <= sequences[h] /\ \A n \in replica.received : n <= sequences[h]
    BY <1>5 DEF FeedInv, ReceivedGivenOut
  <2>5. ReceivedGivenOut'
    <3>1. replica'.from <= sequences'[h]
      BY <1>2, <2>2, <2>4
    <3>2. \A n \in replica'.received : n <= sequences'[h]
      BY <1>2, <2>2, <2>3, <2>4
    <3>3. QED
      BY <3>1, <3>2 DEF ReceivedGivenOut
  <2>6. ASSUME NEW n \in replica.from .. sequences[h], Lost(h, n)
        PROVE  n \in replica'.from .. sequences'[h] /\ Lost(h, n)'
    <3>1. n \in replica'.from .. sequences'[h] /\ n # sequences[h] + 1
      BY <1>2, <2>2
    <3>2. n \notin replica'.received
      BY <2>3, <2>6, <3>1 DEF Lost
    <3>3. QED
      BY <2>6, <3>1, <3>2 DEF Lost
  <2>7. FollowsOrLost'
    BY <1>2, <1>5, <2>6 DEF FeedInv, FollowsOrLost
  <2>8. QED
    BY <2>5, <2>7
<1>6. ReceivedGivenOut' /\ FollowsOrLost'
  BY <1>5 DEF ReceivedGivenOut, FollowsOrLost
<1>7. QED
  BY <1>3, <1>4, <1>6 DEF FeedInv

LEMMA PublishTradeStep ==
  ASSUME FeedInv, NEW k \in Books, PublishTrade(k)
  PROVE  FeedInv'
<1>1. /\ sequences' \in [Books -> Nat] /\ sequences'[k] = NextSequence(k)
      /\ \A h \in Books : sequences[h] <= sequences'[h]
  BY DEF PublishTrade, NextSequence, FeedInv, FeedTypes
<1>2. subscribed[Replica] = In(k, subscriberSet[k]) => subscribed[Replica].key = k
  BY DEF In
<1>3. QED
  BY <1>1, <1>2, SendAtOnce DEF PublishTrade, dbVars

(* Every book with subscribers gets a number; the client's is among them or    *)
(* not, as it is in a Set of the map or not.                                   *)
LEMMA SweepMarketConfigEventStep ==
  ASSUME FeedInv, NEW commits \in BOOLEAN, SweepMarketConfigEvent(commits)
  PROVE  FeedInv'
<1> DEFINE live == {k \in Books : Subscribers(k, subscriberSet[k]) # {}}
<1>1. sequences' = [k \in Books |-> IF k \in live THEN NextSequence(k) ELSE sequences[k]]
  BY DEF SweepMarketConfigEvent
<1>2. /\ sequences' \in [Books -> Nat]
      /\ \A h \in Books : sequences[h] <= sequences'[h]
  BY <1>1 DEF NextSequence, FeedInv, FeedTypes
<1>3. \/ UNCHANGED replica
      \/ \E k \in Books :
           /\ subscribed[Replica].key = k /\ sequences'[k] = NextSequence(k)
           /\ replica' = [replica EXCEPT !.received = @ \cup {NextSequence(k)}]
  <2>1. CASE \E k \in live : subscribed[Replica] = In(k, subscriberSet[k])
    <3>1. PICK k \in live : subscribed[Replica] = In(k, subscriberSet[k])
      BY <2>1
    <3>2. subscribed[Replica].key = k
      BY <3>1 DEF In
    <3>3. replica' = [replica EXCEPT !.received = @ \cup {NextSequence(k)}]
      BY <2>1, <3>2 DEF SweepMarketConfigEvent
    <3>4. QED
      BY <1>1, <3>2, <3>3
  <2>2. CASE ~\E k \in live : subscribed[Replica] = In(k, subscriberSet[k])
    BY <2>2 DEF SweepMarketConfigEvent
  <2>3. QED
    BY <2>1, <2>2
<1>4. UNCHANGED <<book, lastSnapshots, subscriberSet, subscribed, publications>>
  BY DEF SweepMarketConfigEvent
<1> HIDE DEF live
<1>5. QED
  BY <1>2, <1>3, <1>4, SendAtOnce

-----------------------------------------------------------------------------
(* What a delta says of two books is what differs: applied to the first, it    *)
(* gives the second.                                                           *)
LEMMA DeltaApplies ==
  ASSUME NEW previous \in Levels, NEW current \in Levels
  PROVE  Apply(previous, DiffPriceLevels(previous, current)) = current
BY DEF Apply, DiffPriceLevels, Levels

(* A publication that continues is sent to the Set it began with.  If the      *)
(* client is in it, the client either follows or stays without the number it   *)
(* has lost; if it is not, the number of the best prices is lost.              *)
LEMMA ContinueStep ==
  ASSUME FeedInv, NEW t \in publications, Continue(t)
  PROVE  FeedInv'
<1> DEFINE new == sequences[t.key] + 1
<1>1. /\ t \in Publications /\ t.key \in Books /\ t.sequence \in Nat
      /\ t.levels \in BookOrNone /\ t.levels # None
      /\ sequences[t.key] \in Nat /\ t.sequence <= sequences[t.key]
  BY DEF FeedInv, FeedTypes, Publications, NumbersGivenOut, Continue
<1>2. /\ sequences' = [sequences EXCEPT ![t.key] = new]
      /\ lastSnapshots' = [lastSnapshots EXCEPT ![t.key] = t.levels]
      /\ publications' = publications \ {t}
      /\ UNCHANGED <<book, subscriberSet, subscribed>>
  BY DEF Continue, BestBidAskSequence, NextSequence, dbVars
<1>3. /\ sequences' \in [Books -> Nat] /\ sequences'[t.key] = new
      /\ \A h \in Books : sequences[h] \in Nat /\ sequences[h] <= sequences'[h]
      /\ \A h \in Books : h # t.key => sequences'[h] = sequences[h]
  BY <1>1, <1>2 DEF FeedInv, FeedTypes
<1>4. /\ lastSnapshots' \in [Books -> BookOrNone] /\ lastSnapshots'[t.key] = t.levels
      /\ \A h \in Books : h # t.key => lastSnapshots'[h] = lastSnapshots[h]
  BY <1>1, <1>2 DEF FeedInv, FeedTypes
<1>5. replica \in [levels : BookOrNone, from : Nat, received : SUBSET Nat]
  BY DEF FeedInv, FeedTypes
<1>6. replica' = IF subscribed[Replica] = In(t.key, t.set)
                 THEN Receive(t, {t.sequence, new}) ELSE replica
  BY DEF Continue, BestBidAskSequence, NextSequence
<1>7. /\ replica' \in [levels : BookOrNone, from : Nat, received : SUBSET Nat]
      /\ \/ /\ subscribed[Replica] = In(t.key, t.set)
            /\ \/ replica'.levels = t.levels /\ replica'.from = t.sequence
               \/ /\ replica'.from = replica.from
                  /\ replica.levels = None => replica'.levels = None
                  /\ replica.levels = lastSnapshots[t.key] => replica'.levels = t.levels
            /\ replica'.received = replica.received \cup {t.sequence, new}
         \/ subscribed[Replica] # In(t.key, t.set) /\ replica' = replica
  <2>1. CASE /\ subscribed[Replica] = In(t.key, t.set)
             /\ t.kind = "book_snapshot" \/ lastSnapshots[t.key] = None
    <3>1. replica' = [levels |-> t.levels, from |-> t.sequence,
                      received |-> replica.received \cup {t.sequence, new}]
      BY <1>6, <2>1 DEF Receive
    <3>2. {t.sequence, new} \subseteq Nat /\ replica.received \subseteq Nat
      BY <1>1, <1>5
    <3> HIDE DEF new
    <3>3. QED
      BY <1>1, <2>1, <3>1, <3>2
  <2>2. CASE /\ subscribed[Replica] = In(t.key, t.set)
             /\ ~(t.kind = "book_snapshot" \/ lastSnapshots[t.key] = None)
    <3> DEFINE levels == IF replica.levels = None THEN None
                         ELSE Apply(replica.levels, DiffPriceLevels(lastSnapshots[t.key], t.levels))
    <3>1. replica' = [replica EXCEPT !.received = @ \cup {t.sequence, new}, !.levels = levels]
      BY <1>6, <2>2 DEF Receive
    <3>2. {t.sequence, new} \subseteq Nat /\ replica.received \subseteq Nat
      BY <1>1, <1>5
    <3>3. lastSnapshots[t.key] \in Levels /\ t.levels \in Levels
      BY <1>1, <2>2 DEF FeedInv, FeedTypes, BookOrNone
    <3>4. levels \in BookOrNone
      <4>1. CASE replica.levels = None
        BY <4>1 DEF BookOrNone
      <4>2. CASE replica.levels # None
        <5>1. replica.levels \in Levels
          BY <1>5, <4>2 DEF BookOrNone
        <5>2. QED
          BY <3>3, <4>2, <5>1 DEF BookOrNone, Levels, Apply, DiffPriceLevels
      <4>3. QED
        BY <4>1, <4>2
    <3>5. replica.levels = None => levels = None
      OBVIOUS
    <3>6. replica.levels = lastSnapshots[t.key] => levels = t.levels
      BY <2>2, <3>3, DeltaApplies
    <3> HIDE DEF new, levels
    <3>7. QED
      BY <1>5, <2>2, <3>1, <3>2, <3>4, <3>5, <3>6
  <2>3. CASE subscribed[Replica] # In(t.key, t.set)
    BY <1>5, <1>6, <2>3
  <2>4. QED
    BY <2>1, <2>2, <2>3
<1>8. FeedTypes'
  BY <1>2, <1>3, <1>4, <1>7 DEF FeedInv, FeedTypes
<1>9. NumbersGivenOut'
  <2>1. ASSUME NEW u \in publications PROVE u.sequence <= sequences'[u.key]
    <3>1. u.key \in Books /\ u.sequence \in Nat /\ u.sequence <= sequences[u.key]
      BY DEF FeedInv, FeedTypes, Publications, NumbersGivenOut
    <3>2. QED
      BY <1>3, <3>1
  <2>2. QED
    BY <1>2, <2>1 DEF NumbersGivenOut
<1>10. ASSUME subscribed[Replica] # None
       PROVE  ReceivedGivenOut' /\ FollowsOrLost'
  <2> DEFINE h == subscribed[Replica].key
  <2>1. /\ h \in Books /\ subscribed[Replica] \in [key : Books, set : Nat]
        /\ replica.from \in Nat /\ replica.from <= sequences[h]
        /\ \A n \in replica.received : n \in Nat /\ n <= sequences[h]
    BY <1>5, <1>10, FeedAssumption DEF FeedInv, FeedTypes, ReceivedGivenOut
  <2>2. subscribed[Replica] = In(t.key, t.set) => h = t.key
    BY DEF In
  <2>3. ReceivedGivenOut'
    <3>1. replica'.from <= sequences'[h]
      BY <1>1, <1>3, <1>7, <2>1, <2>2
    <3>2. \A n \in replica'.received : n <= sequences'[h]
      BY <1>1, <1>3, <1>7, <2>1, <2>2
    <3>3. QED
      BY <1>2, <3>1, <3>2 DEF ReceivedGivenOut
  <2>4. ASSUME NEW n \in replica.from .. sequences[h], Lost(h, n), replica'.from = replica.from
        PROVE  n \in replica'.from .. sequences'[h] /\ Lost(h, n)'
    <3>1. n \in replica'.from .. sequences'[h]
      BY <1>3, <2>1, <2>4
    <3>2. n \notin replica'.received
      <4>1. n \notin replica.received /\ (h = t.key => n # t.sequence)
        BY <2>4 DEF Lost
      <4>2. h = t.key => n # new
        BY <1>1, <2>1
      <4> HIDE DEF new
      <4>3. QED
        BY <1>7, <2>2, <4>1, <4>2
    <3>3. QED
      BY <1>2, <2>4, <3>1, <3>2 DEF Lost
  <2>5. FollowsOrLost'
    <3>1. SUFFICES ASSUME replica'.levels # None
                   PROVE  \/ replica'.levels = lastSnapshots'[h]
                          \/ \E n \in replica'.from .. sequences'[h] : Lost(h, n)'
      BY <1>2 DEF FollowsOrLost
    <3>2. CASE subscribed[Replica] = In(t.key, t.set)
      <4>1. h = t.key /\ lastSnapshots'[h] = t.levels
        BY <1>4, <2>2, <3>2
      <4>2. CASE replica'.levels = t.levels
        BY <4>1, <4>2
      <4>3. CASE replica'.levels # t.levels
        <5>1. /\ replica'.from = replica.from /\ replica.levels # None
              /\ replica.levels # lastSnapshots[h]
          BY <1>7, <3>1, <3>2, <4>1, <4>3
        <5>2. PICK n \in replica.from .. sequences[h] : Lost(h, n)
          BY <1>10, <5>1 DEF FeedInv, FollowsOrLost
        <5>3. QED
          BY <2>4, <5>1, <5>2
      <4>4. QED
        BY <4>2, <4>3
    <3>3. CASE subscribed[Replica] # In(t.key, t.set) /\ h = t.key
      <4>1. replica' = replica
        BY <1>7, <3>3
      <4>2. new \in replica'.from .. sequences'[h]
        BY <1>1, <1>3, <2>1, <3>3, <4>1
      <4>3. new \notin replica'.received
        BY <1>1, <2>1, <3>3, <4>1
      <4>4. \A u \in publications' : u.key = h => u.sequence # new
        <5>1. ASSUME NEW u \in publications, u.key = h PROVE u.sequence # new
          <6>1. u.sequence \in Nat /\ u.sequence <= sequences[h]
            BY <5>1 DEF FeedInv, FeedTypes, Publications, NumbersGivenOut
          <6>2. QED
            BY <1>1, <3>3, <6>1
        <5>2. QED
          BY <1>2, <5>1
      <4>5. QED
        BY <1>2, <4>2, <4>3, <4>4 DEF Lost
    <3>4. CASE subscribed[Replica] # In(t.key, t.set) /\ h # t.key
      <4>1. replica' = replica /\ lastSnapshots'[h] = lastSnapshots[h]
        BY <1>4, <1>7, <2>1, <3>4
      <4>2. CASE replica.levels = lastSnapshots[h]
        BY <4>1, <4>2
      <4>3. CASE replica.levels # lastSnapshots[h]
        <5>1. PICK n \in replica.from .. sequences[h] : Lost(h, n)
          BY <1>10, <3>1, <4>1, <4>3 DEF FeedInv, FollowsOrLost
        <5>2. QED
          BY <2>4, <4>1, <5>1
      <4>4. QED
        BY <4>2, <4>3
    <3>5. QED
      BY <3>2, <3>3, <3>4
  <2>6. QED
    BY <2>3, <2>5
<1>11. ReceivedGivenOut' /\ FollowsOrLost'
  BY <1>2, <1>10 DEF ReceivedGivenOut, FollowsOrLost
<1>12. QED
  BY <1>8, <1>9, <1>11 DEF FeedInv

-----------------------------------------------------------------------------
LEMMA NextFollows ==
  ASSUME FeedInv, [FeedNext]_feedVars
  PROVE  FeedInv'
<1>1. CASE \E k \in Books, p \in Prices : ChangeBook(k, p)
  BY <1>1, ChangeBookStep
<1>2. CASE UpdateMarketTickConfig \/ CloseMarketConfig \/ OpenMarketConfig
  <2>1. UNCHANGED <<book, publisherVars, replica>>
    BY <1>2
    DEF UpdateMarketTickConfig, CloseMarketConfig, OpenMarketConfig, SetMarketClobEnabled
  <2>2. QED
    BY <2>1, QuietFeedStep DEF FeedInv, FeedTypes
<1>3. CASE \E k \in Books : PublishBookUpdate(k) \/ PublishTrade(k)
  BY <1>3, PublishBookUpdateStep, PublishTradeStep
<1>4. CASE \E c \in Clients : Leave(c) \/ \E k \in Books : Subscribe(c, k)
  BY <1>4, LeaveStep, SubscribeStep
<1>5. CASE \E t \in publications : LoadBookSnapshot(t) \/ Continue(t)
  BY <1>5, LoadBookSnapshotStep, ContinueStep
<1>6. CASE \E commits \in BOOLEAN : SweepMarketConfigEvent(commits)
  BY <1>6, SweepMarketConfigEventStep
<1>7. CASE UNCHANGED feedVars
  BY <1>7, QuietFeedStep DEF feedVars, dbVars, FeedInv, FeedTypes
<1>8. QED
  BY <1>1, <1>2, <1>3, <1>4, <1>5, <1>6, <1>7 DEF FeedNext

THEOREM FeedInvHolds == FeedSpec => []FeedInv
<1>1. FeedInit => FeedInv
  BY InitFollows
<1>2. FeedInv /\ [FeedNext]_feedVars => FeedInv'
  BY NextFollows
<1>3. QED
  BY <1>1, <1>2, PTL DEF FeedSpec

(* A client of bookFeedPublisher.ts that has received every number since its   *)
(* snapshot has the book the publisher last loaded, whatever publications      *)
(* overtook each other while they waited for the database and whatever Set     *)
(* they were sent to.                                                          *)
THEOREM ReplicaFollows == FeedSpec => []ReplicaFollowsPublisher
<1>1. FeedInv => ReplicaFollowsPublisher
  BY DEF FeedInv, FollowsOrLost, Lost, ReplicaFollowsPublisher
<1>2. QED
  BY <1>1, FeedInvHolds, PTL
=============================================================================
