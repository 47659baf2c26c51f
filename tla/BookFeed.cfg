SPECIFICATION FeedSpec
CONSTANTS
  Books = {YES, NO}
  Prices = {650000}
  Clients = {replica, page}
  Replica = replica
  None = None
  MaxSequence = 7
  MaxChanges = 2
INVARIANTS
  ReplicaFollowsPublisher
CHECK_DEADLOCK FALSE
