SPECIFICATION FairSpec
CONSTANTS
  s1 = s1
  s2 = s2
  Shard = {s1, s2}
  CoordinatorShard = s1
  MaxTerm <- OneFailoverEach
  PrepareTimestamp <- Timestamps
  ClientApiVersion = FALSE
  ClientWriteConcerns = {"majority"}
  SessionMovesOn = {}
INVARIANT NonePreparedWhenForgotten
PROPERTIES PreparedResolved CommitCarriedOut CoordinatorEnds
CHECK_DEADLOCK FALSE
