SPECIFICATION Spec
CONSTANTS
  s1 = s1
  s2 = s2
  Shard = {s1, s2}
  CoordinatorShard = s1
  MaxTerm <- OneFailoverEach
  PrepareTimestamp <- Timestamps
  ClientApiVersion = TRUE
  ClientWriteConcerns = {"majority"}
  SessionMovesOn = {}
INVARIANT NonePreparedWhenForgotten
CHECK_DEADLOCK FALSE
