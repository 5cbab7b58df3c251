SPECIFICATION Spec
CONSTANTS
  s1 = s1
  s2 = s2
  Shard = {s1, s2}
  CoordinatorShard = s1
  MaxTerm <- OneFailoverEach
  PrepareTimestamp <- Timestamps
  ClientApiVersion = TRUE
  ClientWriteConcerns = {"1", "majority"}
  SessionMovesOn = {s1}
INVARIANTS TypeOK AnswersTrue FinishedOnlyWhenDecided OneCommitTimestamp
PROPERTY AtomicCommitSpec
CHECK_DEADLOCK FALSE
