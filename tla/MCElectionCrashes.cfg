SPECIFICATION Spec
CONSTANTS
  s1 = s1
  s2 = s2
  s3 = s3
  Server = {s1, s2, s3}
  NoServer = NoServer
  Arbiter = {s3}
  MaxTerm = 2
  MaxElections = 2
  MaxDryRuns = 0
  MaxRestarts = 1
  VoteWindows = {}
SYMMETRY Symmetry
INVARIANTS TypeOK ElectionSafety OneVotePerTerm LeaderWonItsTerm VoteDurableBeforeReply ElectionInv
CHECK_DEADLOCK FALSE
