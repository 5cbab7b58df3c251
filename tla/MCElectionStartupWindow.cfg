SPECIFICATION Spec
CONSTANTS
  s1 = s1
  s2 = s2
  s3 = s3
  Server = {s1, s2, s3}
  NoServer = NoServer
  Arbiter = {}
  MaxTerm = 2
  MaxElections = 3
  MaxDryRuns = 0
  MaxRestarts = 1
  VoteWindows = {"startup"}
SYMMETRY Symmetry
INVARIANTS OneVotePerTerm
CHECK_DEADLOCK FALSE
