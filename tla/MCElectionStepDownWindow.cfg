SPECIFICATION Spec
CONSTANTS
  s1 = s1
  s2 = s2
  s3 = s3
  Server = {s1, s2, s3}
  NoServer = NoServer
  Arbiter = {s3}
  MaxTerm = 2
  MaxElections = 3
  MaxDryRuns = 0
  MaxRestarts = 0
  VoteWindows = {"stepDown"}
SYMMETRY Symmetry
INVARIANTS ElectionSafety
CHECK_DEADLOCK FALSE
