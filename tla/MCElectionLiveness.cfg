SPECIFICATION FairSpec
CONSTANTS
  s1 = s1
  s2 = s2
  s3 = s3
  Server = {s1, s2}
  NoServer = NoServer
  Arbiter = {}
  MaxTerm = 2
  MaxElections = 2
  MaxDryRuns = 1
  MaxRestarts = 1
  VoteWindows = {"stepDown", "startup"}
PROPERTIES CandidacyEnds StepDownEnds HandlersEnd
CHECK_DEADLOCK FALSE
