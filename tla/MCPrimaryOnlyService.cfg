SPECIFICATION FairSpec
CONSTANTS
  a = a
  InstanceID = {a}
  MaxTerm = 2
  MaxCreated = 1
INVARIANTS TypeOK OneInstance EveryDocumentResumed InterruptedAtStepDown RebuildFindsNoInstance CleanupBeforeShutdown
PROPERTIES StepUpReturns ShutdownReturns CallsReturn
CHECK_DEADLOCK FALSE
