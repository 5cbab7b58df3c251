SPECIFICATION Spec
CONSTANTS
  l1 = l1
  l2 = l2
  l3 = l3
  l4 = l4
  Locker = {l1, l2, l3}
  NoLocker = NoLocker
  Cleaner = Cleaner
  PartitionOf <- TwoPartitions
  Global = FALSE
  Upgraders = {l1}
  UnitUsers = {l1}
  RequestModes = {"IS", "IX", "X"}
  MaxScopes = 2
INVARIANTS TypeOK GrantsCompatible CountsMatch PartitionedOnlyIntent NoLostGrant NotifiedWhenGranted ScopesHeld
PROPERTIES TwoPhase NoOvertaking
SYMMETRY Alike
