SPECIFICATION Spec
CONSTANTS
  l1 = l1
  l2 = l2
  l3 = l3
  l4 = l4
  Locker = {l1, l2, l3, l4}
  NoLocker = NoLocker
  Cleaner = Cleaner
  PartitionOf <- TwoPartitions
  Global = TRUE
  Upgraders = {}
  UnitUsers = {}
  RequestModes = {"IS", "S", "X"}
  MaxScopes = 1
INVARIANTS GrantsCompatible CompatibleFirstCounted NoLostGrant
SYMMETRY Alike
