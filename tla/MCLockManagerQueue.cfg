SPECIFICATION Spec
CONSTANTS
  l1 = l1
  l2 = l2
  l3 = l3
  l4 = l4
  Locker = {l1, l2, l3, l4}
  NoLocker = NoLocker
  Cleaner = Cleaner
  PartitionOf <- TwoPartitions
  Global = FALSE
  Upgraders = {}
  UnitUsers = {}
  RequestModes = {"IS", "X"}
  MaxScopes = 1
PROPERTIES GrantsAllCompatible
