SPECIFICATION Spec
CONSTANTS
  s1 = s1
  s2 = s2
  s3 = s3
  None = None
  Slot <- Slots
  Counters <- NewAndOldHost
  Hosts = 3
  MaxCalls = 5
SYMMETRY Symmetry
CHECK_DEADLOCK FALSE
INVARIANTS TypeOK UniqueIds AddressesApart GatewayKept WholeRootfs
PROPERTY NeverReused
