CONSTANTS
  Zones = {z1, z2}
  Clients = {c1}
SPECIFICATION ListsSpec
CHECK_DEADLOCK FALSE
INVARIANTS ListsFollowed
PROPERTIES RecoveredZonesUsed
