CONSTANTS
  ann = ann  bob = bob
  tab1 = tab1  tab2 = tab2  tab3 = tab3  laptop = laptop
  User = {ann, bob}
  Socket = {tab1, tab2, tab3, laptop}
  Owner <- MCOwner
  NoSocket = NoSocket
  NoView = NoView
SPECIFICATION SyncSpec
CHECK_DEADLOCK FALSE
SYMMETRY TabSymmetry
INVARIANTS LatestReachable ShownCurrent
