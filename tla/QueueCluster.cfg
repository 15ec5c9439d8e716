CONSTANTS
  f1 = f1
  File = {f1}
  Nodes = 2
  OldPids <- Before
  Slots = 1
  MaxProcs = 4
  MaxNames = 2
  MaxFaults = 2
  MaxCommands = 1
SPECIFICATION Spec
CHECK_DEADLOCK FALSE
INVARIANTS OneKeeper NoneForgotten ServedOnce
