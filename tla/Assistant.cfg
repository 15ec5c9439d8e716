CONSTANTS
  r1 = r1  r2 = r2
  Room = {r1, r2}
  Bot = {b1, b2}
  Guest = {g1}
  Wanted <- MCWanted
  None = None
  MaxWire = 1
  MaxTimers = 1
  MaxDrops = 1
SPECIFICATION Spec
CHECK_DEADLOCK FALSE
INVARIANTS OneBot SeatedListens InvitesOwn KickedLeaves
