CONSTANTS
  ann = ann  bob = bob  noreply = noreply
  tab1 = tab1  tab2 = tab2  laptop = laptop
  letter = letter  answer = answer  lost = lost
  Address = {ann, bob, noreply}
  Socket = {tab1, tab2, laptop}
  Letter = {letter, lost}
  Owner <- MCOwner
  From <- MCFrom
  To <- MCTo
  Refused = {noreply}
  NoSocket = NoSocket
  NoAddress = NoAddress
  NoLists = NoLists
  MaxCopies = 2
SPECIFICATION StoreSpec
CHECK_DEADLOCK FALSE
INVARIANTS InboxCurrent SentShown
PROPERTIES KeptUnlessGone
