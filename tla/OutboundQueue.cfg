CONSTANTS
  ann = ann  bob = bob
  Rcpt = {ann, bob}
  DeliveryLists <- OneDomainOrTwo
  MaxFailures = 1
  Slots = 1
  MaxMails = 3
  MaxMishaps = 1
SPECIFICATION Spec
CHECK_DEADLOCK FALSE
INVARIANTS NobodyLost SlotsExact
PROPERTIES PromiseKept EventuallyResolved
