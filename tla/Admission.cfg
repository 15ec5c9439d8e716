CONSTANTS
  Settings <- MCSettings
  MaxHelos = 3
  MaxMails = 2
  MaxExchanges = 2
SPECIFICATION Spec
CHECK_DEADLOCK FALSE
INVARIANTS SenderResolves MismatchIsReal
