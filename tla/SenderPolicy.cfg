CONSTANTS
  Domains <- MCDomains
  Zones <- MCZones
  Sessions <- MCSessions
  LIMIT = 3
  MaxNames = 2
SPECIFICATION PolicySpec
CHECK_DEADLOCK FALSE
INVARIANTS VerdictEarned HeardOnce
PROPERTIES ChecksEnd
