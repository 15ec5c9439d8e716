CONSTANTS
  NumRcpts = 3
  MaxHosts = 2
  Options <- MCOptions
SPECIFICATION Spec
CHECK_DEADLOCK FALSE
INVARIANTS VerdictsTruthful TakenOnce OneVerdict ForcedTlsKept
PROPERTIES Decided
