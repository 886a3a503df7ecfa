SPECIFICATION Spec
CONSTANTS
  Patterns <- MCPatterns
  Settings <- MCSettings
  Scripts <- MCScripts
  HoldMax = 2
  ScanMax = 3
INVARIANT HoldFlushed
CHECK_DEADLOCK FALSE
