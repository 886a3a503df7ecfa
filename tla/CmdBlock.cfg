SPECIFICATION Spec
CONSTANTS
  Patterns <- MCPatterns
  Settings <- MCSettings
  Scripts <- MCScripts
  HoldMax = 2
  ScanMax = 3
INVARIANTS TypeOK NothingMissing Unaltered HoldBounded OnlySeamsLetThrough RecordTellsAll
CHECK_DEADLOCK FALSE
