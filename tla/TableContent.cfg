SPECIFICATION ContentSpec
CONSTANTS
  Years <- MCYears
  Tables <- MCTables
INVARIANTS
  ScanAgrees
  CompleteIsWhole
  TableIsSent
  DescriptorsAreRead
  TimesAreRead
PROPERTIES
  ScanTerminates
CHECK_DEADLOCK FALSE
