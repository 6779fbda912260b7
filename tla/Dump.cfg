SPECIFICATION AllSpec
CONSTANTS
  Totals = {0, 1, 3, 5, 6, 7}
  Parts = 3
  Listeners = {A, B}
  NoListener = None
  Dlls <- MCDlls
  MaxCalls = 1
  HintTargets <- MCHintTargets
  ImageRecord = 2
  AssemblyRecord = 3
  Pages = 4
  CopyChunk = 2
  Changes = 1
  MethodTargets <- MCMethodTargets
  Key <- MCKey
  ViewSearch <- MCViewSearch
  DumpSearch <- MCDumpSearch
  Rows = {0, 1, 2, 3, 4}
  Indices = {0, 1, 2, 3, 4, 5, 6, 7, 8, 9, 10}
  MaxImages = 5
  MaxPointers = 4
  Width = 1000
INVARIANTS
  ReportsNeverGoBack StageIsFramed Throttled
  ReportedIsWritten FilesBelongTogether HintExported CopiesAreExact AddressesAreRight
CHECK_DEADLOCK FALSE
