SPECIFICATION PipelineSpec
CONSTANTS
  Totals = {0}
  Parts = 3
  Listeners = {A}
  NoListener = None
  Dlls <- MCDlls
  MaxCalls = 1
  HintTargets <- MCHintTargets
  ImageRecord = 2
  AssemblyRecord = 3
  Pages = 4
  CopyChunk = 2
  Changes = 1
  MethodTargets <- MCMethodTargets
  Key <- MCKey
  ViewSearch <- MCViewSearch
  DumpSearch <- MCDumpSearch
  Rows = {0, 1, 2, 3, 4}
  Indices = {0, 1, 2, 3, 4, 5, 6, 7, 8, 9, 10}
  MaxImages = 5
  MaxPointers = 4
  Width = 1000
INVARIANT MainPathKept
CHECK_DEADLOCK FALSE
