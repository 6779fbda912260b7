SPECIFICATION Spec
CONSTANTS
  Bytes = {0, 1}
  Patterns <- MCPatterns
  ChunkSizes = {1, 3, 4}
  MinChunk = 2
  Maps <- MCMaps
  HitLimits = {0, 1, 2}
  Others = {"other"}
  Width = 64
  Align = 2
  MinOffset = 4
  MinTables = 3
  MinEnd = 8
  MaxEnd = 40
  ImageRecord = 2
  AssemblyRecord = 2
  MaxRecords = 10
  ScorePage = 4
  Required = 0
  Strict = FALSE
  NoBlob = "none"
  Blobs <- MCBlobs
  PageOf <- MCPageOf
  Fits <- MCFits
  HeaderAt <- MCHeaderAt
  Modules <- MCModules
  WordSize = 2
  ChunkSize = 4
  MaxPages = 2
  ReadSize = 8
  RegistrationInputs <- MCRegistrationInputs
  ModuleNames = {901, 902}
  SampleSize = 3
  MaxCount = 100
  MaxInvokers = 100
  MaxModules = 3
  MaxListed = 2
  MaxMethods = 50
  Half = 1000
  OfflineInputs <- MCOfflineInputs
  ImageNames = {901, 902, 903}
  Mscorlib = 901
  MaxBack = 18
  MaxDelta = 5
  MaxRatio = 10
  MaxGeneric = 50
  MaxTable = 2
  ClassTargets <- MCClassTargets
  Anchors <- MCAnchors
  ClassName <- MCClassName
  MaxSamples = 5
  ClassChunk = 2
INVARIANTS
  HitsAreOccurrences BestHeaderFound ExportAllOrNothing FoundUnlessCut
  LinkedIsFound NoBetterOneLeft LoadedOrError ClassTableFound
