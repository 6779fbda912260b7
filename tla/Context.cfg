SPECIFICATION AllSpec
CONSTANTS
  game = game
  update = update
  other = other
  None = None
  Pids = {1, 2}
  Instances <- MCInstances
  Il2Cpp <- MCIl2Cpp
  Metadata <- MCMetadata
  Questions <- MCQuestions
  HeaderSize = 16
  GaBase <- MCMixedBase
INVARIANTS OneTarget NothingStale FailureDetaches FieldOffsetsFresh OffsetIsNearest
