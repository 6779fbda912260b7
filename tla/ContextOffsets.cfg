SPECIFICATION ContextSpec
CONSTANTS
  game = game
  update = update
  other = other
  None = None
  Pids = {7}
  Instances <- MCTwo
  Il2Cpp <- MCIl2Cpp
  Metadata <- MCMetadata
  Questions <- MCQuestions
  HeaderSize = 16
  GaBase <- MCSameBaseTwo
INVARIANT FieldOffsetsOfTarget
