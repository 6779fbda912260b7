SPECIFICATION AllSpec
CONSTANTS
  c1 = c1
  c2 = c2
  c3 = c3
  transform = transform
  script = script
  lookalike = lookalike
  large = large
  small = small
  None = None
  Components <- MCComponents
  Pools <- MCPools
  PoolSize <- MCPoolSize
  Types <- MCTypes
  TypeOf <- MCTypeOf
  Names <- MCNames
  NameOf <- MCNameOf
  Fickle <- MCFickle
  Queries <- MCQueries
  SearchCap = 3
  ListCap = 2
  Transforms <- MCTransforms
  Start = 1
  Trees <- MCTrees
  Hierarchies <- MCHierarchies
  Slots = 4
  Bare <- MCBare
  MaxDepth = 2
  MaxNodes = 3
  MaxChildren = 2
  Left <- MCLeft
  MaxMoves = 2
INVARIANTS ReturnedWasAttached QuietExact PathIsOfTarget BonesAreOfTarget
CHECK_DEADLOCK FALSE
