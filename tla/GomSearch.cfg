SPECIFICATION Spec
CONSTANTS
  o1 = o1
  o2 = o2
  tagHead = tagHead
  localHead = localHead
  t1 = t1
  Null = Null
  Objects <- MCObjects
  Heads <- MCHeads
  Leaves = {"stale"}
  LocalHead = localHead
  Slots <- MCSlots
  MaxBuckets = 4
  HeadWord <- MCHeadWord
  ScanCount = 2
  ScoreCap = 2
  LenBound = 4
  Tags <- MCTags
  Hash <- MCHash
  TagObjects <- MCTagObjects
  TagOf <- MCTagOf
  Lists <- MCHeads
  SlotCount = 2
  Deleted = 99
  Inputs <- MCInputs
  Seed <- MCSeed
  Ones <- MCOnes
  Stride = 3
  HeadAt = 2
  Preferred <- MCPreferred
  Likely <- MCLikely
  High <- MCHigh
  SeedLimit = 2
  CandidateLimit = 2
  SlotLimit = 2
  MaxUp = 3
  MaxScore = 9
  Writes <- MCWrites
INVARIANTS VerdictCorrect TagAnswered ChainFound BestOfSections
PROPERTY CallEnds
CHECK_DEADLOCK FALSE
