SPECIFICATION AnySpec
CONSTANTS
  o1 = o1
  o2 = o2
  o3 = o3
  tagHead = tagHead
  localHead = localHead
  Null = Null
  Objects <- MCObjects
  Heads <- MCLocalOnly
  Leaves = {"stale"}
  Head0 = localHead
  Slots <- MCSlots
  TableLikely = TRUE
  MaxBuckets = 2
  HeadWord <- MCLocalWord
  ScanCount = 2
  ScoreCap = 2
  LenBound = 4
  Gone <- MCGone
INVARIANT VerdictCorrect
PROPERTY CheckEnds
