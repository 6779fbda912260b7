SPECIFICATION LiveSpec
CONSTANTS
  o1 = o1
  o2 = o2
  o3 = o3
  tagHead = tagHead
  localHead = localHead
  Null = Null
  Objects <- MCFewObjects
  Heads <- MCHeads
  Leaves = {"stale"}
  Head0 = localHead
  Slots <- MCTagSlots
  TableLikely = TRUE
  MaxBuckets = 2
  HeadWord <- MCHeadWord
  ScanCount = 2
  ScoreCap = 2
  LenBound = 4
  Gone <- MCNoneGone
PROPERTY CheckEnds
