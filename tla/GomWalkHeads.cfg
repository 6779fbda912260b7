SPECIFICATION Spec
CONSTANTS
  o1 = o1
  o2 = o2
  tagHead = tagHead
  localHead = localHead
  t1 = t1
  t2 = t2
  Null = Null
  Nothing = Null
  Objects <- MCObjects
  Heads <- MCHeads
  Tables <- MCOneTable
  Layout <- MCOneLayout
  LocalHead = localHead
  HeadWord <- MCHeadWord
  Leaves = {"stale"}
  MaxNodes = 10
  MaxBuckets = 4
INVARIANT OnlyGameObjects
SYMMETRY Symmetry
