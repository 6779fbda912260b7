SPECIFICATION AllSpec
CONSTANTS
  o1 = o1
  o2 = o2
  small = small
  large = large
  go = go
  so = so
  asset = asset
  Objects <- MCObjects
  Tables <- MCTables
  Capacity <- MCCapacity
  FirstTable = small
  Classes <- MCClasses
  ClassOf <- MCClassOf
  Lineage <- MCLineage
  GameObject = go
  ScriptableObject = so
  MaxDepth = 2
  Options <- MCOptions
  Chunk = 2
  MaxCapacity = 10
  Listable <- MCListable
  NamespaceOf <- MCNamespaceOf
  ClassName <- MCClassName
  NameParts = {"A", "B", "T", "U"}
  Sought <- MCSought
  Images <- MCImages
  Sets = {"real", "one", "vast", "broken"}
  Registry = "real"
  RegistrySlots = 3
  HeaderOf <- MCHeaderOf
  TableOf <- MCTableOf
  Managers = {0, 4}
  Near = 2
  Batch = 2
  MaxCount = 10
  MaxScanned = 10
  NoSet = "none"
INVARIANTS InsertOnlyExact FoundIsAsked RegistryFound
PROPERTY ImplementsListing
CONSTRAINT Bounded
CHECK_DEADLOCK FALSE
