SPECIFICATION ArraysSpec
CONSTANTS
  Components = {Position, Velocity}
  Values = {a, b}
  MaxId = 3
SYMMETRY Symmetric
INVARIANTS
  TypeOK
  FreeListHasNoDuplicates
  FreeAndLivePartitionIds
  AliveCountIsExact
  OnlyLiveEntitiesHaveComponents
  SparseHoldsStorage
  PackedHoldsStorage
  WalkVisitsWhatStays
PROPERTIES
  AllocatorSpec
