SPECIFICATION Spec
CONSTANTS
  Threads = {"io", "game"}
  MaxCreations = 1
INVARIANT SpawnIdsUnique
CHECK_DEADLOCK FALSE
