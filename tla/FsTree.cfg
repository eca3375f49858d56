SPECIFICATION Spec
CONSTANTS
  Names <- MCNames
  Stem <- MCStem
  NewFolder <- MCNewFolder
  NewLeaf <- MCNewLeaf
  MaxIds = 3
  MaxSteps = 6
  MaxFaults = 1
INVARIANTS
  TreeIsConsistent
  SavedIsOnDisk
PROPERTY RestartKeepsTree
CHECK_DEADLOCK FALSE
