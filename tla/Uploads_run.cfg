SPECIFICATION Spec
CONSTANTS
  Workers = {w1, w2}
  Inodes = {1, 2, 3, 4, 5, 6}
  Sent <- MCSent
  Chunks = 2
  Intended <- MCIntended
  Sizes = {0, 2}
  MaxOps = 5
  MaxCrashes = 1
SYMMETRY WorkerSymmetry
CHECK_DEADLOCK FALSE
INVARIANTS TypeOK DestinationVerified OneCreation
