SPECIFICATION Spec
CONSTANTS
  Names = {1, 2, 3}
  Writers = {w1, w2}
  Cap = 2
  TTL = 1
  MaxTime = 3
  MaxCrashes = 1
  MaxFaults = 1
  MaxSteps = 1
SYMMETRY WriterSymmetry
INVARIANTS BacklogBound
PROPERTIES RecordedSurvives EvictsOldestFirst
