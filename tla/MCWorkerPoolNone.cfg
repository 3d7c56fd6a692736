SPECIFICATION Spec
CONSTANTS
  NActors = 2
  NWorkers = 0
  MaxHeaps = 2
  Goal = 1
  MaxPanics = 0
INVARIANTS AllResults
