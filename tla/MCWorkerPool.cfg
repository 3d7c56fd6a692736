SPECIFICATION FairSpec
CONSTANTS
  NActors = 4
  NWorkers = 3
  MaxHeaps = 2
  Goal = 2
  MaxPanics = 1
INVARIANTS OneOwner NoEarlyReturn AllResults
PROPERTIES StartReturns
