SPECIFICATION FairSpec
CONSTANTS
  NActors = 2
  Seeds = 1
  Lookahead = 1
  Delays = {0, 2}
  TimeLimit = 4
  QSize = 2
INVARIANTS NothingInThePast Population
PROPERTIES RefinesSimulation Terminates
CHECK_DEADLOCK FALSE
