SPECIFICATION FairSpec
CONSTANTS
  N = 3
  Cap = 1
  Times = {0, 1}
  Payloads = {a}
INVARIANTS TypeOK TreeSound Conservative
PROPERTIES RefinesMerge KeepsUp
