SPECIFICATION FairSpec
CONSTANTS
  a = a
  b = b
  Values = {a, b}
  Cap = 2
  NoVal = NoVal
INVARIANTS TypeOK SlotsSound LenBounds
PROPERTIES CheckThenAct RefinesFifo CallsReturn
