SPECIFICATION Spec
CONSTANTS
  N = 5
  Cap = 1
  Times = {0, 1}
  Payloads = {}
INVARIANTS WalkInOrder PathsToParents WinnerIsLeast
